-------------------------- MODULE FortLayoutProofs --------------------------
(***************************************************************************)
(* What holds of the text a table of FortTable is turned into, for every   *)
(* choice of the constants: the table and its parts have their types at    *)
(* all times, all lines of the text are as wide as one another, and the    *)
(* text is whole, that is, the estimate of its size is enough and every    *)
(* cell fits its columns.                                                  *)
(***************************************************************************)
EXTENDS FortTableProofs

-----------------------------------------------------------------------------
(* Sums of functions, which the library folds over the elements of a       *)
(* finite set in an order of its choice.                                   *)

\* The table of all sums over subsets of S, as the library computes it.
Pick(s) == CHOOSE x \in s : TRUE

\* The sum over s from the sums over smaller sets.
SumStep(f, g, s) == IF s = {} THEN 0 ELSE f[Pick(s)] + g[s \ {Pick(s)}]

\* g has the sums over all subsets of S.
IsSums(f, S, g) == g = [s \in SUBSET S |-> SumStep(f, g, s)]

\* The library picks such a table.
LEMMA SumIs ==
  ASSUME NEW f, NEW S
  PROVE  SumFunctionOnSet(f, S) = (CHOOSE g : IsSums(f, S, g))[S]
  BY DEF SumFunctionOnSet, FoldFunctionOnSet, MapThenFoldSet, IsSums, SumStep, Pick

\* The sums of the subsets of up to n elements.
OfSize(S, n) == {s \in SUBSET S : Cardinality(s) <= n}

\* h has the sums of those.
IsStage(f, S, n, h) == h = [s \in OfSize(S, n) |-> SumStep(f, h, s)]

\* What is picked from a set is in it, and the rest is smaller.
LEMMA PickIn ==
  ASSUME NEW s, s # {}, IsFiniteSet(s)
  PROVE  /\ Pick(s) \in s
         /\ IsFiniteSet(s \ {Pick(s)})
         /\ Cardinality(s) \in Nat /\ Cardinality(s \ {Pick(s)}) \in Nat
         /\ Cardinality(s \ {Pick(s)}) = Cardinality(s) - 1
<1>1. Pick(s) \in s
  BY DEF Pick
<1>2. QED
  BY <1>1, FS_RemoveElement, FS_CardinalityType

\* One element less.
LEMMA OneLess ==
  ASSUME NEW s, IsFiniteSet(s), NEW m \in Nat, Cardinality(s) = m + 1, NEW x \in s
  PROVE  Cardinality(s \ {x}) = m
<1>1. Cardinality(s \ {x}) = Cardinality(s) - 1
  BY FS_RemoveElement
<1>2. QED
  BY <1>1

\* There are sums of the subsets of up to n elements for every n.
LEMMA StageExists ==
  ASSUME NEW f, NEW S, IsFiniteSet(S), NEW n \in Nat
  PROVE  \E h : IsStage(f, S, n, h)
<1> DEFINE N == {m \in Nat : \E h : IsStage(f, S, m, h)}
<1>1. 0 \in N
  <2> DEFINE h == [s \in OfSize(S, 0) |-> 0]
  <2>1. \A s \in OfSize(S, 0) : s = {}
    BY FS_Subset, FS_EmptySet, FS_CardinalityType DEF OfSize
  <2>2. \A s \in OfSize(S, 0) : SumStep(f, h, s) = 0
    BY <2>1 DEF SumStep
  <2>3. IsStage(f, S, 0, h)
    BY <2>2 DEF IsStage
  <2>4. QED
    BY <2>3
<1>2. ASSUME NEW m \in Nat, m \in N
      PROVE  m + 1 \in N
  <2>1. PICK h : IsStage(f, S, m, h)
    BY <1>2
  <2> DEFINE k == [s \in OfSize(S, m + 1) |-> SumStep(f, h, s)]
  <2>2. ASSUME NEW s \in OfSize(S, m + 1)
        PROVE  SumStep(f, k, s) = SumStep(f, h, s)
    <3>1. CASE s = {}
      BY <3>1 DEF SumStep
    <3>2. CASE s # {}
      <4>1. IsFiniteSet(s) /\ s \in SUBSET S /\ Cardinality(s) <= m + 1
        BY FS_Subset DEF OfSize
      <4> DEFINE r == s \ {Pick(s)}
      <4>2. Cardinality(r) = Cardinality(s) - 1 /\ Cardinality(s) \in Nat
        BY <3>2, <4>1, PickIn
      <4>3. r \in OfSize(S, m) /\ r \in OfSize(S, m + 1)
        BY <4>1, <4>2 DEF OfSize
      <4>4. h[r] = SumStep(f, h, r) /\ k[r] = SumStep(f, h, r)
        BY <2>1, <4>3 DEF IsStage
      <4>5. QED
        BY <3>2, <4>4 DEF SumStep
    <3>3. QED
      BY <3>1, <3>2
  <2>3. IsStage(f, S, m + 1, k)
    BY <2>2 DEF IsStage
  <2>4. QED
    BY <2>3
<1>3. N = Nat
  <2>1. N \in SUBSET Nat
    OBVIOUS
  <2> HIDE DEF N
  <2>2. QED
    BY <1>1, <1>2, <2>1, Induct
<1>4. QED
  BY <1>3

\* Over a finite set there is such a table.
LEMMA SumsExist ==
  ASSUME NEW f, NEW S, IsFiniteSet(S)
  PROVE  IsSums(f, S, CHOOSE g : IsSums(f, S, g))
<1>1. Cardinality(S) \in Nat
  BY FS_CardinalityType
<1>2. PICK h : IsStage(f, S, Cardinality(S), h)
  BY <1>1, StageExists
<1>3. OfSize(S, Cardinality(S)) = SUBSET S
  BY FS_Subset DEF OfSize
<1>4. IsSums(f, S, h)
  BY <1>2, <1>3 DEF IsStage, IsSums
<1>5. QED
  BY <1>4, Zenon

\* The sum over a set does not depend on the set whose subsets were tabled.
LEMMA SumsAgree ==
  ASSUME NEW f, NEW S, NEW T, IsFiniteSet(S), IsFiniteSet(T), NEW g, NEW h,
         IsSums(f, S, g), IsSums(f, T, h), S \subseteq T
  PROVE  g[S] = h[S]
<1> DEFINE N == {m \in Nat : \A s \in SUBSET S : Cardinality(s) = m => g[s] = h[s]}
<1>0. \A s \in SUBSET S : g[s] = SumStep(f, g, s) /\ h[s] = SumStep(f, h, s)
  BY DEF IsSums
<1>1. 0 \in N
  <2>1. \A s \in SUBSET S : Cardinality(s) = 0 => s = {}
    BY FS_Subset, FS_EmptySet
  <2>2. SumStep(f, g, {}) = 0 /\ SumStep(f, h, {}) = 0
    BY DEF SumStep
  <2>3. QED
    BY <1>0, <2>1, <2>2
<1>2. ASSUME NEW m \in Nat, m \in N
      PROVE  m + 1 \in N
  <2>1. SUFFICES ASSUME NEW s \in SUBSET S, Cardinality(s) = m + 1
                 PROVE  g[s] = h[s]
    OBVIOUS
  <2>2. IsFiniteSet(s) /\ s # {}
    BY <2>1, FS_Subset, FS_EmptySet
  <2> DEFINE r == s \ {Pick(s)}
  <2>3. Cardinality(r) = Cardinality(s) - 1
    BY <2>2, PickIn
  <2>4. r \in SUBSET S /\ Cardinality(r) = m
    BY <2>1, <2>3
  <2>5. g[r] = h[r]
    BY <1>2, <2>4
  <2>6. QED
    BY <1>0, <2>2, <2>5 DEF SumStep
<1>3. N = Nat
  <2>1. N \in SUBSET Nat
    OBVIOUS
  <2> HIDE DEF N
  <2>2. QED
    BY <1>1, <1>2, <2>1, Induct
<1>4. Cardinality(S) \in N
  BY <1>3, FS_CardinalityType
<1>5. QED
  BY <1>4, Zenon

\* The sum over nothing.
LEMMA SumEmpty ==
  ASSUME NEW f
  PROVE  SumFunctionOnSet(f, {}) = 0
<1>1. IsSums(f, {}, CHOOSE g : IsSums(f, {}, g))
  BY SumsExist, FS_EmptySet
<1>2. QED
  BY <1>1, SumIs DEF IsSums, SumStep

\* The sum is what is picked first and the sum of the rest.
LEMMA SumPick ==
  ASSUME NEW f, NEW S, IsFiniteSet(S), S # {}
  PROVE  SumFunctionOnSet(f, S) = f[Pick(S)] + SumFunctionOnSet(f, S \ {Pick(S)})
<1> DEFINE r == S \ {Pick(S)}
           G == CHOOSE g : IsSums(f, S, g)
           H == CHOOSE g : IsSums(f, r, g)
<1>1. IsFiniteSet(r)
  BY PickIn
<1>2. IsSums(f, S, G) /\ IsSums(f, r, H)
  BY <1>1, SumsExist
<1>3. SumFunctionOnSet(f, S) = G[S] /\ SumFunctionOnSet(f, r) = H[r]
  BY SumIs
<1> HIDE DEF G, H
<1>4. H[r] = G[r]
  BY <1>1, <1>2, SumsAgree
<1>5. G[S] = SumStep(f, G, S)
  BY <1>2 DEF IsSums
<1>6. QED
  BY <1>3, <1>4, <1>5 DEF SumStep

\* All of f on S are numbers.
Numbers(f, S) == \A x \in S : f[x] \in Nat

\* The sum of numbers is a number.
LEMMA SumType ==
  ASSUME NEW f, NEW S, IsFiniteSet(S), Numbers(f, S)
  PROVE  SumFunctionOnSet(f, S) \in Nat
<1> DEFINE N == {m \in Nat : \A s \in SUBSET S : Cardinality(s) = m
                               => SumFunctionOnSet(f, s) \in Nat}
<1>1. 0 \in N
  <2>1. \A s \in SUBSET S : Cardinality(s) = 0 => s = {}
    BY FS_Subset, FS_EmptySet
  <2>2. QED
    BY <2>1, SumEmpty
<1>2. ASSUME NEW m \in Nat, m \in N
      PROVE  m + 1 \in N
  <2>1. SUFFICES ASSUME NEW s \in SUBSET S, Cardinality(s) = m + 1
                 PROVE  SumFunctionOnSet(f, s) \in Nat
    OBVIOUS
  <2>2. IsFiniteSet(s) /\ s # {}
    BY <2>1, FS_Subset, FS_EmptySet
  <2> DEFINE r == s \ {Pick(s)}
  <2>3. Cardinality(r) = Cardinality(s) - 1 /\ Pick(s) \in s
    BY <2>2, PickIn
  <2>4. r \in SUBSET S /\ Cardinality(r) = m
    BY <2>1, <2>3
  <2>5. SumFunctionOnSet(f, r) \in Nat
    BY <1>2, <2>4
  <2>6. SumFunctionOnSet(f, s) = f[Pick(s)] + SumFunctionOnSet(f, r)
    BY <2>2, SumPick
  <2>7. f[Pick(s)] \in Nat
    BY <2>3 DEF Numbers
  <2>8. QED
    BY <2>5, <2>6, <2>7
<1>3. N = Nat
  <2>1. N \in SUBSET Nat
    OBVIOUS
  <2> HIDE DEF N
  <2>2. QED
    BY <1>1, <1>2, <2>1, Induct
<1>4. Cardinality(S) \in N
  BY <1>3, FS_CardinalityType
<1>5. QED
  BY <1>4, Zenon

\* Any element may be taken out first.
LEMMA SumTake ==
  ASSUME NEW f, NEW S, IsFiniteSet(S), Numbers(f, S), NEW x \in S
  PROVE  /\ SumFunctionOnSet(f, S) = f[x] + SumFunctionOnSet(f, S \ {x})
         /\ f[x] \in Nat /\ SumFunctionOnSet(f, S \ {x}) \in Nat
<1> DEFINE Takes(s) == \A y \in s : SumFunctionOnSet(f, s) = f[y] + SumFunctionOnSet(f, s \ {y})
           N == {m \in Nat : \A s \in SUBSET S : Cardinality(s) = m => Takes(s)}
<1>1. 0 \in N
  <2>1. \A s \in SUBSET S : Cardinality(s) = 0 => s = {}
    BY FS_Subset, FS_EmptySet
  <2>2. QED
    BY <2>1
<1>2. ASSUME NEW m \in Nat, m \in N
      PROVE  m + 1 \in N
  <2>1. SUFFICES ASSUME NEW s \in SUBSET S, Cardinality(s) = m + 1, NEW y \in s
                 PROVE  SumFunctionOnSet(f, s) = f[y] + SumFunctionOnSet(f, s \ {y})
    OBVIOUS
  <2>2. IsFiniteSet(s) /\ s # {}
    BY <2>1, FS_Subset, FS_EmptySet
  <2> DEFINE p == Pick(s)
  <2>3. Cardinality(s \ {p}) = Cardinality(s) - 1 /\ p \in s
    BY <2>2, PickIn
  <2>4. SumFunctionOnSet(f, s) = f[p] + SumFunctionOnSet(f, s \ {p})
    BY <2>2, SumPick
  <2>5. CASE p = y
    BY <2>4, <2>5
  <2>6. CASE p # y
    <3>1. Takes(s \ {p})
      <4>1. s \ {p} \in SUBSET S /\ Cardinality(s \ {p}) = m
        BY <2>1, <2>3
      <4>2. QED
        BY <1>2, <4>1
    <3>2. Takes(s \ {y})
      <4>1. s \ {y} \in SUBSET S /\ Cardinality(s \ {y}) = m
        BY <2>1, <2>2, OneLess
      <4>2. QED
        BY <1>2, <4>1
    <3>3. SumFunctionOnSet(f, s \ {p}) = f[y] + SumFunctionOnSet(f, (s \ {p}) \ {y})
      BY <3>1, <2>6
    <3>4. SumFunctionOnSet(f, s \ {y}) = f[p] + SumFunctionOnSet(f, (s \ {y}) \ {p})
      BY <3>2, <2>3, <2>6
    <3>5. (s \ {p}) \ {y} = (s \ {y}) \ {p}
      OBVIOUS
    <3> DEFINE rest == SumFunctionOnSet(f, (s \ {y}) \ {p})
    <3>6. rest \in Nat /\ f[p] \in Nat /\ f[y] \in Nat
      <4>1. IsFiniteSet((s \ {y}) \ {p}) /\ Numbers(f, (s \ {y}) \ {p})
        BY <2>2, FS_RemoveElement DEF Numbers
      <4>2. QED
        BY <2>1, <2>3, <4>1, SumType DEF Numbers
    <3>7. SumFunctionOnSet(f, s) = f[p] + (f[y] + rest)
      BY <2>4, <3>3, <3>5
    <3> HIDE DEF rest
    <3>8. SumFunctionOnSet(f, s \ {y}) = f[p] + rest
      BY <3>4 DEF rest
    <3> HIDE DEF p
    <3>9. QED
      BY <3>6, <3>7, <3>8
  <2>7. QED
    BY <2>5, <2>6
<1>3. N = Nat
  <2>1. N \in SUBSET Nat
    OBVIOUS
  <2> HIDE DEF N
  <2>2. QED
    BY <1>1, <1>2, <2>1, Induct
<1>4. Takes(S)
  BY <1>3, FS_CardinalityType
<1>5. SumFunctionOnSet(f, S \ {x}) \in Nat
  BY FS_RemoveElement, SumType DEF Numbers
<1>6. QED
  BY <1>4, <1>5 DEF Numbers

\* Over one element.
LEMMA SumOne ==
  ASSUME NEW f, NEW x, f[x] \in Nat
  PROVE  SumFunctionOnSet(f, {x}) = f[x]
<1>1. IsFiniteSet({x}) /\ Numbers(f, {x}) /\ {x} \ {x} = {}
  BY FS_Singleton DEF Numbers
<1>2. SumFunctionOnSet(f, {x}) = f[x] + SumFunctionOnSet(f, {x} \ {x})
  BY <1>1, SumTake
<1>3. QED
  BY <1>1, <1>2, SumEmpty

\* Two functions with the same values have the same sum, and smaller values
\* a smaller one.
LEMMA SumsCompare ==
  ASSUME NEW f, NEW g, NEW S, IsFiniteSet(S), Numbers(f, S), Numbers(g, S),
         \A x \in S : f[x] <= g[x]
  PROVE  SumFunctionOnSet(f, S) <= SumFunctionOnSet(g, S)
<1> DEFINE N == {m \in Nat : \A s \in SUBSET S : Cardinality(s) = m
                               => SumFunctionOnSet(f, s) <= SumFunctionOnSet(g, s)}
<1>1. 0 \in N
  <2>1. \A s \in SUBSET S : Cardinality(s) = 0 => s = {}
    BY FS_Subset, FS_EmptySet
  <2>2. QED
    BY <2>1, SumEmpty
<1>2. ASSUME NEW m \in Nat, m \in N
      PROVE  m + 1 \in N
  <2>1. SUFFICES ASSUME NEW s \in SUBSET S, Cardinality(s) = m + 1
                 PROVE  SumFunctionOnSet(f, s) <= SumFunctionOnSet(g, s)
    OBVIOUS
  <2>2. IsFiniteSet(s) /\ s # {} /\ Numbers(f, s) /\ Numbers(g, s)
    BY <2>1, FS_Subset, FS_EmptySet DEF Numbers
  <2>3. PICK x \in s : TRUE
    BY <2>2
  <2> DEFINE r == s \ {x}
  <2>4. r \in SUBSET S /\ Cardinality(r) = m
    BY <2>1, <2>2, OneLess
  <2>5. SumFunctionOnSet(f, r) <= SumFunctionOnSet(g, r)
    BY <1>2, <2>4
  <2>6. /\ SumFunctionOnSet(f, s) = f[x] + SumFunctionOnSet(f, r)
        /\ f[x] \in Nat /\ SumFunctionOnSet(f, r) \in Nat
    BY <2>2, SumTake
  <2>7. /\ SumFunctionOnSet(g, s) = g[x] + SumFunctionOnSet(g, r)
        /\ g[x] \in Nat /\ SumFunctionOnSet(g, r) \in Nat
    BY <2>2, SumTake
  <2>8. f[x] <= g[x]
    OBVIOUS
  <2> HIDE DEF r
  <2>9. QED
    BY <2>5, <2>6, <2>7, <2>8
<1>3. N = Nat
  <2>1. N \in SUBSET Nat
    OBVIOUS
  <2> HIDE DEF N
  <2>2. QED
    BY <1>1, <1>2, <2>1, Induct
<1>4. Cardinality(S) \in N
  BY <1>3, FS_CardinalityType
<1>5. QED
  BY <1>4, Zenon

\* Functions with the same values have the same sum.
LEMMA SumsSame ==
  ASSUME NEW f, NEW g, NEW S, IsFiniteSet(S), Numbers(f, S), \A x \in S : f[x] = g[x]
  PROVE  SumFunctionOnSet(f, S) = SumFunctionOnSet(g, S)
<1>1. Numbers(g, S) /\ (\A x \in S : f[x] <= g[x]) /\ (\A x \in S : g[x] <= f[x])
  BY DEF Numbers
<1>2. SumFunctionOnSet(f, S) <= SumFunctionOnSet(g, S)
  BY <1>1, SumsCompare
<1>3. SumFunctionOnSet(g, S) <= SumFunctionOnSet(f, S)
  BY <1>1, SumsCompare
<1>4. SumFunctionOnSet(f, S) \in Nat /\ SumFunctionOnSet(g, S) \in Nat
  BY <1>1, SumType
<1>5. QED
  BY <1>2, <1>3, <1>4

\* The sum over two sets without a common element.
LEMMA SumUnion ==
  ASSUME NEW f, NEW S, NEW T, IsFiniteSet(S), IsFiniteSet(T), S \cap T = {},
         Numbers(f, S \cup T)
  PROVE  SumFunctionOnSet(f, S \cup T) = SumFunctionOnSet(f, S) + SumFunctionOnSet(f, T)
<1> DEFINE N == {m \in Nat : \A s \in SUBSET S : Cardinality(s) = m
                   => SumFunctionOnSet(f, s \cup T)
                        = SumFunctionOnSet(f, s) + SumFunctionOnSet(f, T)}
<1>0. SumFunctionOnSet(f, T) \in Nat
  BY SumType DEF Numbers
<1>1. 0 \in N
  <2>1. \A s \in SUBSET S : Cardinality(s) = 0 => s = {}
    BY FS_Subset, FS_EmptySet
  <2>2. {} \cup T = T /\ SumFunctionOnSet(f, {}) = 0
    BY SumEmpty
  <2>3. 0 + SumFunctionOnSet(f, T) = SumFunctionOnSet(f, T)
    BY <1>0
  <2>4. ASSUME NEW s \in SUBSET S, Cardinality(s) = 0
        PROVE  SumFunctionOnSet(f, s \cup T) = SumFunctionOnSet(f, s) + SumFunctionOnSet(f, T)
    BY <2>1, <2>2, <2>3, <2>4
  <2>5. QED
    BY <2>4
<1>2. ASSUME NEW m \in Nat, m \in N
      PROVE  m + 1 \in N
  <2>1. SUFFICES ASSUME NEW s \in SUBSET S, Cardinality(s) = m + 1
                 PROVE  SumFunctionOnSet(f, s \cup T)
                          = SumFunctionOnSet(f, s) + SumFunctionOnSet(f, T)
    OBVIOUS
  <2>2. IsFiniteSet(s) /\ s # {} /\ Numbers(f, s)
    BY <2>1, FS_Subset, FS_EmptySet DEF Numbers
  <2>3. PICK x \in s : TRUE
    BY <2>2
  <2> DEFINE r == s \ {x}
  <2>4. r \in SUBSET S /\ Cardinality(r) = m
    BY <2>1, <2>2, OneLess
  <2>5. SumFunctionOnSet(f, r \cup T) = SumFunctionOnSet(f, r) + SumFunctionOnSet(f, T)
    BY <1>2, <2>4
  <2>6. /\ SumFunctionOnSet(f, s) = f[x] + SumFunctionOnSet(f, r)
        /\ f[x] \in Nat /\ SumFunctionOnSet(f, r) \in Nat
    BY <2>2, SumTake
  <2>7. IsFiniteSet(s \cup T) /\ Numbers(f, s \cup T) /\ x \in s \cup T
    BY <2>2, FS_Union DEF Numbers
  <2>8. (s \cup T) \ {x} = r \cup T
    OBVIOUS
  <2>9. SumFunctionOnSet(f, s \cup T) = f[x] + SumFunctionOnSet(f, r \cup T)
    BY <2>7, <2>8, SumTake
  <2> HIDE DEF r
  <2>10. QED
    BY <1>0, <2>5, <2>6, <2>9
<1>3. N = Nat
  <2>1. N \in SUBSET Nat
    OBVIOUS
  <2> HIDE DEF N
  <2>2. QED
    BY <1>1, <1>2, <2>1, Induct
<1>4. Cardinality(S) \in N
  BY <1>3, FS_CardinalityType
<1>5. QED
  BY <1>4, Zenon

\* The sum of equal numbers.
LEMMA SumEqual ==
  ASSUME NEW f, NEW S, IsFiniteSet(S), NEW k \in Nat, \A x \in S : f[x] = k
  PROVE  SumFunctionOnSet(f, S) = Cardinality(S) * k
<1> DEFINE N == {m \in Nat : \A s \in SUBSET S : Cardinality(s) = m
                               => SumFunctionOnSet(f, s) = m * k}
<1>1. 0 \in N
  <2>1. \A s \in SUBSET S : Cardinality(s) = 0 => s = {}
    BY FS_Subset, FS_EmptySet
  <2>2. QED
    BY <2>1, SumEmpty
<1>2. ASSUME NEW m \in Nat, m \in N
      PROVE  m + 1 \in N
  <2>1. SUFFICES ASSUME NEW s \in SUBSET S, Cardinality(s) = m + 1
                 PROVE  SumFunctionOnSet(f, s) = (m + 1) * k
    OBVIOUS
  <2>2. IsFiniteSet(s) /\ s # {} /\ Numbers(f, s)
    BY <2>1, FS_Subset, FS_EmptySet DEF Numbers
  <2>3. PICK x \in s : TRUE
    BY <2>2
  <2> DEFINE r == s \ {x}
  <2>4. r \in SUBSET S /\ Cardinality(r) = m
    BY <2>1, <2>2, OneLess
  <2>5. SumFunctionOnSet(f, r) = m * k
    BY <1>2, <2>4
  <2>6. /\ SumFunctionOnSet(f, s) = f[x] + SumFunctionOnSet(f, r)
        /\ f[x] \in Nat /\ SumFunctionOnSet(f, r) \in Nat
    BY <2>2, SumTake
  <2>7. f[x] = k /\ (m + 1) * k = k + m * k
    OBVIOUS
  <2> HIDE DEF r
  <2>8. QED
    BY <2>5, <2>6, <2>7
<1>3. N = Nat
  <2>1. N \in SUBSET Nat
    OBVIOUS
  <2> HIDE DEF N
  <2>2. QED
    BY <1>1, <1>2, <2>1, Induct
<1>4. Cardinality(S) \in N
  BY <1>3, FS_CardinalityType
<1>5. QED
  BY <1>4, Zenon

\* The sum of two functions.
LEMMA SumPlus ==
  ASSUME NEW f, NEW g, NEW h, NEW S, IsFiniteSet(S), Numbers(f, S), Numbers(g, S),
         \A x \in S : h[x] = f[x] + g[x]
  PROVE  SumFunctionOnSet(h, S) = SumFunctionOnSet(f, S) + SumFunctionOnSet(g, S)
<1> DEFINE N == {m \in Nat : \A s \in SUBSET S : Cardinality(s) = m
                   => SumFunctionOnSet(h, s) = SumFunctionOnSet(f, s) + SumFunctionOnSet(g, s)}
<1>0. Numbers(h, S)
  BY DEF Numbers
<1>1. 0 \in N
  <2>1. \A s \in SUBSET S : Cardinality(s) = 0 => s = {}
    BY FS_Subset, FS_EmptySet
  <2>2. SumFunctionOnSet(h, {}) = SumFunctionOnSet(f, {}) + SumFunctionOnSet(g, {})
    <3>1. SumFunctionOnSet(h, {}) = 0 /\ SumFunctionOnSet(f, {}) = 0 /\ SumFunctionOnSet(g, {}) = 0
      BY SumEmpty
    <3>2. QED
      BY <3>1
  <2>3. QED
    BY <2>1, <2>2
<1>2. ASSUME NEW m \in Nat, m \in N
      PROVE  m + 1 \in N
  <2>1. SUFFICES ASSUME NEW s \in SUBSET S, Cardinality(s) = m + 1
                 PROVE  SumFunctionOnSet(h, s) = SumFunctionOnSet(f, s) + SumFunctionOnSet(g, s)
    OBVIOUS
  <2>2. IsFiniteSet(s) /\ s # {} /\ Numbers(f, s) /\ Numbers(g, s) /\ Numbers(h, s)
    BY <1>0, <2>1, FS_Subset, FS_EmptySet DEF Numbers
  <2>3. PICK x \in s : TRUE
    BY <2>2
  <2>4. PICK r : r = s \ {x}
    OBVIOUS
  <2>5. r \in SUBSET S /\ Cardinality(r) = m
    BY <2>1, <2>2, <2>4, OneLess
  <2>6. SumFunctionOnSet(h, r) = SumFunctionOnSet(f, r) + SumFunctionOnSet(g, r)
    BY <1>2, <2>5
  <2>7. PICK a \in Nat, i \in Nat : /\ a = SumFunctionOnSet(f, r) /\ i = f[x]
                                    /\ SumFunctionOnSet(f, s) = i + a
    BY <2>2, <2>4, SumTake
  <2>8. PICK b \in Nat, j \in Nat : /\ b = SumFunctionOnSet(g, r) /\ j = g[x]
                                    /\ SumFunctionOnSet(g, s) = j + b
    BY <2>2, <2>4, SumTake
  <2>9. SumFunctionOnSet(h, s) = h[x] + SumFunctionOnSet(h, r)
    BY <2>2, <2>4, SumTake
  <2>10. h[x] = i + j
    BY <2>7, <2>8
  <2>11. SumFunctionOnSet(h, s) = (i + j) + (a + b)
    BY <2>6, <2>7, <2>8, <2>9, <2>10
  <2>12. QED
    BY <2>7, <2>8, <2>11
<1>3. N = Nat
  <2>1. N \in SUBSET Nat
    OBVIOUS
  <2> HIDE DEF N
  <2>2. QED
    BY <1>1, <1>2, <2>1, Induct
<1>4. Cardinality(S) \in N
  BY <1>3, FS_CardinalityType
<1>5. QED
  BY <1>4, Zenon

\* The sum over the numbers from a to b of 1 for the first k of them.
LEMMA FirstOnes ==
  ASSUME NEW a \in Nat, NEW b \in Nat, NEW k \in Nat, k <= b - a + 1, NEW f,
         \A x \in a .. b : f[x] = IF x - a < k THEN 1 ELSE 0
  PROVE  SumFunctionOnSet(f, a .. b) = k
<1>1. PICK A : A = a .. (a + k - 1)
  OBVIOUS
<1>2. PICK B : B = (a + k) .. b
  OBVIOUS
<1>3. A \cup B = a .. b /\ A \cap B = {}
  BY <1>1, <1>2
<1>4. IsFiniteSet(A) /\ Cardinality(A) = k
  <2>1. a + k - 1 \in Int
    OBVIOUS
  <2>2. IsFiniteSet(A) /\ Cardinality(A) = IF a > a + k - 1 THEN 0 ELSE (a + k - 1) - a + 1
    BY <1>1, <2>1, FS_Interval
  <2>3. QED
    BY <2>2
<1>5. PICK n \in Nat : IsFiniteSet(B) /\ Cardinality(B) = n
  <2>1. a + k \in Int
    OBVIOUS
  <2>2. IsFiniteSet(B)
    BY <1>2, <2>1, FS_Interval
  <2>3. QED
    BY <2>2, FS_CardinalityType
<1>6. \A x \in A : f[x] = 1
  BY <1>1
<1>7. \A x \in B : f[x] = 0
  BY <1>2
<1>8. Numbers(f, A \cup B)
  BY <1>6, <1>7 DEF Numbers
<1>9. SumFunctionOnSet(f, A) = k * 1
  BY <1>4, <1>6, SumEqual
<1>10. SumFunctionOnSet(f, B) = n * 0
  BY <1>5, <1>7, SumEqual
<1>11. SumFunctionOnSet(f, A \cup B) = SumFunctionOnSet(f, A) + SumFunctionOnSet(f, B)
  BY <1>3, <1>4, <1>5, <1>8, SumUnion
<1>12. k * 1 + n * 0 = k
  OBVIOUS
<1>13. QED
  BY <1>3, <1>9, <1>10, <1>11, <1>12
-----------------------------------------------------------------------------
(* The greatest number of a set.                                           *)

\* A finite set of numbers has a greatest one, which Max chooses.
LEMMA MaxIs ==
  ASSUME NEW S \in SUBSET Nat, IsFiniteSet(S), S # {}
  PROVE  Max(S) \in S /\ \A y \in S : y <= Max(S)
<1> DEFINE Topped(s) == \E x \in s : \A y \in s : y <= x
           N == {m \in Nat : \A s \in SUBSET S : Cardinality(s) = m /\ s # {} => Topped(s)}
<1>1. 0 \in N
  BY FS_Subset, FS_EmptySet
<1>2. ASSUME NEW m \in Nat, m \in N
      PROVE  m + 1 \in N
  <2>1. SUFFICES ASSUME NEW s \in SUBSET S, Cardinality(s) = m + 1, s # {}
                 PROVE  Topped(s)
    OBVIOUS
  <2>2. IsFiniteSet(s)
    BY FS_Subset
  <2>3. PICK z : z \in s
    BY <2>1
  <2>4. s \ {z} \in SUBSET S /\ Cardinality(s \ {z}) = m
    BY <2>1, <2>2, <2>3, OneLess
  <2>5. CASE s \ {z} = {}
    <3>1. \A y \in s : y <= z
      BY <2>3, <2>5
    <3>2. QED
      BY <2>3, <3>1
  <2>6. CASE s \ {z} # {}
    <3>1. PICK x \in s \ {z} : \A y \in s \ {z} : y <= x
      BY <1>2, <2>4, <2>6
    <3>2. x \in Nat /\ z \in Nat /\ \A y \in s : y \in Nat /\ (y = z \/ y \in s \ {z})
      BY <2>3
    <3>3. CASE z <= x
      BY <3>1, <3>2, <3>3
    <3>4. CASE ~ (z <= x)
      <4>1. \A y \in s : y <= z
        BY <3>1, <3>2, <3>4
      <4>2. QED
        BY <2>3, <4>1
    <3>5. QED
      BY <3>3, <3>4
  <2>7. QED
    BY <2>5, <2>6
<1>3. N = Nat
  <2>1. N \in SUBSET Nat
    OBVIOUS
  <2> HIDE DEF N
  <2>2. QED
    BY <1>1, <1>2, <2>1, Induct
<1>4. Topped(S)
  BY <1>3, FS_CardinalityType
<1>5. PICK x \in S : \A y \in S : x >= y
  BY <1>4
<1>6. Max(S) \in S /\ \A y \in S : Max(S) >= y
  BY <1>5 DEF Max
<1>7. QED
  BY <1>6

\* What a function takes the numbers up to n to is a finite set.
LEMMA ValuesFinite ==
  ASSUME NEW D, IsFiniteSet(D), NEW f
  PROVE  IsFiniteSet({f[x] : x \in D})
<1>1. PICK T : T = {f[x] : x \in D}
  OBVIOUS
<1>2. PICK g : g = [x \in D |-> f[x]]
  OBVIOUS
<1>3. g \in Surjection(D, T)
  BY <1>1, <1>2 DEF Surjection
<1>4. QED
  BY <1>1, <1>3, FS_Surjection

\* The greatest value of a function on a finite set, or 0.
LEMMA GreatestIs ==
  ASSUME NEW D, IsFiniteSet(D), NEW f, \A x \in D : f[x] \in Nat
  PROVE  /\ Max({0} \cup {f[y] : y \in D}) \in Nat
         /\ \A x \in D : f[x] <= Max({0} \cup {f[y] : y \in D})
         /\ Max({0} \cup {f[y] : y \in D}) = 0 \/
              \E x \in D : Max({0} \cup {f[y] : y \in D}) = f[x]
<1>1. PICK T : T = {f[x] : x \in D}
  OBVIOUS
<1>2. IsFiniteSet(T)
  BY <1>1, ValuesFinite
<1>3. IsFiniteSet({0} \cup T)
  BY <1>2, FS_Singleton, FS_Union
<1>4. {0} \cup T \in SUBSET Nat /\ {0} \cup T # {}
  BY <1>1
<1>5. PICK m \in {0} \cup T : m = Max({0} \cup T) /\ \A y \in {0} \cup T : y <= m
  BY <1>3, <1>4, MaxIs
<1>6. m \in Nat /\ (m = 0 \/ \E x \in D : m = f[x]) /\ \A x \in D : f[x] <= m
  BY <1>1, <1>4, <1>5
<1>7. QED
  BY <1>1, <1>5, <1>6

\* The greater of two numbers.
LEMMA GreaterIs ==
  ASSUME NEW a \in Int, NEW b \in Int
  PROVE  Max({a, b}) = IF a >= b THEN a ELSE b
<1>1. PICK m \in {a, b} : m = IF a >= b THEN a ELSE b
  OBVIOUS
<1>2. \A y \in {a, b} : m >= y
  BY <1>1
<1>3. \A x \in {a, b} : (\A y \in {a, b} : x >= y) => x = m
  BY <1>1
<1>4. Max({a, b}) \in {a, b} /\ \A y \in {a, b} : Max({a, b}) >= y
  BY <1>2 DEF Max
<1>5. QED
  BY <1>1, <1>3, <1>4

-----------------------------------------------------------------------------
(* The properties, cells, heights and widths of a table have their types.  *)

\* A table that can be printed: its margins, border style and properties are
\* numbers where numbers are needed.
Printable(t) ==
  /\ TypedMargins(t.tprops) /\ TypedStyle(t.border_style) /\ TypedValues(t.defaults.val)
  /\ IsRoomy(t.cell_properties)
  /\ \A i \in 1 .. Len(t.cell_properties.items) : TypedValues(t.cell_properties.items[i].val)

\* Such a table of cells without Junk.
Ready(t) == t \in Shape(t, Cells, t.cur_row) /\ Printable(t)

\* What a property has is the value of an entry or the default.
LEMMA ValueOf ==
  ASSUME NEW t, Printable(t), NEW r, NEW c, NEW p
  PROVE  \E val : TypedValues(val) /\ Prop(t, r, c, p) = val[p]
<1>1. PICK cont : cont = t.cell_properties
  OBVIOUS
<1>2. PICK n \in Nat : n = Len(cont.items)
  BY <1>1, RoomyParts DEF Printable, IsRoomy
<1>3. DOMAIN cont.items = 1 .. n
  <2>1. PICK E : cont \in Roomy(E)
    BY <1>1 DEF Printable, IsRoomy
  <2>2. cont.items \in Seq(E)
    BY <2>1, RoomyParts
  <2>3. QED
    BY <1>2, <2>2
<1>4. PICK path : path = SearchPath(r, c)
  OBVIOUS
<1>5. PICK hits : hits = {k \in DOMAIN path : Sets(cont, path[k], p)}
  OBVIOUS
<1>6. hits \subseteq Nat
  BY <1>4, <1>5 DEF SearchPath
<1>7. CASE hits = {}
  <2>1. Prop(t, r, c, p) = t.defaults.val[p]
    BY <1>1, <1>4, <1>5, <1>7 DEF Prop, get_cell_property_hierarchically
  <2>2. QED
    BY <2>1 DEF Printable
<1>8. CASE hits # {}
  <2>1. PICK k \in hits : \A j \in hits : k <= j
    <3>1. hits \in SUBSET Nat
      BY <1>6
    <3>2. QED
      BY <1>8, <3>1, Least
  <2>2. Min(hits) = k
    <3>1. hits \subseteq Int
      BY <1>6
    <3>2. QED
      BY <2>1, <3>1, LeastIs
  <2>3. PICK es : es = EntriesFor(cont, path[k][1], path[k][2])
    OBVIOUS
  <2>4. es # {} /\ es \subseteq 1 .. n
    BY <1>3, <1>5, <2>3 DEF Sets, EntriesFor
  <2>5. PICK i \in es : \A j \in es : i <= j
    <3>1. es \in SUBSET Nat
      BY <2>4
    <3>2. QED
      BY <2>4, <3>1, Least
  <2>6. Min(es) = i
    <3>1. es \subseteq Int
      BY <2>4
    <3>2. QED
      BY <2>5, <3>1, LeastIs
  <2>7. Prop(t, r, c, p) = cont.items[i].val[p]
    BY <1>1, <1>4, <1>5, <1>8, <2>2, <2>3, <2>6
       DEF Prop, get_cell_property_hierarchically, EntryValue
  <2>8. TypedValues(cont.items[i].val)
    BY <1>1, <1>2, <2>4 DEF Printable
  <2>9. QED
    BY <2>7, <2>8
<1>9. QED
  BY <1>7, <1>8

\* Measures are numbers.
LEMMA MeasureIn ==
  ASSUME NEW t, Printable(t), NEW r, NEW c, NEW p \in Measures
  PROVE  Prop(t, r, c, p) \in Nat
  BY ValueOf DEF TypedValues

\* Text styles are finite sets of flags.
LEMMA StyleFinite ==
  ASSUME NEW t, Printable(t), NEW r, NEW c, NEW p \in TextStyles
  PROVE  IsFiniteSet(Prop(t, r, c, p))
  BY ValueOf DEF TypedValues

\* The tags of a style take a number of bytes.
LEMMA StyleTagIn ==
  ASSUME NEW flags, IsFiniteSet(flags)
  PROVE  StyleTag(flags) \in Nat
<1>1. PICK n \in Nat : n = Cardinality(flags \ {"DEFAULT"})
  BY FS_RemoveElement, FS_CardinalityType
<1>2. QED
  BY <1>1 DEF StyleTag

\* The tags of a cell take a number of bytes.
LEMMA TagsIn ==
  ASSUME NEW t, Printable(t), NEW r, NEW c
  PROVE  cell_invis_codes_width(t, r, c) \in Nat
<1>1. PICK P : P = [p \in StyleProps |-> Prop(t, r, c, p)]
  OBVIOUS
<1>2. P["CELL_TEXT_STYLE"] = Prop(t, r, c, "CELL_TEXT_STYLE")
      /\ P["CONT_TEXT_STYLE"] = Prop(t, r, c, "CONT_TEXT_STYLE")
  BY <1>1 DEF StyleProps
<1>3. IsFiniteSet(P["CELL_TEXT_STYLE"]) /\ IsFiniteSet(P["CONT_TEXT_STYLE"])
  BY <1>2, StyleFinite DEF TextStyles
<1>4. PICK a \in Nat : a = StyleTag(P["CELL_TEXT_STYLE"])
  BY <1>3, StyleTagIn
<1>5. PICK b \in Nat : b = StyleTag(P["CONT_TEXT_STYLE"])
  BY <1>3, StyleTagIn
<1>6. \A x : BgTag(x) \in Nat /\ FgTag(x) \in Nat
  BY DEF BgTag, FgTag
<1>7. PICK u \in Nat : u = get_style_tag_for_cell(P)
  <2>1. PICK d \in Nat : d = BgTag(P["CELL_BG_COLOR"])
    BY <1>6
  <2>2. QED
    BY <1>4, <2>1 DEF get_style_tag_for_cell
<1>8. PICK v \in Nat : v = get_style_tag_for_content(P)
  <2>1. PICK d \in Nat : d = BgTag(P["CONT_BG_COLOR"])
    BY <1>6
  <2>2. PICK e \in Nat : e = FgTag(P["CONT_FG_COLOR"])
    BY <1>6
  <2>3. QED
    BY <1>5, <2>1, <2>2 DEF get_style_tag_for_content
<1>9. get_reset_style_tag_for_cell(P) \in Nat /\ get_reset_style_tag_for_content(P) \in Nat
  BY <1>7, <1>8 DEF get_reset_style_tag_for_cell, get_reset_style_tag_for_content, ResetTag
<1>10. TagBytes(P) \in Nat
  BY <1>7, <1>8, <1>9 DEF TagBytes
<1>11. QED
  BY <1>1, <1>10 DEF cell_invis_codes_width

\* The cells of a table are cells.
LEMMA CellOf ==
  ASSUME NEW t, Ready(t), NEW r \in Nat, r < Rows(t), NEW c \in Nat, HasCell(t, r, c)
  PROVE  CellAt(t, r, c) \in Cells
<1>1. PICK row \in Roomy(Cells) : row = RowAt(t, r)
  BY RowsAre DEF Ready
<1>2. PICK n \in Nat : n = Len(row.items)
  BY RoomyParts
<1>3. c + 1 \in 1 .. n
  BY <1>1, <1>2 DEF HasCell, columns_in_row, vector_size
<1>4. QED
  BY <1>1, <1>2, <1>3, RoomyParts DEF CellAt, vector_at

\* The width of a text is a number.
LEMMA TextWidthIn ==
  ASSUME NEW text \in Words
  PROVE  buffer_text_visible_width(text) \in Nat
<1>1. PICK n \in Nat : n = Len(text) /\ n > 0
  BY DEF Words
<1>2. \A i \in 1 .. n : text[i] \in Nat
  BY <1>1 DEF Words
<1>3. PICK T : T = {text[i] : i \in 1 .. n}
  OBVIOUS
<1>4. IsFiniteSet(T)
  <2>1. IsFiniteSet(1 .. n)
    BY FS_Interval
  <2>2. QED
    BY <1>3, <2>1, ValuesFinite
<1>5. T \in SUBSET Nat /\ T # {}
  <2>1. 1 \in 1 .. n
    BY <1>1
  <2>2. QED
    BY <1>2, <1>3, <2>1
<1>6. QED
  BY <1>1, <1>3, <1>4, <1>5, MaxIs DEF buffer_text_visible_width

\* The width of a cell is a number.
LEMMA CellWidthIn ==
  ASSUME NEW t, Ready(t), NEW r \in Nat, r < Rows(t), NEW c \in Nat, HasCell(t, r, c)
  PROVE  cell_vis_width(t, r, c) \in Nat
<1>1. CellAt(t, r, c).text \in Words
  BY CellOf DEF Cells
<1>2. PICK w \in Nat : w = buffer_text_visible_width(CellAt(t, r, c).text)
  BY <1>1, TextWidthIn
<1>3. PICK a \in Nat : a = Prop(t, r, c, "LEFT_PADDING")
  BY MeasureIn DEF Ready, Measures
<1>4. PICK b \in Nat : b = Prop(t, r, c, "RIGHT_PADDING")
  BY MeasureIn DEF Ready, Measures
<1>5. PICK d \in Nat : d = Prop(t, r, c, "MIN_WIDTH")
  BY MeasureIn DEF Ready, Measures
<1>6. PICK e \in Nat : e = a + b + w
  OBVIOUS
<1>7. Max({e, d}) \in Nat
  BY GreaterIs
<1>8. QED
  BY <1>2, <1>3, <1>4, <1>5, <1>6, <1>7 DEF cell_vis_width

\* So is its height, and that of a column without a cell.
LEMMA CellHeightIn ==
  ASSUME NEW t, Ready(t), NEW r \in Nat, r < Rows(t), NEW c \in Nat
  PROVE  /\ HasCell(t, r, c) => hint_height_cell(t, r, c) \in Nat
         /\ NoCellHeight(t, r, c) \in Nat
<1>1. PICK a \in Nat : a = Prop(t, r, c, "TOP_PADDING")
  BY MeasureIn DEF Ready, Measures
<1>2. PICK b \in Nat : b = Prop(t, r, c, "BOTTOM_PADDING")
  BY MeasureIn DEF Ready, Measures
<1>3. PICK d \in Nat : d = Prop(t, r, c, "EMPTY_STR_HEIGHT")
  BY MeasureIn DEF Ready, Measures
<1>4. ASSUME HasCell(t, r, c)
      PROVE  hint_height_cell(t, r, c) \in Nat
  <2>1. CellAt(t, r, c).text \in Words
    BY <1>4, CellOf DEF Cells
  <2>2. PICK h \in Nat : h = buffer_text_visible_height(CellAt(t, r, c).text)
    <3>1. PICK text \in Words : text = CellAt(t, r, c).text
      BY <2>1
    <3>2. Len(text) \in Nat
      BY DEF Words
    <3>3. QED
      BY <3>1, <3>2 DEF buffer_text_visible_height
  <2>3. QED
    BY <1>1, <1>2, <1>3, <2>2 DEF hint_height_cell
<1>5. NoCellHeight(t, r, c) \in Nat
  BY <1>1, <1>2, <1>3 DEF NoCellHeight
<1>6. QED
  BY <1>4, <1>5

\* The number of columns is a number.
LEMMA ColsIn ==
  ASSUME NEW t, Ready(t)
  PROVE  Cols(t) \in Nat /\ Rows(t) \in Nat
<1>1. t \in Shape(t, Cells, t.cur_row)
  BY DEF Ready
<1>2. PICK n \in Nat : n = Rows(t)
  BY <1>1, RowsAre
<1>3. t.rows \in Roomy(Roomy(Cells)) /\ n = Len(t.rows.items)
  BY <1>1, <1>2, RowsAre
<1>4. t.rows.items \in Seq(Roomy(Cells)) /\ DOMAIN t.rows.items = 1 .. n
  BY <1>3, RoomyParts
<1>5. PICK f : f = [i \in 1 .. n |-> columns_in_row(t.rows.items[i])]
  OBVIOUS
<1>6. \A i \in 1 .. n : f[i] = columns_in_row(t.rows.items[i]) /\ f[i] \in Nat
  <2>1. \A i \in 1 .. n : t.rows.items[i] \in Roomy(Cells)
    BY <1>4
  <2>2. QED
    BY <1>5, <2>1, RoomyParts DEF columns_in_row, vector_size
<1>7. Max({0} \cup {f[i] : i \in 1 .. n}) \in Nat
  <2>1. IsFiniteSet(1 .. n)
    BY FS_Interval
  <2>2. QED
    BY SMTT(30), <1>6, <2>1, GreatestIs
<1>8. {f[i] : i \in 1 .. n} = {columns_in_row(t.rows.items[i]) : i \in DOMAIN t.rows.items}
  BY <1>4, <1>6
<1>9. QED
  BY <1>2, <1>7, <1>8 DEF Cols

\* The rows with a cell in column c, and those where it is a common one.
RowsWith(t, c) == {r \in 0 .. (Rows(t) - 1) : HasCell(t, r, c)}
CommonRows(t, c) == {q \in RowsWith(t, c) : CellType(t, q, c) = "COMMON"}

\* The height of a row is a number.
LEMMA RowHeightIn ==
  ASSUME NEW t, Ready(t), NEW r \in Nat, r < Rows(t)
  PROVE  RowHeight(t, r) \in Nat
<1>1. PICK n \in Nat : n = Cols(t)
  BY ColsIn
<1>2. PICK D : D = 0 .. (n - 1)
  OBVIOUS
<1>3. PICK f : f = [c \in D |-> IF HasCell(t, r, c) THEN hint_height_cell(t, r, c)
                                ELSE NoCellHeight(t, r, c)]
  OBVIOUS
<1>4. \A c \in D : f[c] \in Nat
  BY <1>2, <1>3, CellHeightIn
<1>5. IsFiniteSet(D)
  BY <1>2, FS_Interval
<1>6. Max({0} \cup {f[c] : c \in D}) \in Nat
  BY <1>4, <1>5, GreatestIs
<1>7. {f[c] : c \in D} = {IF HasCell(t, r, c) THEN hint_height_cell(t, r, c)
                          ELSE NoCellHeight(t, r, c) : c \in D}
  BY <1>3
<1>8. QED
  BY <1>1, <1>2, <1>6, <1>7, Zenon DEF RowHeight

\* The rows with a cell in a column are finitely many.
LEMMA RowsWithFinite ==
  ASSUME NEW t, Ready(t), NEW c
  PROVE  /\ IsFiniteSet(RowsWith(t, c)) /\ IsFiniteSet(CommonRows(t, c))
         /\ \A r \in RowsWith(t, c) : r \in Nat /\ r < Rows(t) /\ HasCell(t, r, c)
         /\ \A r \in CommonRows(t, c) : r \in RowsWith(t, c)
<1>1. PICK n \in Nat : n = Rows(t)
  BY ColsIn
<1>2. IsFiniteSet(0 .. (n - 1))
  BY FS_Interval
<1>3. RowsWith(t, c) \in SUBSET (0 .. (n - 1)) /\ CommonRows(t, c) \in SUBSET (0 .. (n - 1))
  BY <1>1 DEF RowsWith, CommonRows
<1>4. IsFiniteSet(RowsWith(t, c)) /\ IsFiniteSet(CommonRows(t, c))
  BY <1>2, <1>3, FS_Subset
<1>5. \A r \in RowsWith(t, c) : r \in Nat /\ r < Rows(t) /\ HasCell(t, r, c)
  BY <1>1 DEF RowsWith
<1>6. QED
  BY <1>4, <1>5 DEF CommonRows

\* A column before anything spans it: as wide as its widest common cell, and
\* in the estimate wider by the most tags of any of its cells.
LEMMA CommonWidthIs ==
  ASSUME NEW t, Ready(t), NEW c \in Nat
  PROVE  /\ CommonWidth(t, c, "VISIBLE") \in Nat /\ CommonWidth(t, c, "INTERN") \in Nat
         /\ CommonWidth(t, c, "VISIBLE") <= CommonWidth(t, c, "INTERN")
         /\ \A r \in CommonRows(t, c) : cell_vis_width(t, r, c) <= CommonWidth(t, c, "VISIBLE")
         /\ \A r \in RowsWith(t, c) :
              CommonWidth(t, c, "VISIBLE") + cell_invis_codes_width(t, r, c)
                <= CommonWidth(t, c, "INTERN")
<1>1. PICK D : D = RowsWith(t, c)
  OBVIOUS
<1>2. PICK C : C = CommonRows(t, c)
  OBVIOUS
<1>3. /\ IsFiniteSet(D) /\ IsFiniteSet(C)
      /\ \A r \in D : r \in Nat /\ r < Rows(t) /\ HasCell(t, r, c)
      /\ \A r \in C : r \in D
  BY <1>1, <1>2, RowsWithFinite
<1>4. PICK f : f = [r \in C |-> cell_vis_width(t, r, c)]
  OBVIOUS
<1>5. PICK g : g = [r \in D |-> cell_invis_codes_width(t, r, c)]
  OBVIOUS
<1>6. PICK z : z = [r \in D |-> 0]
  OBVIOUS
<1>7. \A r \in C : f[r] \in Nat
  BY <1>3, <1>4, CellWidthIn
<1>8. \A r \in D : g[r] \in Nat /\ z[r] \in Nat /\ z[r] = 0
  BY <1>5, <1>6, TagsIn DEF Ready
<1>9. PICK a \in Nat : a = Max({0} \cup {f[r] : r \in C}) /\ \A r \in C : f[r] <= a
  BY <1>3, <1>7, GreatestIs
<1>10. PICK b \in Nat : b = Max({0} \cup {g[r] : r \in D}) /\ \A r \in D : g[r] <= b
  BY <1>3, <1>8, GreatestIs
<1>11. Max({0} \cup {z[r] : r \in D}) = 0
  BY <1>3, <1>8, GreatestIs
<1>12. /\ {f[r] : r \in C} = {cell_vis_width(t, r, c) : r \in C}
       /\ {g[r] : r \in D} = {Invisible(t, r, c, "INTERN") : r \in D}
       /\ {z[r] : r \in D} = {Invisible(t, r, c, "VISIBLE") : r \in D}
  BY <1>4, <1>5, <1>6 DEF Invisible
<1>13. \A geom : CommonWidth(t, c, geom) =
                   Max({0} \cup {cell_vis_width(t, r, c) : r \in C})
                     + Max({0} \cup {Invisible(t, r, c, geom) : r \in D})
  BY <1>1, <1>2, Zenon DEF CommonWidth, RowsWith, CommonRows
<1>14. CommonWidth(t, c, "VISIBLE") = a + 0
  BY <1>9, <1>11, <1>12, <1>13
<1>15. CommonWidth(t, c, "INTERN") = a + b
  BY <1>9, <1>10, <1>12, <1>13
<1>16. \A r \in C : cell_vis_width(t, r, c) <= a
  BY <1>4, <1>9
<1>17. \A r \in D : cell_invis_codes_width(t, r, c) <= b /\ cell_invis_codes_width(t, r, c) \in Nat
  BY <1>5, <1>8, <1>10
<1>18. a + 0 = a /\ a <= a + b
  OBVIOUS
<1>19. \A r \in D : a + cell_invis_codes_width(t, r, c) <= a + b
  BY <1>17
<1>20. QED
  BY <1>1, <1>2, <1>14, <1>15, <1>16, <1>18, <1>19
-----------------------------------------------------------------------------
(* Cells that cover several columns.                                       *)

\* How many columns a cell covers: its own, and those of the slaves that
\* follow it if it is a master.
LEMMA GroupIs ==
  ASSUME NEW row \in Roomy(Cells), NEW c \in Nat, c < columns_in_row(row)
  PROVE  /\ columns_in_row(row) \in Nat /\ group_cell_number(row, c) \in Nat
         /\ group_cell_number(row, c) >= 1 /\ c + group_cell_number(row, c) <= columns_in_row(row)
         /\ group_cell_number(row, c) > 1 => vector_at(row, c).type = "MASTER"
         /\ \A k \in Nat : k >= 1 /\ k < group_cell_number(row, c) =>
              vector_at(row, c + k).type = "SLAVE"
<1>1. PICK n \in Nat : n = columns_in_row(row)
  BY RoomyParts DEF columns_in_row, vector_size
<1>2. CASE vector_at(row, c).type # "MASTER"
  <2>1. group_cell_number(row, c) = 1
    BY <1>2 DEF group_cell_number
  <2>2. QED
    BY <1>1, <2>1
<1>3. CASE vector_at(row, c).type = "MASTER"
  <2>1. PICK T : T = {m \in 1 .. (n - c) : \A k \in 1 .. (m - 1) : vector_at(row, c + k).type = "SLAVE"}
    OBVIOUS
  <2>2. 1 \in T
    BY <1>1, <2>1
  <2>3. IsFiniteSet(T)
    <3>1. IsFiniteSet(1 .. (n - c))
      BY FS_Interval
    <3>2. T \in SUBSET (1 .. (n - c))
      BY <2>1
    <3>3. QED
      BY <3>1, <3>2, FS_Subset
  <2>4. T \in SUBSET Nat /\ T # {}
    BY <2>1, <2>2
  <2>5. PICK m \in T : m = Max(T)
    BY <2>3, <2>4, MaxIs
  <2>6. group_cell_number(row, c) = m
    BY <1>1, <1>3, <2>1, <2>5 DEF group_cell_number
  <2>7. m \in 1 .. (n - c) /\ \A k \in 1 .. (m - 1) : vector_at(row, c + k).type = "SLAVE"
    BY <2>1
  <2>8. QED
    BY <1>1, <1>3, <2>6, <2>7
<1>4. QED
  BY <1>2, <1>3

\* The width of columns that are numbers is a number.
LEMMA GroupWidthIn ==
  ASSUME NEW n \in Nat, NEW widths \in [0 .. (n - 1) -> Nat],
         NEW first \in Nat, NEW last \in Nat, first <= last, last < n
  PROVE  /\ GroupWidth(widths, first, last) \in Nat
         /\ IsFiniteSet(first .. last) /\ Numbers(widths, first .. last)
         /\ SumFunctionOnSet(widths, first .. last) \in Nat
<1>1. IsFiniteSet(first .. last)
  BY FS_Interval
<1>2. \A x \in first .. last : x \in 0 .. (n - 1)
  OBVIOUS
<1>3. Numbers(widths, first .. last)
  BY <1>2 DEF Numbers
<1>4. PICK s \in Nat : s = SumFunctionOnSet(widths, first .. last)
  BY <1>1, <1>3, SumType
<1>5. QED
  BY <1>1, <1>3, <1>4 DEF GroupWidth

\* Columns that grow for a span hold it afterwards, and no column shrinks.
LEMMA WidenedIs ==
  ASSUME NEW n \in Nat, NEW widths \in [0 .. (n - 1) -> Nat],
         NEW first \in Nat, NEW last \in Nat, first <= last, last < n, NEW hint \in Nat
  PROVE  /\ Widened(widths, first, last, hint) \in [0 .. (n - 1) -> Nat]
         /\ \A c \in 0 .. (n - 1) : widths[c] <= Widened(widths, first, last, hint)[c]
         /\ hint <= GroupWidth(Widened(widths, first, last, hint), first, last)
<1>1. PICK D : D = first .. last
  OBVIOUS
<1>2. IsFiniteSet(D) /\ Numbers(widths, D)
  BY <1>1, GroupWidthIn
<1>3. PICK s \in Nat : s = SumFunctionOnSet(widths, D)
  BY <1>2, SumType
<1>4. PICK g \in Nat : g = GroupWidth(widths, first, last) /\ g = s + (last - first)
  BY <1>1, <1>3 DEF GroupWidth
<1>5. PICK lack \in Nat : lack = Max({0, hint - g}) /\ hint - g <= lack
  <2>1. hint - g \in Int
    OBVIOUS
  <2>2. Max({0, hint - g}) \in Nat /\ Max({0, hint - g}) = IF hint - g > 0 THEN hint - g ELSE 0
    BY <2>1, Missing
  <2>3. QED
    BY <2>2
<1>6. PICK m \in Nat : m = last - first + 1 /\ m > 0
  OBVIOUS
<1>7. PICK q \in Nat : q = lack \div m
  BY <1>6
<1>8. PICK k \in Nat : k = lack % m /\ k < m
  BY <1>6
<1>9. m * q + k = lack
  BY <1>6, <1>7, <1>8
<1>10. PICK v : v = [c \in 0 .. (n - 1) |->
                       IF c \in D THEN widths[c] + q + (IF c - first < k THEN 1 ELSE 0) ELSE widths[c]]
  OBVIOUS
<1>11. Widened(widths, first, last, hint) = v
  <2>1. DOMAIN widths = 0 .. (n - 1)
    OBVIOUS
  <2>2. ASSUME NEW c \in 0 .. (n - 1)
        PROVE  (IF c \in first .. last
                THEN widths[c] + (lack \div m) + IF c - first < lack % m THEN 1 ELSE 0
                ELSE widths[c])
                 = IF c \in D THEN widths[c] + q + (IF c - first < k THEN 1 ELSE 0) ELSE widths[c]
    BY <1>1, <1>7, <1>8, Zenon
  <2>3. v = [c \in DOMAIN widths |->
               IF c \in first .. last
               THEN widths[c] + (lack \div m) + IF c - first < lack % m THEN 1 ELSE 0
               ELSE widths[c]]
    BY <1>10, <2>1, <2>2, Zenon
  <2>4. QED
    BY <1>4, <1>5, <1>6, <2>3, Zenon DEF Widened
<1>12. v \in [0 .. (n - 1) -> Nat] /\ \A c \in 0 .. (n - 1) : widths[c] <= v[c]
  <2>1. ASSUME NEW c \in 0 .. (n - 1)
        PROVE  v[c] \in Nat /\ widths[c] <= v[c]
    <3>1. PICK w \in Nat : w = widths[c]
      OBVIOUS
    <3>2. PICK d \in Nat : d = IF c - first < k THEN 1 ELSE 0
      OBVIOUS
    <3>3. v[c] = w + q + d \/ v[c] = w
      BY <1>10, <3>1, <3>2
    <3>4. QED
      BY <3>1, <3>3
  <2>2. QED
    BY <1>10, <2>1
<1>13. SumFunctionOnSet(v, D) = s + lack
  <2>1. PICK even : even = [c \in D |-> q]
    OBVIOUS
  <2>2. PICK ones : ones = [c \in D |-> IF c - first < k THEN 1 ELSE 0]
    OBVIOUS
  <2>3. PICK more : more = [c \in D |-> even[c] + ones[c]]
    OBVIOUS
  <2>4. Numbers(even, D) /\ Numbers(ones, D) /\ Numbers(more, D)
    BY <2>1, <2>2, <2>3 DEF Numbers
  <2>5. SumFunctionOnSet(even, D) = m * q
    <3>1. Cardinality(D) = m
      <4>1. Cardinality(D) = IF first > last THEN 0 ELSE last - first + 1
        BY <1>1, FS_Interval
      <4>2. QED
        BY <1>6, <4>1
    <3>2. \A c \in D : even[c] = q
      BY <2>1
    <3>3. QED
      BY <1>2, <3>1, <3>2, SumEqual
  <2>6. SumFunctionOnSet(ones, D) = k
    <3>1. k <= last - first + 1
      BY <1>6, <1>8
    <3>2. \A c \in first .. last : ones[c] = IF c - first < k THEN 1 ELSE 0
      BY <1>1, <2>2
    <3>3. QED
      BY <1>1, <3>1, <3>2, FirstOnes
  <2>7. SumFunctionOnSet(more, D) = m * q + k
    <3>1. \A c \in D : more[c] = even[c] + ones[c]
      BY <2>3
    <3>2. SumFunctionOnSet(more, D) = SumFunctionOnSet(even, D) + SumFunctionOnSet(ones, D)
      BY <1>2, <2>4, <3>1, SumPlus
    <3>3. QED
      BY <2>5, <2>6, <3>2, Zenon
  <2>8. \A c \in D : v[c] = widths[c] + more[c]
    <3>1. ASSUME NEW c \in D
          PROVE  v[c] = widths[c] + more[c]
      <4>1. c \in 0 .. (n - 1)
        BY <1>1
      <4>2. PICK w \in Nat : w = widths[c]
        BY <4>1
      <4>3. PICK d \in Nat : d = IF c - first < k THEN 1 ELSE 0
        OBVIOUS
      <4>4. v[c] = w + q + d /\ more[c] = q + d
        BY <1>10, <2>1, <2>2, <2>3, <4>1, <4>2, <4>3
      <4>5. QED
        BY <4>2, <4>4
    <3>2. QED
      BY <3>1
  <2>9. SumFunctionOnSet(v, D) = s + SumFunctionOnSet(more, D)
    <3>1. SumFunctionOnSet(v, D) = SumFunctionOnSet(widths, D) + SumFunctionOnSet(more, D)
      BY <1>2, <2>4, <2>8, SumPlus
    <3>2. QED
      BY <1>3, <3>1
  <2>10. QED
    BY <1>9, <2>7, <2>9
<1>14. GroupWidth(v, first, last) = (s + lack) + (last - first)
  BY <1>1, <1>13 DEF GroupWidth
<1>15. hint <= GroupWidth(v, first, last)
  BY <1>4, <1>5, <1>14
<1>16. QED
  BY <1>11, <1>12, <1>15

\* A quotient and a remainder.
LEMMA Divided ==
  ASSUME NEW n \in Nat, n > 0, NEW m \in Nat, NEW x \in Nat, x < m * n
  PROVE  /\ x \div n \in Nat /\ x \div n < m /\ x % n \in Nat /\ x % n < n
         /\ x = n * (x \div n) + (x % n)
<1>1. PICK q \in Int : q = x \div n
  OBVIOUS
<1>2. PICK r \in Int : r = x % n
  OBVIOUS
<1>3. x = n * q + r /\ 0 <= r /\ r < n
  BY <1>1, <1>2
<1>4. q >= 0
  <2>1. ASSUME q < 0
        PROVE  FALSE
    <3>1. n * q <= n * (-1)
      BY <2>1
    <3>2. QED
      BY <1>3, <3>1
  <2>2. QED
    BY <2>1
<1>5. q < m
  <2>1. ASSUME q >= m
        PROVE  FALSE
    <3>1. n * q >= n * m
      BY <2>1
    <3>2. QED
      BY <1>3, <3>1
  <2>2. QED
    BY <2>1
<1>6. q \in Nat /\ r \in Nat
  BY <1>3, <1>4
<1>7. n * (x \div n) + (x % n) = n * q + r
  BY <1>1, <1>2, Zenon
<1>8. x = n * (x \div n) + (x % n)
  BY <1>3, <1>7, Zenon
<1>9. x \div n \in Nat /\ x \div n < m
  BY <1>1, <1>5, <1>6, Zenon
<1>10. x % n \in Nat /\ x % n < n
  BY <1>2, <1>3, <1>6, Zenon
<1>11. QED
  BY <1>8, <1>9, <1>10, Zenon

\* Every pair of a quotient and a remainder is that of a number.
LEMMA Multiplied ==
  ASSUME NEW n \in Nat, NEW m \in Nat, NEW q \in Nat, q < m, NEW r \in Nat, r < n
  PROVE  /\ n * q + r \in Nat /\ n * q + r < m * n
         /\ (n * q + r) \div n = q /\ (n * q + r) % n = r
<1>1. PICK x \in Nat : x = n * q + r
  OBVIOUS
<1>2. n * q + n <= n * m
  <2>1. PICK d \in Nat : d = m - (q + 1)
    OBVIOUS
  <2>2. m = q + 1 + d
    BY <2>1
  <2>3. n * m = n * q + n + n * d
    BY <2>2
  <2>4. n * d \in Nat
    OBVIOUS
  <2>5. n * q \in Nat /\ n * m \in Nat
    OBVIOUS
  <2>6. QED
    BY <2>3, <2>4, <2>5
<1>3. x < m * n
  BY <1>1, <1>2
<1>4. PICK p \in Int : p = x \div n
  OBVIOUS
<1>5. PICK s \in Int : s = x % n
  OBVIOUS
<1>6. x = n * p + s /\ 0 <= s /\ s < n
  BY <1>4, <1>5
<1>7. p = q
  <2>1. ASSUME p > q
        PROVE  FALSE
    <3>1. n * p >= n * (q + 1)
      BY <2>1
    <3>2. QED
      BY <1>1, <1>6, <3>1
  <2>2. ASSUME p < q
        PROVE  FALSE
    <3>1. n * q >= n * (p + 1)
      BY <2>2
    <3>2. QED
      BY <1>1, <1>6, <3>1
  <2>3. QED
    BY <2>1, <2>2
<1>8. n * p \in Nat /\ n * p = n * q
  BY <1>7
<1>9. s = r
  BY <1>1, <1>6, <1>8
<1>10. QED
  BY <1>1, <1>3, <1>4, <1>5, <1>7, <1>9, Zenon

\* Wider columns are wider together.
LEMMA GroupGrows ==
  ASSUME NEW n \in Nat, NEW v \in [0 .. (n - 1) -> Nat], NEW w \in [0 .. (n - 1) -> Nat],
         \A c \in 0 .. (n - 1) : v[c] <= w[c],
         NEW first \in Nat, NEW last \in Nat, first <= last, last < n
  PROVE  GroupWidth(v, first, last) <= GroupWidth(w, first, last)
<1>1. PICK D : D = first .. last
  OBVIOUS
<1>2. IsFiniteSet(D) /\ Numbers(v, D) /\ Numbers(w, D)
  BY <1>1, GroupWidthIn
<1>3. PICK a \in Nat : a = SumFunctionOnSet(v, D)
  BY <1>2, SumType
<1>4. PICK b \in Nat : b = SumFunctionOnSet(w, D)
  BY <1>2, SumType
<1>5. \A c \in D : c \in 0 .. (n - 1)
  BY <1>1
<1>6. a <= b
  BY <1>2, <1>3, <1>4, <1>5, SumsCompare
<1>7. QED
  BY <1>1, <1>3, <1>4, <1>6 DEF GroupWidth

\* What is printed from a column on ends within the table.
LEMMA UnitIn ==
  ASSUME NEW t, Ready(t), NEW r \in Nat, r < Rows(t), NEW c \in Nat, c < Cols(t)
  PROVE  /\ UnitEnd(t, r, c) \in Nat /\ c <= UnitEnd(t, r, c) /\ UnitEnd(t, r, c) < Cols(t)
         /\ HasCell(t, r, c) => UnitEnd(t, r, c) < columns_in_row(RowAt(t, r))
<1>1. t \in Shape(t, Cells, t.cur_row)
  BY DEF Ready
<1>2. PICK n \in Nat : n = Cols(t)
  BY ColsIn
<1>3. PICK m \in Nat : m = columns_in_row(RowAt(t, r)) /\ m <= n
  BY <1>1, <1>2, ColumnsBound
<1>4. RowAt(t, r) \in Roomy(Cells)
  BY <1>1, RowsAre
<1>5. CASE HasCell(t, r, c)
  <2>1. c < columns_in_row(RowAt(t, r))
    BY <1>5 DEF HasCell
  <2>2. PICK g \in Nat : g = group_cell_number(RowAt(t, r), c) /\ g >= 1
                         /\ c + g <= columns_in_row(RowAt(t, r))
    BY <1>4, <2>1, GroupIs
  <2>3. UnitEnd(t, r, c) = c + g - 1
    BY <1>5, <2>2 DEF UnitEnd
  <2>4. QED
    BY <1>2, <1>3, <2>2, <2>3
<1>6. CASE ~ HasCell(t, r, c)
  <2>1. UnitEnd(t, r, c) = c
    BY <1>6 DEF UnitEnd
  <2>2. QED
    BY <1>6, <2>1
<1>7. QED
  BY <1>5, <1>6

-----------------------------------------------------------------------------
(* The widths of the columns.                                              *)

\* Cell c of row r spans columns, as wide as "Hint" together.
IsMaster(t, r, c) == HasCell(t, r, c) /\ CellType(t, r, c) = "MASTER"
Hint(t, r, c, geom) == cell_vis_width(t, r, c) + Invisible(t, r, c, geom)
NoMaster(t) == \A r \in 0 .. (Rows(t) - 1), c \in 0 .. (Cols(t) - 1) : ~ IsMaster(t, r, c)

\* The columns hold the cell.
Served(t, w, r, c, geom) ==
  IsMaster(t, r, c) => Hint(t, r, c, geom) <= GroupWidth(w, c, UnitEnd(t, r, c))

\* The widths before a cell is served and afterwards.
StartWidths(t, geom) == [c \in 0 .. (Cols(t) - 1) |-> CommonWidth(t, c, geom)]
WidthStep(t, w, r, c, geom) ==
  IF IsMaster(t, r, c)
  THEN Widened(w, c, c + group_cell_number(RowAt(t, r), c) - 1, Hint(t, r, c, geom))
  ELSE w

\* The widths that are possible after k cells were served.
Stages(t, geom, k) ==
  {w \in [0 .. (Cols(t) - 1) -> Nat] :
     /\ \A c \in 0 .. (Cols(t) - 1) : CommonWidth(t, c, geom) <= w[c]
     /\ NoMaster(t) => w = StartWidths(t, geom)
     /\ \A x \in Nat : x < k => Served(t, w, x % Rows(t), x \div Rows(t), geom)}

\* In the code's words.
LEMMA WidthStepIs ==
  ASSUME NEW t, NEW w, NEW r, NEW c, NEW geom
  PROVE  (IF HasCell(t, r, c) /\ CellType(t, r, c) = "MASTER"
          THEN Widened(w, c, c + group_cell_number(RowAt(t, r), c) - 1,
                       cell_vis_width(t, r, c) + Invisible(t, r, c, geom))
          ELSE w) = WidthStep(t, w, r, c, geom)
  BY Zenon DEF WidthStep, IsMaster, Hint

\* What a cell asks for is a number.
LEMMA HintIn ==
  ASSUME NEW t, Ready(t), NEW r \in Nat, r < Rows(t), NEW c \in Nat, HasCell(t, r, c),
         NEW geom
  PROVE  /\ Hint(t, r, c, geom) \in Nat /\ cell_vis_width(t, r, c) \in Nat
         /\ cell_vis_width(t, r, c) <= Hint(t, r, c, geom)
<1>1. PICK w \in Nat : w = cell_vis_width(t, r, c)
  BY CellWidthIn
<1>2. PICK x \in Nat : x = Invisible(t, r, c, geom)
  BY TagsIn DEF Invisible, Ready
<1>3. QED
  BY <1>1, <1>2 DEF Hint

\* A column that is as wide as its common cells at first.
LEMMA StartIn ==
  ASSUME NEW t, Ready(t), NEW geom \in {"VISIBLE", "INTERN"}
  PROVE  StartWidths(t, geom) \in Stages(t, geom, 0)
<1>1. PICK n \in Nat : n = Cols(t)
  BY ColsIn
<1>2. \A c \in 0 .. (n - 1) : CommonWidth(t, c, geom) \in Nat
  BY CommonWidthIs
<1>3. PICK w : w = [c \in 0 .. (n - 1) |-> CommonWidth(t, c, geom)]
  OBVIOUS
<1>4. w \in [0 .. (n - 1) -> Nat] /\ \A c \in 0 .. (n - 1) : CommonWidth(t, c, geom) <= w[c]
  BY <1>2, <1>3
<1>5. w = StartWidths(t, geom)
  BY <1>1, <1>3 DEF StartWidths
<1>6. \A x \in Nat : ~ (x < 0)
  OBVIOUS
<1>7. QED
  BY <1>1, <1>4, <1>5, <1>6 DEF Stages

\* A cell stays served when columns grow.
LEMMA StaysServed ==
  ASSUME NEW t, Ready(t), NEW geom, NEW n \in Nat, n = Cols(t),
         NEW v \in [0 .. (n - 1) -> Nat], NEW w \in [0 .. (n - 1) -> Nat],
         \A c \in 0 .. (n - 1) : v[c] <= w[c],
         NEW r \in Nat, r < Rows(t), NEW c \in Nat, c < n, Served(t, v, r, c, geom)
  PROVE  Served(t, w, r, c, geom)
<1> SUFFICES ASSUME IsMaster(t, r, c)
             PROVE  Hint(t, r, c, geom) <= GroupWidth(w, c, UnitEnd(t, r, c))
  BY DEF Served
<1>1. HasCell(t, r, c)
  BY DEF IsMaster
<1>2. PICK h \in Nat : h = Hint(t, r, c, geom)
  BY <1>1, HintIn
<1>3. PICK e \in Nat : e = UnitEnd(t, r, c) /\ c <= e /\ e < n
  BY UnitIn
<1>4. PICK a \in Nat : a = GroupWidth(v, c, e)
  BY <1>3, GroupWidthIn
<1>5. PICK b \in Nat : b = GroupWidth(w, c, e)
  BY <1>3, GroupWidthIn
<1>6. h <= a
  BY <1>2, <1>3, <1>4 DEF Served
<1>7. a <= b
  BY <1>3, <1>4, <1>5, GroupGrows
<1>8. QED
  BY <1>2, <1>3, <1>5, <1>6, <1>7

\* Serving the next cell.
LEMMA WidthStepIn ==
  ASSUME NEW t, Ready(t), NEW geom \in {"VISIBLE", "INTERN"}, NEW x \in Nat,
         x < Cols(t) * Rows(t), NEW w \in Stages(t, geom, x)
  PROVE  WidthStep(t, w, x % Rows(t), x \div Rows(t), geom) \in Stages(t, geom, x + 1)
<1>1. PICK n \in Nat : n = Cols(t)
  BY ColsIn
<1>2. PICK m \in Nat : m = Rows(t)
  BY ColsIn
<1>3. m > 0
  BY <1>1, <1>2
<1>4. PICK c \in Nat : c = x \div m /\ c < n
  BY <1>1, <1>2, <1>3, Divided
<1>5. PICK r \in Nat : r = x % m /\ r < m
  BY <1>1, <1>2, <1>3, Divided
<1>6. /\ w \in [0 .. (n - 1) -> Nat]
      /\ \A d \in 0 .. (n - 1) : CommonWidth(t, d, geom) <= w[d]
      /\ NoMaster(t) => w = StartWidths(t, geom)
      /\ \A y \in Nat : y < x => Served(t, w, y % m, y \div m, geom)
  BY <1>1, <1>2 DEF Stages
<1>7. PICK v : v = WidthStep(t, w, r, c, geom)
  OBVIOUS
<1>8. /\ v \in [0 .. (n - 1) -> Nat] /\ \A d \in 0 .. (n - 1) : w[d] <= v[d]
      /\ Served(t, v, r, c, geom)
  <2>1. CASE IsMaster(t, r, c)
    <3>1. HasCell(t, r, c)
      BY <2>1 DEF IsMaster
    <3>2. PICK h \in Nat : h = Hint(t, r, c, geom)
      BY <1>2, <1>5, <3>1, HintIn
    <3>3. PICK e \in Nat : e = UnitEnd(t, r, c) /\ c <= e /\ e < n
      BY <1>1, <1>2, <1>4, <1>5, UnitIn
    <3>4. v = Widened(w, c, e, h)
      BY <1>7, <2>1, <3>1, <3>2, <3>3 DEF WidthStep, UnitEnd
    <3>5. /\ v \in [0 .. (n - 1) -> Nat] /\ \A d \in 0 .. (n - 1) : w[d] <= v[d]
          /\ h <= GroupWidth(v, c, e)
      BY <1>6, <3>3, <3>4, WidenedIs
    <3>6. QED
      BY <3>2, <3>3, <3>5 DEF Served
  <2>2. CASE ~ IsMaster(t, r, c)
    <3>1. v = w
      BY <1>7, <2>2 DEF WidthStep
    <3>2. QED
      BY <1>6, <2>2, <3>1 DEF Served
  <2>3. QED
    BY <2>1, <2>2
<1>9. \A d \in 0 .. (n - 1) : CommonWidth(t, d, geom) <= v[d]
  <2>1. \A d \in 0 .. (n - 1) : CommonWidth(t, d, geom) \in Nat
    BY CommonWidthIs
  <2>2. QED
    BY <1>6, <1>8, <2>1
<1>10. NoMaster(t) => v = StartWidths(t, geom)
  <2>1. ASSUME NoMaster(t)
        PROVE  ~ IsMaster(t, r, c)
    BY <1>1, <1>2, <1>4, <1>5, <2>1 DEF NoMaster
  <2>2. QED
    BY <1>6, <1>7, <2>1 DEF WidthStep
<1>11. ASSUME NEW y \in Nat, y < x + 1
       PROVE  Served(t, v, y % m, y \div m, geom)
  <2>1. CASE y = x
    BY <1>4, <1>5, <1>8, <2>1
  <2>2. CASE y # x
    <3>1. y < x /\ y < n * m
      BY <1>1, <1>2, <1>11, <2>2
    <3>2. PICK d \in Nat : d = y \div m /\ d < n
      BY <1>3, <3>1, Divided
    <3>3. PICK s \in Nat : s = y % m /\ s < m
      BY <1>3, <3>1, Divided
    <3>4. Served(t, w, s, d, geom)
      BY <1>6, <3>1, <3>2, <3>3
    <3>5. Served(t, v, s, d, geom)
      BY <1>1, <1>2, <1>6, <1>8, <3>2, <3>3, <3>4, StaysServed
    <3>6. QED
      BY <3>2, <3>3, <3>5
  <2>3. QED
    BY <2>1, <2>2
<1>12. v \in Stages(t, geom, x + 1)
  BY <1>1, <1>2, <1>8, <1>9, <1>10, <1>11 DEF Stages
<1>13. QED
  BY <1>2, <1>4, <1>5, <1>7, <1>12

\* The columns of a table: numbers, at least as wide as their common cells
\* ask for, exactly so without spans, and wide enough for every span.
LEMMA ColumnWidths ==
  ASSUME NEW t, Ready(t), NEW geom \in {"VISIBLE", "INTERN"}
  PROVE  col_width_arr(t, geom) \in Stages(t, geom, Cols(t) * Rows(t))
<1> DEFINE Serve(w, k) == WidthStep(t, w, (k - 1) % Rows(t), (k - 1) \div Rows(t), geom)
           Code(w, k) ==
             LET c == (k - 1) \div Rows(t)
                 r == (k - 1) % Rows(t)
             IN  IF HasCell(t, r, c) /\ CellType(t, r, c) = "MASTER"
                 THEN Widened(w, c, c + group_cell_number(RowAt(t, r), c) - 1,
                              cell_vis_width(t, r, c) + Invisible(t, r, c, geom))
                 ELSE w
           a == StartWidths(t, geom)
           n == Cols(t) * Rows(t)
           E == [k \in 0 .. n |-> Stages(t, geom, k)]
           G == [k \in 1 .. n |-> [w \in Stages(t, geom, k - 1) |-> Serve(w, k)]]
           p == CHOOSE f : f = [k \in 0 .. n |-> IF k = 0 THEN a ELSE Code(f[k - 1], k)]
<1>0. n \in Nat
  <2>1. PICK x \in Nat : x = Cols(t)
    BY ColsIn
  <2>2. PICK y \in Nat : y = Rows(t)
    BY ColsIn
  <2>3. x * y \in Nat
    OBVIOUS
  <2>4. QED
    BY <2>1, <2>2, <2>3
<1>1. a \in E[0]
  BY <1>0, StartIn
<1>2. \A w, k : Code(w, k) = Serve(w, k)
  BY Zenon DEF WidthStep, IsMaster, Hint
<1>3. ASSUME NEW k \in 1 .. n, NEW x \in E[k - 1]
      PROVE  Serve(x, k) \in E[k] /\ G[k][x] = Serve(x, k)
  <2>1. PICK j \in Nat : j = k - 1 /\ k = j + 1 /\ j < n
    BY <1>0
  <2>2. k - 1 \in 0 .. n /\ k \in 0 .. n
    BY <1>0
  <2>3. x \in Stages(t, geom, j)
    BY <2>1, <2>2
  <2>4. WidthStep(t, x, j % Rows(t), j \div Rows(t), geom) \in Stages(t, geom, j + 1)
    BY <2>1, <2>3, WidthStepIn
  <2>5. QED
    BY <2>1, <2>2, <2>3, <2>4
<1> HIDE DEF E, G, Serve, Code
<1>4. PICK f : Follows(f, n, a, G, E)
  <2>1. Leads(n, E, G)
    BY <1>3 DEF Leads
  <2> HIDE DEF n, a
  <2>2. QED
    BY <1>0, <1>1, <2>1, Recursion
<1>5. ASSUME NEW k \in 0 .. n
      PROVE  (IF k = 0 THEN a ELSE G[k][f[k - 1]]) = IF k = 0 THEN a ELSE Code(f[k - 1], k)
  <2>1. CASE k # 0
    <3> HIDE DEF n, a
    <3>1. k \in 1 .. n /\ k - 1 \in 0 .. n
      BY <1>0, <2>1
    <3>2. f[k - 1] \in E[k - 1]
      BY <1>4, <3>1 DEF Follows
    <3>3. G[k][f[k - 1]] = Code(f[k - 1], k)
      BY <1>2, <1>3, <3>1, <3>2
    <3>4. QED
      BY <3>3, Zenon
  <2>2. QED
    BY <2>1, Zenon
<1>6. f = [k \in 0 .. n |-> IF k = 0 THEN a ELSE G[k][f[k - 1]]]
  BY <1>4 DEF Follows
<1>7. f = [k \in 0 .. n |-> IF k = 0 THEN a ELSE Code(f[k - 1], k)]
  BY <1>5, <1>6, Zenon
<1>8. p = [k \in 0 .. n |-> IF k = 0 THEN a ELSE Code(p[k - 1], k)]
  BY <1>7, Zenon
<1>9. col_width_arr(t, geom) = p[n]
  BY Zenon DEF col_width_arr, StartWidths, Code
<1> HIDE DEF p
<1>10. p[0] \in E[0]
  <2>1. 0 \in 0 .. n
    BY <1>0
  <2>2. p[0] = a
    BY <1>8, <2>1
  <2>3. QED
    BY <1>1, <2>2
<1>11. ASSUME NEW k \in 1 .. n, p[k - 1] \in E[k - 1]
       PROVE  p[k] \in E[k]
  <2>1. k \in 0 .. n /\ k # 0
    BY <1>0
  <2>2. p[k] = Code(p[k - 1], k)
    BY <1>8, <2>1
  <2>3. QED
    BY <1>2, <1>3, <1>11, <2>2
<1>12. p[n] \in E[n]
  <2> HIDE DEF n
  <2>1. \A k \in 0 .. n : p[k] \in E[k]
    BY <1>0, <1>10, <1>11, Reached
  <2>2. QED
    BY <1>0, <2>1
<1>13. p[n] \in Stages(t, geom, n)
  BY <1>0, <1>12 DEF E
<1>14. QED
  BY <1>9, <1>13

\* The same in terms of cells: all of them are as wide as the columns they
\* are printed in.
LEMMA WidthsServe ==
  ASSUME NEW t, Ready(t), NEW geom \in {"VISIBLE", "INTERN"}, NEW w, w = col_width_arr(t, geom)
  PROVE  /\ w \in [0 .. (Cols(t) - 1) -> Nat]
         /\ \A c \in 0 .. (Cols(t) - 1) : CommonWidth(t, c, geom) <= w[c]
         /\ NoMaster(t) => w = StartWidths(t, geom)
         /\ \A r \in 0 .. (Rows(t) - 1), c \in 0 .. (Cols(t) - 1) : Served(t, w, r, c, geom)
<1>1. w \in Stages(t, geom, Cols(t) * Rows(t))
  BY ColumnWidths
<1>2. ASSUME NEW r \in 0 .. (Rows(t) - 1), NEW c \in 0 .. (Cols(t) - 1)
      PROVE  Served(t, w, r, c, geom)
  <2>1. PICK n \in Nat : n = Cols(t)
    BY ColsIn
  <2>2. PICK m \in Nat : m = Rows(t)
    BY ColsIn
  <2>3. r \in Nat /\ r < m /\ c \in Nat /\ c < n
    BY <2>1, <2>2
  <2>4. PICK x \in Nat : x < n * m /\ x \div m = c /\ x % m = r /\ x = m * c + r
    BY <2>3, Multiplied
  <2>5. Served(t, w, x % m, x \div m, geom)
    <3>1. w \in Stages(t, geom, n * m)
      BY <1>1, <2>1, <2>2, Zenon
    <3>2. QED
      BY <2>2, <2>4, <3>1 DEF Stages
  <2>6. QED
    BY <2>4, <2>5
<1>3. QED
  BY <1>1, <1>2 DEF Stages

\* No cell has style tags.
Untagged(t) == \A p \in AllCells(t) : cell_invis_codes_width(t, p[1], p[2]) = 0

\* Without style tags the columns of the estimate are those of the text.
LEMMA UntaggedWidths ==
  ASSUME NEW t, Ready(t), Untagged(t)
  PROVE  col_width_arr(t, "INTERN") = col_width_arr(t, "VISIBLE")
<1> DEFINE Code(w, k, geom) ==
             LET c == (k - 1) \div Rows(t)
                 r == (k - 1) % Rows(t)
             IN  IF HasCell(t, r, c) /\ CellType(t, r, c) = "MASTER"
                 THEN Widened(w, c, c + group_cell_number(RowAt(t, r), c) - 1,
                              cell_vis_width(t, r, c) + Invisible(t, r, c, geom))
                 ELSE w
           All(common, n, geom) ==
             CHOOSE f : f = [k \in 0 .. n |-> IF k = 0 THEN common ELSE Code(f[k - 1], k, geom)]
<1>1. PICK cols \in Nat : cols = Cols(t)
  BY ColsIn
<1>2. PICK rows \in Nat : rows = Rows(t)
  BY ColsIn
<1>3. PICK n : n = cols * rows
  OBVIOUS
<1>4. ASSUME NEW r \in Nat, r < rows, NEW c \in Nat, c < cols, HasCell(t, r, c)
      PROVE  Invisible(t, r, c, "INTERN") = Invisible(t, r, c, "VISIBLE")
  <2>1. <<r, c>> \in AllCells(t)
    BY <1>1, <1>2, <1>4 DEF AllCells
  <2>2. cell_invis_codes_width(t, r, c) = 0
    BY <2>1 DEF Untagged
  <2>3. QED
    BY <2>2 DEF Invisible
<1>5. ASSUME NEW c \in 0 .. (cols - 1)
      PROVE  CommonWidth(t, c, "INTERN") = CommonWidth(t, c, "VISIBLE")
  <2>1. PICK D : D = {r \in 0 .. (rows - 1) : HasCell(t, r, c)}
    OBVIOUS
  <2>2. \A r \in D : Invisible(t, r, c, "INTERN") = Invisible(t, r, c, "VISIBLE")
    BY <1>4, <2>1
  <2>3. {Invisible(t, r, c, "INTERN") : r \in D} = {Invisible(t, r, c, "VISIBLE") : r \in D}
    BY <2>2
  <2>4. \A geom : CommonWidth(t, c, geom) =
                    Max({0} \cup {cell_vis_width(t, r, c) :
                                    r \in {q \in D : CellType(t, q, c) = "COMMON"}})
                      + Max({0} \cup {Invisible(t, r, c, geom) : r \in D})
    BY <1>2, <2>1, Zenon DEF CommonWidth
  <2>5. QED
    BY <2>3, <2>4
<1>6. PICK common : common = [c \in 0 .. (cols - 1) |-> CommonWidth(t, c, "VISIBLE")]
  OBVIOUS
<1>7. common = [c \in 0 .. (cols - 1) |-> CommonWidth(t, c, "INTERN")]
  BY <1>5, <1>6
<1>8. ASSUME NEW k \in 0 .. n, k # 0, NEW w
      PROVE  Code(w, k, "INTERN") = Code(w, k, "VISIBLE")
  <2>1. PICK j \in Nat : j = k - 1 /\ j < cols * rows
    BY <1>3, <1>8
  <2>2. rows > 0
    BY <2>1
  <2>3. PICK c \in Nat : c = j \div rows /\ c < cols
    BY <2>1, <2>2, Divided
  <2>4. PICK r \in Nat : r = j % rows /\ r < rows
    BY <2>1, <2>2, Divided
  <2>5. HasCell(t, r, c) => Invisible(t, r, c, "INTERN") = Invisible(t, r, c, "VISIBLE")
    BY <1>4, <2>3, <2>4
  <2>6. QED
    BY <1>2, <2>1, <2>3, <2>4, <2>5
<1> HIDE DEF Code
<1>9. \A f : [k \in 0 .. n |-> IF k = 0 THEN common ELSE Code(f[k - 1], k, "INTERN")]
               = [k \in 0 .. n |-> IF k = 0 THEN common ELSE Code(f[k - 1], k, "VISIBLE")]
  <2>1. ASSUME NEW f, NEW k \in 0 .. n
        PROVE  (IF k = 0 THEN common ELSE Code(f[k - 1], k, "INTERN"))
                 = IF k = 0 THEN common ELSE Code(f[k - 1], k, "VISIBLE")
    BY <1>8
  <2>2. QED
    BY <2>1, Zenon
<1>10. All(common, n, "INTERN") = All(common, n, "VISIBLE")
  BY <1>9, Zenon
<1>11. col_width_arr(t, "INTERN") = All(common, n, "INTERN")[n]
  BY <1>1, <1>2, <1>3, <1>7, Zenon DEF col_width_arr, Code
<1>12. col_width_arr(t, "VISIBLE") = All(common, n, "VISIBLE")[n]
  BY <1>1, <1>2, <1>3, <1>6, Zenon DEF col_width_arr, Code
<1>13. QED
  BY <1>10, <1>11, <1>12

\* Without spans the estimate has room for the tags of every cell.
LEMMA TagsEstimated ==
  ASSUME NEW t, Ready(t), NoMaster(t), NEW c \in 0 .. (Cols(t) - 1)
  PROVE  /\ col_width_arr(t, "VISIBLE")[c] <= col_width_arr(t, "INTERN")[c]
         /\ \A r \in RowsWith(t, c) :
              col_width_arr(t, "VISIBLE")[c] + cell_invis_codes_width(t, r, c)
                <= col_width_arr(t, "INTERN")[c]
<1>1. col_width_arr(t, "VISIBLE") = StartWidths(t, "VISIBLE")
  BY WidthsServe
<1>2. col_width_arr(t, "INTERN") = StartWidths(t, "INTERN")
  BY WidthsServe
<1>3. c \in Nat
  BY ColsIn
<1>4. col_width_arr(t, "VISIBLE")[c] = CommonWidth(t, c, "VISIBLE")
  BY <1>1 DEF StartWidths
<1>5. col_width_arr(t, "INTERN")[c] = CommonWidth(t, c, "INTERN")
  BY <1>2 DEF StartWidths
<1>6. QED
  BY <1>3, <1>4, <1>5, CommonWidthIs
-----------------------------------------------------------------------------
(* The estimate.                                                           *)

\* The sum of a whole function.
LEMMA SumWhole ==
  ASSUME NEW f, NEW S, DOMAIN f = S
  PROVE  SumFunction(f) = SumFunctionOnSet(f, S)
  BY Zenon DEF SumFunction, SumFunctionOnSet, FoldFunction

\* No border element is longer than the longest.
LEMMA LongestItem ==
  ASSUME NEW style, TypedStyle(style)
  PROVE  /\ max_border_elem_strlen(style) \in Nat /\ max_border_elem_strlen(style) >= 1
         /\ \A i \in BorderItems : /\ style.body[i] \in Nat /\ style.header[i] \in Nat
                                   /\ style.body[i] <= max_border_elem_strlen(style)
                                   /\ style.header[i] <= max_border_elem_strlen(style)
         /\ \A i \in SeparatorItems : /\ style.sep[i] \in Nat
                                      /\ style.sep[i] <= max_border_elem_strlen(style)
<1>1. PICK A : A = {style.body[i] : i \in BorderItems}
  OBVIOUS
<1>2. PICK B : B = {style.header[i] : i \in BorderItems}
  OBVIOUS
<1>3. PICK C : C = {style.sep[i] : i \in SeparatorItems}
  OBVIOUS
<1>4. IsFiniteSet(BorderItems) /\ IsFiniteSet(SeparatorItems)
  <2>1. /\ IsFiniteSet({"TL", "TT", "TV", "TR"}) /\ IsFiniteSet({"LL", "IV", "RR"})
        /\ IsFiniteSet({"LH", "IH", "II", "RH"}) /\ IsFiniteSet({"BL", "BB", "BV", "BR"})
        /\ IsFiniteSet({"LI", "TI", "RI", "BI"}) /\ IsFiniteSet({"TI", "BI"})
    <3>1. \A a, b, c, d : IsFiniteSet({a, b, c, d})
      <4>1. ASSUME NEW a, NEW b, NEW c, NEW d
            PROVE  IsFiniteSet({a, b, c, d})
        <5>1. IsFiniteSet({} \cup {a})
          BY FS_EmptySet, FS_AddElement
        <5>2. IsFiniteSet(({} \cup {a}) \cup {b})
          BY <5>1, FS_AddElement
        <5>3. IsFiniteSet((({} \cup {a}) \cup {b}) \cup {c})
          BY <5>2, FS_AddElement
        <5>4. IsFiniteSet(((({} \cup {a}) \cup {b}) \cup {c}) \cup {d})
          BY <5>3, FS_AddElement
        <5>5. {a, b, c, d} = ((({} \cup {a}) \cup {b}) \cup {c}) \cup {d}
          OBVIOUS
        <5>6. QED
          BY <5>4, <5>5
      <4>2. QED
        BY <4>1
    <3>2. {"LL", "IV", "RR"} = {"LL", "IV", "RR", "RR"} /\ {"TI", "BI"} = {"TI", "BI", "BI", "BI"}
      OBVIOUS
    <3>3. QED
      BY <3>1, <3>2
  <2>2. IsFiniteSet({"LH", "IH", "II", "RH"} \cup {"TI", "BI"})
    BY <2>1, FS_Union
  <2>3. SeparatorItems = {"LH", "IH", "II", "RH"} \cup {"TI", "BI"}
    BY DEF SeparatorItems
  <2>4. IsFiniteSet({"TL", "TT", "TV", "TR"} \cup {"LL", "IV", "RR"})
    BY <2>1, FS_Union
  <2>5. IsFiniteSet({"LH", "IH", "II", "RH"} \cup {"BL", "BB", "BV", "BR"})
    BY <2>1, FS_Union
  <2>6. IsFiniteSet(({"TL", "TT", "TV", "TR"} \cup {"LL", "IV", "RR"})
                      \cup ({"LH", "IH", "II", "RH"} \cup {"BL", "BB", "BV", "BR"}))
    BY <2>4, <2>5, FS_Union
  <2>7. IsFiniteSet((({"TL", "TT", "TV", "TR"} \cup {"LL", "IV", "RR"})
                      \cup ({"LH", "IH", "II", "RH"} \cup {"BL", "BB", "BV", "BR"}))
                      \cup {"LI", "TI", "RI", "BI"})
    BY <2>1, <2>6, FS_Union
  <2>8. BorderItems = (({"TL", "TT", "TV", "TR"} \cup {"LL", "IV", "RR"})
                      \cup ({"LH", "IH", "II", "RH"} \cup {"BL", "BB", "BV", "BR"}))
                      \cup {"LI", "TI", "RI", "BI"}
    BY DEF BorderItems
  <2>9. QED
    BY <2>2, <2>3, <2>7, <2>8
<1>5. IsFiniteSet(A) /\ IsFiniteSet(B) /\ IsFiniteSet(C) /\ IsFiniteSet({1})
  <2>1. IsFiniteSet({1})
    BY FS_Singleton
  <2>2. QED
    BY <1>1, <1>2, <1>3, <1>4, <2>1, ValuesFinite
<1>6. IsFiniteSet({1} \cup A)
  BY <1>5, FS_Union
<1>7. IsFiniteSet(({1} \cup A) \cup B)
  BY <1>5, <1>6, FS_Union
<1>8. IsFiniteSet((({1} \cup A) \cup B) \cup C)
  BY <1>5, <1>7, FS_Union
<1>9. /\ \A i \in BorderItems : style.body[i] \in Nat /\ style.header[i] \in Nat
      /\ \A i \in SeparatorItems : style.sep[i] \in Nat
  BY DEF TypedStyle
<1>10. PICK M : M = (({1} \cup A) \cup B) \cup C
  OBVIOUS
<1>11. M \in SUBSET Nat /\ M # {} /\ 1 \in M
  BY <1>1, <1>2, <1>3, <1>9, <1>10
<1>12. PICK m \in Nat : m = Max(M) /\ \A y \in M : y <= m
  <2>1. Max(M) \in M /\ \A y \in M : y <= Max(M)
    BY <1>8, <1>10, <1>11, MaxIs
  <2>2. QED
    BY <1>11, <2>1
<1>13. max_border_elem_strlen(style) = m
  BY <1>1, <1>2, <1>3, <1>10, <1>12, Zenon DEF max_border_elem_strlen
<1>14. /\ \A i \in BorderItems : style.body[i] \in M /\ style.header[i] \in M
       /\ \A i \in SeparatorItems : style.sep[i] \in M
  BY <1>1, <1>2, <1>3, <1>10
<1>15. QED
  BY <1>9, <1>11, <1>12, <1>13, <1>14

\* The heights of the rows before row k, together.
HeightsUpTo(t, k) ==
  SumFunctionOnSet([r \in 0 .. (Rows(t) - 1) |-> RowHeight(t, r)], 0 .. (k - 1))

\* They are numbers.
LEMMA HeightsIn ==
  ASSUME NEW t, Ready(t), NEW k \in Nat, k <= Rows(t)
  PROVE  /\ HeightsUpTo(t, k) \in Nat /\ HeightsUpTo(t, 0) = 0
         /\ k < Rows(t) => HeightsUpTo(t, k + 1) = HeightsUpTo(t, k) + RowHeight(t, k)
<1>1. PICK n \in Nat : n = Rows(t)
  BY ColsIn
<1>2. PICK f : f = [r \in 0 .. (n - 1) |-> RowHeight(t, r)]
  OBVIOUS
<1>3. \A r \in 0 .. (n - 1) : f[r] \in Nat /\ f[r] = RowHeight(t, r)
  BY <1>1, <1>2, RowHeightIn
<1>4. \A j \in Nat : j <= n => IsFiniteSet(0 .. (j - 1)) /\ Numbers(f, 0 .. (j - 1))
  <2>1. ASSUME NEW j \in Nat, j <= n
        PROVE  IsFiniteSet(0 .. (j - 1)) /\ Numbers(f, 0 .. (j - 1))
    <3>1. IsFiniteSet(0 .. (j - 1))
      BY FS_Interval
    <3>2. \A r \in 0 .. (j - 1) : r \in 0 .. (n - 1)
      BY <2>1
    <3>3. QED
      BY <1>3, <3>1, <3>2 DEF Numbers
  <2>2. QED
    BY <2>1
<1>5. \A j : HeightsUpTo(t, j) = SumFunctionOnSet(f, 0 .. (j - 1))
  BY <1>1, <1>2 DEF HeightsUpTo
<1>6. SumFunctionOnSet(f, 0 .. (k - 1)) \in Nat
  BY <1>1, <1>4, SumType
<1>7. 0 .. (0 - 1) = {}
  OBVIOUS
<1>8. SumFunctionOnSet(f, 0 .. (0 - 1)) = 0
  BY <1>7, SumEmpty
<1>9. ASSUME k < n
      PROVE  SumFunctionOnSet(f, 0 .. ((k + 1) - 1)) = SumFunctionOnSet(f, 0 .. (k - 1)) + f[k]
  <2>1. PICK j \in Nat : j = k + 1 /\ j <= n
    BY <1>9
  <2>2. PICK D : D = 0 .. (j - 1)
    OBVIOUS
  <2>3. IsFiniteSet(D) /\ Numbers(f, D)
    BY <1>4, <2>1, <2>2
  <2>4. k \in D /\ D \ {k} = 0 .. (k - 1)
    BY <2>1, <2>2
  <2>5. /\ SumFunctionOnSet(f, D) = f[k] + SumFunctionOnSet(f, D \ {k})
        /\ f[k] \in Nat /\ SumFunctionOnSet(f, D \ {k}) \in Nat
    BY <2>3, <2>4, SumTake
  <2>6. PICK a \in Nat : a = f[k]
    BY <2>5
  <2>7. PICK b \in Nat : b = SumFunctionOnSet(f, D \ {k})
    BY <2>5
  <2>8. SumFunctionOnSet(f, D) = b + a
    BY <2>5, <2>6, <2>7
  <2>9. QED
    BY <2>1, <2>2, <2>4, <2>6, <2>7, <2>8
<1>10. QED
  BY <1>1, <1>3, <1>5, <1>6, <1>8, <1>9

\* The margins are numbers.
LEMMA MarginsIn ==
  ASSUME NEW t, Printable(t)
  PROVE  /\ t.tprops["LEFT_MARGIN"] \in Nat /\ t.tprops["RIGHT_MARGIN"] \in Nat
         /\ t.tprops["TOP_MARGIN"] \in Nat /\ t.tprops["BOTTOM_MARGIN"] \in Nat
  BY DEF Printable, TypedMargins, Margins

\* The estimate in numbers.
LEMMA GeometryIs ==
  ASSUME NEW t, Ready(t), NEW s, s = max_border_elem_strlen(t.border_style),
         NEW n \in Nat, n = Cols(t), NEW m \in Nat, m = Rows(t)
  PROVE  /\ s \in Nat /\ s >= 1 /\ MarginWidth(t) \in Nat
         /\ SumFunctionOnSet(col_width_arr(t, "INTERN"), 0 .. (n - 1)) \in Nat
         /\ table_geometry(t).width =
              s * (2 + (IF n = 0 THEN 1 ELSE n)
                     + SumFunctionOnSet(col_width_arr(t, "INTERN"), 0 .. (n - 1)) + MarginWidth(t))
         /\ table_geometry(t).height =
              1 + (IF m = 0 THEN 1 ELSE m) + HeightsUpTo(t, m)
                + (t.tprops["TOP_MARGIN"] + t.tprops["BOTTOM_MARGIN"])
         /\ table_geometry(t).width \in Nat \ {0} /\ table_geometry(t).height \in Nat
<1>1. PICK w : w = col_width_arr(t, "INTERN")
  OBVIOUS
<1>2. w \in [0 .. (n - 1) -> Nat]
  BY <1>1, WidthsServe
<1>3. PICK D : D = 0 .. (n - 1)
  OBVIOUS
<1>4. PICK a \in Nat : a = SumFunctionOnSet(w, D) /\ a = SumFunction(w)
  <2>1. IsFiniteSet(D)
    BY <1>3, FS_Interval
  <2>2. Numbers(w, D) /\ DOMAIN w = D
    BY <1>2, <1>3 DEF Numbers
  <2>3. SumFunction(w) = SumFunctionOnSet(w, D)
    BY <2>2, SumWhole
  <2>4. QED
    BY <2>1, <2>2, <2>3, SumType
<1>5. PICK f : f = [r \in 0 .. (m - 1) |-> RowHeight(t, r)]
  OBVIOUS
<1>6. PICK h \in Nat : h = HeightsUpTo(t, m) /\ h = SumFunction(f)
  <2>1. HeightsUpTo(t, m) = SumFunctionOnSet(f, 0 .. (m - 1))
    BY <1>5 DEF HeightsUpTo
  <2>2. DOMAIN f = 0 .. (m - 1)
    BY <1>5
  <2>3. SumFunction(f) = SumFunctionOnSet(f, 0 .. (m - 1))
    BY <2>2, SumWhole
  <2>4. HeightsUpTo(t, m) \in Nat
    BY HeightsIn
  <2>5. QED
    BY <2>1, <2>3, <2>4
<1>7. PICK l \in Nat : l = t.tprops["LEFT_MARGIN"]
  BY MarginsIn DEF Ready
<1>8. PICK r \in Nat : r = t.tprops["RIGHT_MARGIN"]
  BY MarginsIn DEF Ready
<1>9. PICK o \in Nat : o = t.tprops["TOP_MARGIN"]
  BY MarginsIn DEF Ready
<1>10. PICK u \in Nat : u = t.tprops["BOTTOM_MARGIN"]
  BY MarginsIn DEF Ready
<1>11. PICK x \in Nat : x = s /\ x >= 1
  BY LongestItem DEF Ready, Printable
<1>12. PICK c \in Nat : c = Max({1, n}) /\ c = IF n = 0 THEN 1 ELSE n
  BY GreaterIs
<1>13. PICK b \in Nat : b = Max({1, m}) /\ b = IF m = 0 THEN 1 ELSE m
  BY GreaterIs
<1>14. table_geometry(t) = [width |-> x * (2 + c + a + l + r), height |-> 1 + b + h + o + u]
  BY <1>1, <1>4, <1>5, <1>6, <1>7, <1>8, <1>9, <1>10, <1>11, <1>12, <1>13, Zenon
     DEF table_geometry
<1>15. MarginWidth(t) = l + r
  BY <1>7, <1>8 DEF MarginWidth
<1>16. 2 + c + a + l + r = 2 + c + a + (l + r) /\ 1 + b + h + o + u = 1 + b + h + (o + u)
  OBVIOUS
<1>17. x * (2 + c + a + l + r) \in Nat \ {0}
  <2>1. PICK y \in Nat : y = 2 + c + a + l + r /\ y >= 1
    OBVIOUS
  <2>2. x * y >= 1 * y
    BY <1>11, <2>1
  <2>3. QED
    BY <2>1, <2>2
<1>18. l + r \in Nat /\ 1 + b + h + o + u \in Nat
  OBVIOUS
<1>19. PICK p : p = x * (2 + c + a + l + r)
  OBVIOUS
<1>20. PICK q : q = 1 + b + h + o + u
  OBVIOUS
<1>21. table_geometry(t).width = p /\ table_geometry(t).height = q
  <2>1. table_geometry(t) = [width |-> p, height |-> q]
    BY <1>14, <1>19, <1>20, Zenon
  <2>2. QED
    BY <2>1
<1>22. p = s * (2 + c + a + MarginWidth(t)) /\ q = 1 + b + h + (o + u)
  BY <1>11, <1>15, <1>16, <1>19, <1>20, Zenon
<1>23. p \in Nat \ {0} /\ q \in Nat
  BY <1>17, <1>18, <1>19, <1>20, Zenon
<1>24. QED
  BY <1>1, <1>3, <1>4, <1>6, <1>9, <1>10, <1>11, <1>12, <1>13, <1>15, <1>18, <1>21, <1>22,
     <1>23, Zenon

-----------------------------------------------------------------------------
(* The buffer.                                                             *)

\* A set that is left only by numbers that are large enough, and what is in
\* all such sets with m.
Doubling(X, e) == X \in SUBSET Nat /\ \A x \in X : x < e => 2 * x \in X
FromDoubling(m, e) == {x \in Nat : \A X : m \in X /\ Doubling(X, e) => x \in X}

\* Where doubling m ends.
Doubled(m, e) ==
  IF \E x \in FromDoubling(m, e) : x >= e
  THEN CHOOSE x \in FromDoubling(m, e) : x >= e
  ELSE 0

\* The buffer is doubled by a function.
LEMMA DoublingExists ==
  ASSUME NEW e \in Nat
  PROVE  \E f : f = [n \in Nat |-> IF n >= e THEN n ELSE f[2 * n]]
<1>1. ASSUME NEW n \in Nat
      PROVE  Doubled(n, e) = IF n >= e THEN n ELSE Doubled(2 * n, e)
  <2>1. ASSUME n >= e
        PROVE  Doubled(n, e) = n
    <3>1. Doubling({n}, e)
      BY <2>1 DEF Doubling
    <3>2. \A x \in FromDoubling(n, e) : x = n
      BY <3>1 DEF FromDoubling
    <3>3. n \in FromDoubling(n, e)
      BY DEF FromDoubling
    <3>4. QED
      BY <2>1, <3>2, <3>3 DEF Doubled
  <2>2. ASSUME ~ (n >= e)
        PROVE  Doubled(n, e) = Doubled(2 * n, e)
    <3>1. ASSUME NEW x \in Nat, x >= e
          PROVE  x \in FromDoubling(n, e) <=> x \in FromDoubling(2 * n, e)
      <4>1. ASSUME x \in FromDoubling(2 * n, e)
            PROVE  x \in FromDoubling(n, e)
        <5>1. ASSUME NEW X, n \in X, Doubling(X, e)
              PROVE  x \in X
          <6>1. 2 * n \in X
            BY <2>2, <5>1 DEF Doubling
          <6>2. QED
            BY <4>1, <5>1, <6>1 DEF FromDoubling
        <5>2. QED
          BY <5>1 DEF FromDoubling
      <4>2. ASSUME x \in FromDoubling(n, e)
            PROVE  x \in FromDoubling(2 * n, e)
        <5>1. ASSUME NEW X, 2 * n \in X, Doubling(X, e)
              PROVE  x \in X
          <6>1. PICK Y : Y = X \cup {n}
            OBVIOUS
          <6>2. Doubling(Y, e)
            BY <5>1, <6>1 DEF Doubling
          <6>3. x \in Y
            BY <4>2, <6>1, <6>2 DEF FromDoubling
          <6>4. x # n
            BY <2>2, <3>1
          <6>5. QED
            BY <6>1, <6>3, <6>4
        <5>2. QED
          BY <5>1 DEF FromDoubling
      <4>3. QED
        BY <4>1, <4>2
    <3>2. PICK A : A = {x \in FromDoubling(n, e) : x >= e}
      OBVIOUS
    <3>3. A = {x \in FromDoubling(2 * n, e) : x >= e}
      BY <3>1, <3>2 DEF FromDoubling
    <3>4. \A m : (\E x \in FromDoubling(m, e) : x >= e)
                   <=> {x \in FromDoubling(m, e) : x >= e} # {}
      OBVIOUS
    <3>5. \A m : (CHOOSE x \in FromDoubling(m, e) : x >= e)
                   = CHOOSE x : x \in {y \in FromDoubling(m, e) : y >= e}
      <4>1. \A m, x : (x \in FromDoubling(m, e) /\ x >= e)
                        <=> x \in {y \in FromDoubling(m, e) : y >= e}
        OBVIOUS
      <4>2. QED
        BY <4>1, Zenon
    <3>6. \A m : Doubled(m, e) =
                   IF {x \in FromDoubling(m, e) : x >= e} # {}
                   THEN CHOOSE x : x \in {y \in FromDoubling(m, e) : y >= e} ELSE 0
      BY <3>4, <3>5, Zenon DEF Doubled
    <3>7. Doubled(n, e) = IF A # {} THEN CHOOSE x : x \in A ELSE 0
      BY <3>2, <3>6, Zenon
    <3>8. Doubled(2 * n, e) = IF A # {} THEN CHOOSE x : x \in A ELSE 0
      BY <3>3, <3>6, Zenon
    <3>9. QED
      BY <3>7, <3>8
  <2>3. QED
    BY <2>1, <2>2
<1>2. PICK f : f = [n \in Nat |-> Doubled(n, e)]
  OBVIOUS
<1>3. \A n \in Nat : f[2 * n] = Doubled(2 * n, e)
  BY <1>2
<1>4. \A n \in Nat : Doubled(n, e) = IF n >= e THEN n ELSE f[2 * n]
  BY <1>1, <1>3
<1>5. f = [n \in Nat |-> IF n >= e THEN n ELSE f[2 * n]]
  BY <1>2, <1>4, Zenon
<1>6. QED
  BY <1>5, Zenon

\* Doubling ends with a buffer that is large enough.
LEMMA EnlargedIs ==
  ASSUME NEW e \in Nat, NEW size \in Nat \ {0}
  PROVE  Enlarged(size, e) \in Nat \ {0} /\ Enlarged(size, e) >= e
<1> DEFINE f == CHOOSE g : g = [n \in Nat |-> IF n >= e THEN n ELSE g[2 * n]]
           T == {d \in Nat : \A n \in Nat : n >= 1 /\ n + d >= e => f[n] \in Nat \ {0} /\ f[n] >= e}
<1>1. f = [n \in Nat |-> IF n >= e THEN n ELSE f[2 * n]]
  BY DoublingExists, Zenon
<1>2. Enlarged(size, e) = f[size]
  BY Zenon DEF Enlarged
<1> HIDE DEF f
<1>3. \A n \in Nat : f[n] = IF n >= e THEN n ELSE f[2 * n]
  BY <1>1
<1>4. 0 \in T
  BY <1>3
<1>5. ASSUME NEW d \in Nat, d \in T
      PROVE  d + 1 \in T
  <2>1. ASSUME NEW n \in Nat, n >= 1, n + (d + 1) >= e
        PROVE  f[n] \in Nat \ {0} /\ f[n] >= e
    <3>1. CASE n >= e
      BY <1>3, <2>1, <3>1
    <3>2. CASE ~ (n >= e)
      <4>1. PICK m \in Nat : m = 2 * n /\ m >= 1 /\ m + d >= e
        BY <2>1
      <4>2. f[m] \in Nat \ {0} /\ f[m] >= e
        BY <1>5, <4>1
      <4>3. f[n] = f[m]
        BY <1>3, <3>2, <4>1
      <4>4. QED
        BY <4>2, <4>3
    <3>3. QED
      BY <3>1, <3>2
  <2>2. QED
    BY <2>1
<1>6. T = Nat
  <2>1. T \in SUBSET Nat
    OBVIOUS
  <2>2. \A d \in Nat : d \in T => d + 1 \in T
    BY <1>5
  <2> HIDE DEF T
  <2>3. QED
    BY <1>4, <2>1, <2>2, Induct
<1>7. e \in T
  BY <1>6
<1>8. size >= 1 /\ size + e >= e
  OBVIOUS
<1>9. QED
  BY <1>2, <1>7, <1>8

\* The buffer has room for the estimate and the terminating zero.
LEMMA ConvBufferIs ==
  ASSUME NEW t, Ready(t), t.conv_buffer # NULL => t.conv_buffer \in Nat \ {0}
  PROVE  /\ ConvBuffer(t, table_geometry(t)) \in Nat \ {0}
         /\ table_geometry(t).width * table_geometry(t).height + 1
              <= ConvBuffer(t, table_geometry(t))
<1>1. PICK g : g = table_geometry(t)
  OBVIOUS
<1>2. PICK w \in Nat : w = g.width
  BY <1>1, GeometryIs, ColsIn
<1>3. PICK h \in Nat : h = g.height
  BY SMTT(30), <1>1, GeometryIs, ColsIn
<1>4. PICK e \in Nat : e = w * h + 1 /\ e >= 1
  OBVIOUS
<1>5. PICK b : b = t.conv_buffer
  OBVIOUS
<1>6. ConvBuffer(t, g) = IF b = NULL THEN e ELSE Enlarged(b, e)
  BY <1>2, <1>3, <1>4, <1>5 DEF ConvBuffer
<1>7. b # NULL => Enlarged(b, e) \in Nat \ {0} /\ Enlarged(b, e) >= e
  BY <1>5, EnlargedIs
<1>8. PICK c : c = ConvBuffer(t, g)
  OBVIOUS
<1>9. c \in Nat \ {0} /\ e <= c
  BY <1>4, <1>6, <1>7, <1>8
<1>10. QED
  BY <1>1, <1>2, <1>3, <1>4, <1>8, <1>9

-----------------------------------------------------------------------------
(* What is printed of a row: the cells but for those within other cells.   *)

UnitsOf(t, r) == {c \in 0 .. (Cols(t) - 1) : ~ Covered(t, r, c)}

\* What is printed of a row covers its columns without overlap.
LEMMA UnitsCover ==
  ASSUME NEW t, Ready(t), NEW r \in Nat, r < Rows(t)
  PROVE  /\ \A c, d \in UnitsOf(t, r) : c < d => UnitEnd(t, r, c) < d
         /\ \A d \in 0 .. (Cols(t) - 1) : \E c \in UnitsOf(t, r) : d \in c .. UnitEnd(t, r, c)
         /\ Cols(t) > 0 => 0 \in UnitsOf(t, r)
<1>1. t \in Shape(t, Cells, t.cur_row)
  BY DEF Ready
<1>2. PICK n \in Nat : n = Cols(t)
  BY ColsIn
<1>3. PICK row \in Roomy(Cells) : row = RowAt(t, r)
  BY <1>1, RowsAre
<1>4. PICK m \in Nat : m = columns_in_row(row) /\ m <= n
  BY <1>1, <1>2, <1>3, ColumnsBound
<1>5. \A c : HasCell(t, r, c) <=> c < m
  BY <1>3, <1>4 DEF HasCell
<1>6. PICK g : g = [c \in 0 .. (m - 1) |-> group_cell_number(row, c)]
  OBVIOUS
<1>7. ASSUME NEW c \in Nat, c < m
      PROVE  /\ g[c] \in Nat /\ g[c] >= 1 /\ c + g[c] <= m /\ g[c] = group_cell_number(row, c)
             /\ g[c] > 1 => vector_at(row, c).type = "MASTER"
             /\ \A k \in Nat : k >= 1 /\ k < g[c] => vector_at(row, c + k).type = "SLAVE"
  <2>1. g[c] = group_cell_number(row, c)
    BY <1>6, <1>7
  <2>2. QED
    BY <1>4, <1>7, <2>1, GroupIs
<1>8. ASSUME NEW c \in Nat
      PROVE  UnitEnd(t, r, c) = IF c < m THEN c + g[c] - 1 ELSE c
  BY <1>3, <1>5, <1>7 DEF UnitEnd
<1>9. ASSUME NEW c \in Nat
      PROVE  Covered(t, r, c) <=> c < m /\ \E k \in 0 .. (c - 1) : c < k + g[k]
  <2>1. Covered(t, r, c) <=> \E k \in 0 .. (c - 1) : c < m /\ c < k + group_cell_number(row, k)
    BY <1>3, <1>5 DEF Covered
  <2>2. c < m => \A k \in 0 .. (c - 1) : group_cell_number(row, k) = g[k]
    BY <1>7
  <2>3. QED
    BY <2>1, <2>2
<1>10. PICK U : U = UnitsOf(t, r)
  OBVIOUS
<1>11. \A c : c \in U <=> c \in 0 .. (n - 1) /\ ~ Covered(t, r, c)
  BY <1>2, <1>10 DEF UnitsOf
<1>12. ASSUME NEW c \in U, NEW d \in U, c < d
       PROVE  UnitEnd(t, r, c) < d
  <2>1. c \in Nat /\ d \in Nat
    BY <1>11
  <2>2. CASE d < m
    <3>1. ~ \E k \in 0 .. (d - 1) : d < k + g[k]
      BY <1>9, <1>11, <2>1, <2>2
    <3>2. c \in 0 .. (d - 1)
      BY <1>12, <2>1
    <3>3. c < m /\ g[c] \in Nat
      BY <1>7, <1>12, <2>1, <2>2
    <3>4. ~ (d < c + g[c])
      BY <3>1, <3>2
    <3>5. UnitEnd(t, r, c) = c + g[c] - 1
      BY <1>8, <2>1, <3>3
    <3>6. QED
      BY <2>1, <3>3, <3>4, <3>5
  <2>3. CASE ~ (d < m)
    <3>1. CASE c < m
      <4>1. g[c] \in Nat /\ c + g[c] <= m
        BY <1>7, <2>1, <3>1
      <4>2. QED
        BY <1>8, <2>1, <2>3, <3>1, <4>1
    <3>2. CASE ~ (c < m)
      BY <1>8, <1>12, <2>1, <3>2
    <3>3. QED
      BY <3>1, <3>2
  <2>4. QED
    BY <2>2, <2>3
<1>13. ASSUME NEW d \in 0 .. (n - 1)
       PROVE  \E c \in U : d \in c .. UnitEnd(t, r, c)
  <2>1. d \in Nat
    OBVIOUS
  <2>2. CASE d \in U
    <3>1. UnitEnd(t, r, d) \in Nat /\ d <= UnitEnd(t, r, d)
      BY <1>7, <1>8, <2>1
    <3>2. d \in d .. UnitEnd(t, r, d)
      BY <2>1, <3>1
    <3>3. QED
      BY <2>2, <3>2
  <2>3. CASE d \notin U
    <3>1. d < m /\ \E k \in 0 .. (d - 1) : d < k + g[k]
      BY <1>9, <1>11, <2>1, <2>3
    <3>2. PICK k \in 0 .. (d - 1) : d < k + g[k]
      BY <3>1
    <3>3. k \in Nat /\ k < m /\ k < d
      BY <2>1, <3>1
    <3>4. g[k] \in Nat /\ g[k] > 1
      BY <1>7, <2>1, <3>2, <3>3
    <3>5. vector_at(row, k).type = "MASTER"
      BY <1>7, <3>3, <3>4
    <3>6. ASSUME NEW j \in 0 .. (k - 1), k < j + g[j]
          PROVE  FALSE
      <4>1. PICK i \in Nat : i = k - j /\ i >= 1
        BY <3>3
      <4>2. j \in Nat /\ j < m /\ j + i = k
        BY <3>3, <4>1
      <4>3. g[j] \in Nat
        BY <1>7, <4>2
      <4>4. i < g[j]
        BY <3>3, <3>6, <4>1, <4>2, <4>3
      <4>5. vector_at(row, j + i).type = "SLAVE"
        BY <1>7, <4>1, <4>2, <4>4
      <4>6. QED
        BY <3>5, <4>2, <4>5
    <3>7. k \in 0 .. (n - 1)
      BY <1>4, <3>3
    <3>8. k \in U
      BY <1>9, <1>11, <3>3, <3>6, <3>7
    <3>9. d \in k .. UnitEnd(t, r, k)
      BY <1>8, <2>1, <3>2, <3>3, <3>4
    <3>10. QED
      BY <3>8, <3>9
  <2>4. QED
    BY <2>2, <2>3
<1>14. n > 0 => 0 \in U
  BY <1>9, <1>11
<1>15. QED
  BY <1>2, <1>10, <1>12, <1>13, <1>14

\* The columns from each of s to its end.
ColumnsOf(s, e) == UNION {c .. e[c] : c \in s}

\* The columns of each group start in U and end at e; f are their widths.
Grouped(n, w, U, e, f) ==
  /\ n \in Nat /\ w \in [0 .. (n - 1) -> Nat] /\ U \subseteq 0 .. (n - 1)
  /\ \A c \in U : e[c] \in Nat /\ c <= e[c] /\ e[c] < n
  /\ \A c, d \in U : c < d => e[c] < d
  /\ \A c \in U : f[c] = GroupWidth(w, c, e[c])

\* Groups of columns that do not overlap are, with one column for each of
\* them, as wide as their columns with one column for each of those.
LEMMA GroupsSum ==
  ASSUME NEW n, NEW w, NEW U, NEW e, NEW f, Grouped(n, w, U, e, f)
  PROVE  /\ Numbers(f, U) /\ IsFiniteSet(U)
         /\ SumFunctionOnSet(f, U) + Cardinality(U)
              = SumFunctionOnSet(w, ColumnsOf(U, e)) + Cardinality(ColumnsOf(U, e))
<1> DEFINE Sums(s) == SumFunctionOnSet(f, s) + Cardinality(s)
                        = SumFunctionOnSet(w, ColumnsOf(s, e)) + Cardinality(ColumnsOf(s, e))
           N == {m \in Nat : \A s \in SUBSET U : Cardinality(s) = m => Sums(s)}
<1>0. /\ n \in Nat /\ w \in [0 .. (n - 1) -> Nat] /\ U \subseteq 0 .. (n - 1)
      /\ \A c \in U : e[c] \in Nat /\ c <= e[c] /\ e[c] < n
      /\ \A c, d \in U : c < d => e[c] < d
      /\ \A c \in U : f[c] = GroupWidth(w, c, e[c])
  BY DEF Grouped
<1> USE <1>0
<1>1. IsFiniteSet(0 .. (n - 1))
  BY FS_Interval
<1>2. IsFiniteSet(U)
  BY <1>1, FS_Subset
<1>3. \A c \in U : c \in Nat /\ c < n
  OBVIOUS
<1>4. Numbers(f, U)
  <2>1. ASSUME NEW c \in U
        PROVE  f[c] \in Nat
    <3>1. GroupWidth(w, c, e[c]) \in Nat
      BY <1>3, GroupWidthIn
    <3>2. QED
      BY <3>1
  <2>2. QED
    BY <2>1 DEF Numbers
<1>5. 0 \in N
  <2>1. \A s \in SUBSET U : Cardinality(s) = 0 => s = {}
    BY <1>2, FS_Subset, FS_EmptySet
  <2>2. ColumnsOf({}, e) = {}
    BY DEF ColumnsOf
  <2>3. SumFunctionOnSet(f, {}) = 0 /\ SumFunctionOnSet(w, {}) = 0
    BY SumEmpty
  <2>4. Sums({})
    BY <2>2, <2>3
  <2>5. QED
    BY <2>1, <2>4
<1>6. ASSUME NEW m \in Nat, m \in N
      PROVE  m + 1 \in N
  <2>1. ASSUME NEW s \in SUBSET U, Cardinality(s) = m + 1
        PROVE  Sums(s)
    <3>1. IsFiniteSet(s)
      BY <1>2, FS_Subset
    <3>2. s # {}
      <4>1. ASSUME s = {}
            PROVE  Cardinality(s) = 0
        BY <4>1, FS_EmptySet
      <4>2. m + 1 # 0
        OBVIOUS
      <4>3. QED
        BY <2>1, <4>1, <4>2
    <3>3. PICK x : x \in s
      BY <3>2
    <3>4. PICK rest : rest = s \ {x}
      OBVIOUS
    <3>5. rest \in SUBSET U /\ IsFiniteSet(rest)
      BY <3>1, <3>4, FS_Subset
    <3>6. Cardinality(rest) = m
      BY <2>1, <3>1, <3>3, <3>4, OneLess
    <3>7. Sums(rest)
      BY <1>6, <3>5, <3>6
    <3>8. x \in Nat /\ x < n /\ e[x] \in Nat /\ x <= e[x] /\ e[x] < n /\ x \in U
      BY <1>3, <3>3
    <3>9. PICK y \in Nat : y = e[x]
      BY <3>8
    <3>10. PICK A : A = x .. y
      OBVIOUS
    <3>11. PICK B : B = ColumnsOf(rest, e)
      OBVIOUS
    <3>12. ColumnsOf(s, e) = B \cup A
      BY <3>3, <3>4, <3>9, <3>10, <3>11 DEF ColumnsOf
    <3>13. B \cap A = {}
      <4>1. ASSUME NEW c \in rest, NEW d, d \in c .. e[c], d \in A
            PROVE  FALSE
        <5>1. c \in U /\ c # x /\ c \in Nat /\ e[c] \in Nat
          BY <1>3, <3>4, <3>5
        <5>2. c < x => e[c] < x
          BY <3>8, <5>1
        <5>3. x < c => y < c
          BY <3>8, <3>9, <5>1
        <5>4. PICK k \in Nat : k = e[c]
          BY <5>1
        <5>5. d \in Int /\ c <= d /\ d <= k /\ x <= d /\ d <= y
          BY <3>8, <3>10, <4>1, <5>1, <5>4
        <5>6. (c < x => k < x) /\ (x < c => y < c) /\ c # x
          BY <3>9, <5>1, <5>2, <5>3, <5>4
        <5>7. QED
          BY <3>8, <5>1, <5>5, <5>6
      <4>2. QED
        BY <3>11, <4>1 DEF ColumnsOf
    <3>14. A \subseteq 0 .. (n - 1) /\ B \subseteq 0 .. (n - 1)
      <4>1. A \subseteq 0 .. (n - 1)
        BY <3>8, <3>9, <3>10
      <4>2. ASSUME NEW c \in rest, NEW d \in c .. e[c]
            PROVE  d \in 0 .. (n - 1)
        <5>1. c \in U /\ c \in Nat /\ e[c] \in Nat /\ e[c] < n
          BY <1>3, <3>5
        <5>2. QED
          BY <5>1
      <4>3. QED
        BY <3>11, <4>1, <4>2 DEF ColumnsOf
    <3>15. IsFiniteSet(A) /\ IsFiniteSet(B)
      BY <1>1, <3>14, FS_Subset
    <3>16. Numbers(w, B \cup A) /\ Numbers(w, A) /\ Numbers(w, B)
      BY <3>14 DEF Numbers
    <3>17. SumFunctionOnSet(w, B \cup A) = SumFunctionOnSet(w, B) + SumFunctionOnSet(w, A)
      BY <3>13, <3>15, <3>16, SumUnion
    <3>18. Cardinality(B \cup A) = Cardinality(B) + Cardinality(A)
      <4>1. Cardinality(B \cup A) = Cardinality(B) + Cardinality(A) - Cardinality(B \cap A)
        BY <3>15, FS_Union
      <4>2. Cardinality(B \cap A) = 0
        BY <3>13, FS_EmptySet
      <4>3. Cardinality(A) \in Nat /\ Cardinality(B) \in Nat
        BY <3>15, FS_CardinalityType
      <4>4. QED
        BY <4>1, <4>2, <4>3
    <3>19. PICK p \in Nat : p = SumFunctionOnSet(w, B)
      BY <3>15, <3>16, SumType
    <3>20. PICK q \in Nat : q = SumFunctionOnSet(w, A)
      BY <3>15, <3>16, SumType
    <3>21. PICK b \in Nat : b = Cardinality(B)
      BY <3>15, FS_CardinalityType
    <3>22. Cardinality(A) = y - x + 1
      <4>1. Cardinality(A) = IF x > y THEN 0 ELSE y - x + 1
        BY <3>8, <3>10, FS_Interval
      <4>2. QED
        BY <3>8, <3>9, <4>1
    <3>23. f[x] = q + (y - x)
      BY <3>8, <3>9, <3>10, <3>20 DEF GroupWidth
    <3>24. Numbers(f, s) /\ Numbers(f, rest)
      BY <1>4, <3>5 DEF Numbers
    <3>25. SumFunctionOnSet(f, s) = f[x] + SumFunctionOnSet(f, rest)
      BY SMTT(30), <3>1, <3>3, <3>4, <3>24, SumTake
    <3>26. PICK z \in Nat : z = SumFunctionOnSet(f, rest)
      BY <3>5, <3>24, SumType
    <3>27. z + m = p + b
      BY <3>6, <3>7, <3>11, <3>19, <3>21, <3>26
    <3>28. SumFunctionOnSet(f, s) = q + (y - x) + z
      BY <3>23, <3>25, <3>26
    <3>29. /\ SumFunctionOnSet(w, ColumnsOf(s, e)) = p + q
           /\ Cardinality(ColumnsOf(s, e)) = b + (y - x + 1)
      BY <3>12, <3>17, <3>18, <3>19, <3>20, <3>21, <3>22
    <3>30. q + (y - x) + z + (m + 1) = (p + q) + (b + (y - x + 1))
      <4>1. x \in Nat /\ z + m = p + b
        BY <3>8, <3>27
      <4>2. QED
        BY <4>1
    <3>31. QED
      BY <2>1, <3>28, <3>29, <3>30
  <2> HIDE DEF Sums
  <2>2. QED
    BY <2>1
<1>7. N = Nat
  <2>1. N \in SUBSET Nat
    OBVIOUS
  <2>2. \A m \in Nat : m \in N => m + 1 \in N
    BY <1>6
  <2> HIDE DEF N
  <2>3. QED
    BY <1>5, <2>1, <2>2, Induct
<1> HIDE DEF Sums
<1>8. Cardinality(U) \in N
  BY <1>2, <1>7, FS_CardinalityType
<1>9. Sums(U)
  BY <1>8
<1>10. QED
  BY <1>2, <1>4, <1>9 DEF Sums

\* All columns of the table together.
Total(w, n) == SumFunctionOnSet(w, 0 .. (n - 1))

\* They are numbers, and together a number.
LEMMA TotalIn ==
  ASSUME NEW n \in Nat, NEW w \in [0 .. (n - 1) -> Nat]
  PROVE  /\ IsFiniteSet(0 .. (n - 1)) /\ Cardinality(0 .. (n - 1)) = n
         /\ Numbers(w, 0 .. (n - 1)) /\ Total(w, n) \in Nat /\ DOMAIN w = 0 .. (n - 1)
         /\ SumFunction(w) = Total(w, n)
<1>1. IsFiniteSet(0 .. (n - 1))
  BY FS_Interval
<1>2. Cardinality(0 .. (n - 1)) = n
  <2>1. Cardinality(0 .. (n - 1)) = IF 0 > n - 1 THEN 0 ELSE (n - 1) - 0 + 1
    BY FS_Interval
  <2>2. QED
    BY <2>1
<1>3. Numbers(w, 0 .. (n - 1)) /\ DOMAIN w = 0 .. (n - 1)
  BY DEF Numbers
<1>4. SumFunction(w) = SumFunctionOnSet(w, 0 .. (n - 1))
  BY <1>3, SumWhole
<1>5. QED
  BY <1>1, <1>2, <1>3, <1>4, SumType DEF Total

\* Without spans everything is printed on its own.
LEMMA NoneCovered ==
  ASSUME NEW t, Ready(t), NoMaster(t), NEW r \in Nat, r < Rows(t), NEW c \in Nat
  PROVE  ~ Covered(t, r, c)
<1> SUFFICES ASSUME Covered(t, r, c)
             PROVE  FALSE
  OBVIOUS
<1>1. t \in Shape(t, Cells, t.cur_row)
  BY DEF Ready
<1>2. PICK n \in Nat : n = Cols(t)
  BY ColsIn
<1>3. PICK row \in Roomy(Cells) : row = RowAt(t, r)
  BY <1>1, RowsAre
<1>4. PICK m \in Nat : m = columns_in_row(row) /\ m <= n
  BY <1>1, <1>2, <1>3, ColumnsBound
<1>5. PICK k \in 0 .. (c - 1) : c < m /\ c < k + group_cell_number(row, k)
  BY <1>3, <1>4 DEF Covered, HasCell
<1>6. k \in Nat /\ k < m /\ k < n /\ k < c
  BY <1>4, <1>5
<1>7. /\ group_cell_number(row, k) \in Nat
      /\ group_cell_number(row, k) > 1 => vector_at(row, k).type = "MASTER"
  BY <1>4, <1>6, GroupIs
<1>8. vector_at(row, k).type = "MASTER"
  BY <1>5, <1>6, <1>7
<1>9. IsMaster(t, r, k)
  BY <1>3, <1>4, <1>6, <1>8 DEF IsMaster, HasCell, CellType, get_row_cell_types
<1>10. PICK q \in Nat : q = Rows(t)
  BY ColsIn
<1>11. r \in 0 .. (Rows(t) - 1) /\ k \in 0 .. (Cols(t) - 1)
  BY <1>2, <1>6, <1>10
<1>12. QED
  BY <1>9, <1>11 DEF NoMaster

\* U is where something of row r is printed, in n columns of the widths w.
Printed(t, r, n, w, U) ==
  /\ Ready(t) /\ r \in Nat /\ r < Rows(t) /\ n \in Nat /\ n = Cols(t)
  /\ w \in [0 .. (n - 1) -> Nat] /\ U = Units(t, r, w)

\* What is printed of a row is as wide as the columns and the separators
\* between them, but for those at the ends of its k pieces.
LEMMA UnitsSum ==
  ASSUME NEW t, NEW r, NEW n, NEW w, NEW U, Printed(t, r, n, w, U)
  PROVE  /\ U \subseteq 0 .. (n - 1) /\ IsFiniteSet(U) /\ Cardinality(U) \in Nat
         /\ Cardinality(U) <= n
         /\ n > 0 => Cardinality(U) >= 1
         /\ NoMaster(t) => Cardinality(U) = n
         /\ SumFunction([c \in U |-> GroupWidth(w, c, UnitEnd(t, r, c))]) \in Nat
         /\ SumFunction([c \in U |-> GroupWidth(w, c, UnitEnd(t, r, c))]) + Cardinality(U)
              = Total(w, n) + n
<1>0. /\ Ready(t) /\ r \in Nat /\ r < Rows(t) /\ n \in Nat /\ n = Cols(t)
      /\ w \in [0 .. (n - 1) -> Nat] /\ U = Units(t, r, w)
  BY DEF Printed
<1> USE <1>0
<1>1. U = UnitsOf(t, r) /\ U \subseteq 0 .. (n - 1)
  BY DEF Units, UnitsOf
<1>2. PICK e : e = [c \in U |-> UnitEnd(t, r, c)]
  OBVIOUS
<1>3. PICK f : f = [c \in U |-> GroupWidth(w, c, UnitEnd(t, r, c))]
  OBVIOUS
<1>4. \A c \in U : c \in Nat /\ c < n
  BY <1>1
<1>5. \A c \in U : e[c] \in Nat /\ c <= e[c] /\ e[c] < n
  BY <1>2, <1>4, UnitIn
<1>6. \A c, d \in U : c < d => e[c] < d
  BY <1>1, <1>2, UnitsCover
<1>7. \A c \in U : f[c] = GroupWidth(w, c, e[c])
  BY <1>2, <1>3
<1>8. PICK C : C = ColumnsOf(U, e)
  OBVIOUS
<1>9. /\ Numbers(f, U) /\ IsFiniteSet(U)
      /\ SumFunctionOnSet(f, U) + Cardinality(U) = SumFunctionOnSet(w, C) + Cardinality(C)
  <2>1. Grouped(n, w, U, e, f)
    BY <1>1, <1>5, <1>6, <1>7 DEF Grouped
  <2>2. QED
    BY <1>8, <2>1, GroupsSum
<1>10. C = 0 .. (n - 1)
  <2>1. ASSUME NEW d \in C
        PROVE  d \in 0 .. (n - 1)
    <3>1. PICK c \in U : d \in c .. e[c]
      BY <1>8 DEF ColumnsOf
    <3>2. c \in Nat /\ e[c] \in Nat /\ e[c] < n
      BY <1>4, <1>5
    <3>3. QED
      BY <3>1, <3>2
  <2>2. ASSUME NEW d \in 0 .. (n - 1)
        PROVE  d \in C
    <3>1. PICK c \in U : d \in c .. UnitEnd(t, r, c)
      BY <1>1, UnitsCover
    <3>2. QED
      BY <1>2, <1>8, <3>1 DEF ColumnsOf
  <2>3. QED
    BY <2>1, <2>2
<1>11. Cardinality(0 .. (n - 1)) = n /\ IsFiniteSet(0 .. (n - 1))
  BY TotalIn
<1>12. SumFunctionOnSet(f, U) = SumFunction(f)
  BY <1>3, SumWhole
<1>13. PICK k \in Nat : k = Cardinality(U)
  BY <1>9, FS_CardinalityType
<1>14. k <= n
  BY <1>1, <1>11, <1>13, FS_Subset
<1>15. n > 0 => k >= 1
  <2>1. ASSUME n > 0
        PROVE  k # 0
    <3>1. 0 \in U
      BY <1>1, <2>1, UnitsCover
    <3>2. QED
      BY <1>9, <1>13, <3>1, FS_EmptySet
  <2>2. QED
    BY <2>1
<1>16. NoMaster(t) => k = n
  <2>1. ASSUME NoMaster(t)
        PROVE  U = 0 .. (n - 1)
    <3>1. \A c \in 0 .. (n - 1) : ~ Covered(t, r, c)
      BY <2>1, NoneCovered
    <3>2. QED
      BY <1>1, <3>1 DEF UnitsOf
  <2>2. QED
    BY <1>11, <1>13, <2>1
<1>17. PICK z \in Nat : z = SumFunction(f)
  BY <1>9, <1>12, SumType
<1>18. z + k = Total(w, n) + n
  BY <1>9, <1>10, <1>11, <1>12, <1>13, <1>17 DEF Total
<1>19. QED
  BY <1>1, <1>3, <1>9, <1>13, <1>14, <1>15, <1>16, <1>17, <1>18

\* The length of a line of row r.
LEMMA RowLengthIs ==
  ASSUME NEW t, NEW r, NEW n, NEW w, NEW U, Printed(t, r, n, w, U),
         NEW chars, chars["LL"] \in Nat, chars["RR"] \in Nat, chars["IV"] \in Nat
  PROVE  \E k \in Nat : /\ k <= n /\ (n > 0 => k >= 1) /\ (NoMaster(t) => k = n)
                        /\ RowLength(t, r, w, U, chars) =
                             MarginWidth(t) + chars["LL"] + chars["RR"] + (Total(w, n) + n - k)
                               + (IF k = 0 THEN 0 ELSE k - 1) * chars["IV"]
                        /\ RowLength(t, r, w, U, chars) \in Nat
<1>0. Ready(t) /\ n \in Nat /\ w \in [0 .. (n - 1) -> Nat]
  BY DEF Printed
<1> USE <1>0
<1>1. PICK f : f = [c \in U |-> GroupWidth(w, c, UnitEnd(t, r, c))]
  OBVIOUS
<1>2. PICK k \in Nat : k = Cardinality(U) /\ k <= n /\ (n > 0 => k >= 1) /\ (NoMaster(t) => k = n)
  BY UnitsSum
<1>3. PICK z \in Nat : z = SumFunction(f) /\ z + k = Total(w, n) + n
  <2>1. /\ SumFunction([c \in U |-> GroupWidth(w, c, UnitEnd(t, r, c))]) \in Nat
        /\ SumFunction([c \in U |-> GroupWidth(w, c, UnitEnd(t, r, c))]) + Cardinality(U)
              = Total(w, n) + n
    BY UnitsSum
  <2>2. SumFunction(f) \in Nat /\ SumFunction(f) + k = Total(w, n) + n
    BY <1>1, <1>2, <2>1, Zenon
  <2>3. QED
    BY <2>2
<1>4. PICK a \in Nat : a = Total(w, n)
  BY TotalIn
<1>5. z = a + n - k
  <2>1. z + k = a + n
    BY <1>3, <1>4
  <2>2. QED
    BY <2>1
<1>6. PICK m \in Nat : m = MarginWidth(t)
  BY GeometryIs, ColsIn
<1>7. PICK x \in Nat : x = chars["LL"]
  OBVIOUS
<1>8. PICK y \in Nat : y = chars["RR"]
  OBVIOUS
<1>9. PICK v \in Nat : v = chars["IV"]
  OBVIOUS
<1>10. PICK j \in Nat : j = Max({0, k - 1}) /\ j = IF k = 0 THEN 0 ELSE k - 1
  <2>1. k - 1 \in Int
    OBVIOUS
  <2>2. Max({0, k - 1}) \in Nat /\ Max({0, k - 1}) = IF k - 1 > 0 THEN k - 1 ELSE 0
    BY <2>1, Missing
  <2>3. QED
    BY <2>2
<1>11. RowLength(t, r, w, U, chars) = m + x + y + z + j * v
  BY <1>1, <1>2, <1>3, <1>6, <1>7, <1>8, <1>9, <1>10, Zenon DEF RowLength
<1>12. m + x + y + z + j * v \in Nat
  OBVIOUS
<1>13. /\ RowLength(t, r, w, U, chars) = MarginWidth(t) + chars["LL"] + chars["RR"]
            + (Total(w, n) + n - k) + (IF k = 0 THEN 0 ELSE k - 1) * chars["IV"]
       /\ RowLength(t, r, w, U, chars) \in Nat
  BY <1>4, <1>5, <1>6, <1>7, <1>8, <1>9, <1>10, <1>11, <1>12, Zenon
<1>14. QED
  BY <1>2, <1>13, Zenon

-----------------------------------------------------------------------------
(* The lines between the rows.                                             *)

ItemNames == {"I", "IV", "IT", "IB", "II", "L", "R"}

\* Every item of a line is one of the characters it is made of.
LEMMA ItemsIn ==
  ASSUME NEW V, NEW chars \in [BorderItems -> V], NEW sep \in [SeparatorItems -> V],
         NEW enabled \in BOOLEAN, NEW first \in BOOLEAN, NEW last \in BOOLEAN
  PROVE  SeparatorItemsAt(chars, sep, enabled, first, last) \in [ItemNames -> V]
<1>1. \A x \in {"TT", "TV", "LH", "IH", "II", "RH", "BB", "BV", "TI", "BI", "BL", "BR", "TL", "TR"} :
        chars[x] \in V
  BY DEF BorderItems
<1>2. \A x \in SeparatorItems : sep[x] \in V
  OBVIOUS
<1>3. PICK ends : ends = CASE last -> [L |-> chars["BL"], R |-> chars["BR"]]
                           [] first /\ ~ last -> [L |-> chars["TL"], R |-> chars["TR"]]
                           [] OTHER -> IF enabled
                                       THEN [L |-> sep["LH"], R |-> sep["RH"]]
                                       ELSE [L |-> chars["LH"], R |-> chars["RH"]]
  OBVIOUS
<1>4. ends \in [{"L", "R"} -> V]
  <2>1. \A x \in V, y \in V : [L |-> x, R |-> y] \in [{"L", "R"} -> V]
    OBVIOUS
  <2>2. CASE last
    BY <1>1, <1>3, <2>1, <2>2
  <2>3. CASE ~ last /\ first
    BY <1>1, <1>3, <2>1, <2>3
  <2>4. CASE ~ last /\ ~ first
    BY <1>1, <1>2, <1>3, <2>1, <2>4 DEF SeparatorItems
  <2>5. QED
    BY <2>2, <2>3, <2>4
<1>5. PICK inner :
        inner = CASE enabled -> [I  |-> sep["IH"], IV |-> sep["II"], IT |-> sep["TI"],
                                 IB |-> sep["BI"], II |-> sep["IH"]]
                  [] ~ enabled /\ first ->
                       [I  |-> chars["TT"], IV |-> chars["TV"], IT |-> chars["TV"],
                        IB |-> chars["TV"], II |-> chars["TT"]]
                  [] ~ enabled /\ ~ first /\ last ->
                       [I  |-> chars["BB"], IV |-> chars["BV"], IT |-> chars["BV"],
                        IB |-> chars["BV"], II |-> chars["BB"]]
                  [] OTHER -> [I  |-> chars["IH"], IV |-> chars["II"], IT |-> chars["TI"],
                               IB |-> chars["BI"], II |-> chars["IH"]]
  OBVIOUS
<1>6. inner \in [{"I", "IV", "IT", "IB", "II"} -> V]
  <2>1. \A a \in V, b \in V, c \in V, d \in V :
          [I |-> a, IV |-> b, IT |-> c, IB |-> d, II |-> a] \in [{"I", "IV", "IT", "IB", "II"} -> V]
    OBVIOUS
  <2>2. CASE enabled
    BY <1>2, <1>5, <2>1, <2>2 DEF SeparatorItems
  <2>3. CASE ~ enabled /\ first
    BY <1>1, <1>5, <2>1, <2>3
  <2>4. CASE ~ enabled /\ ~ first /\ last
    BY <1>1, <1>5, <2>1, <2>4
  <2>5. CASE ~ enabled /\ ~ first /\ ~ last
    BY <1>1, <1>5, <2>1, <2>5
  <2>6. QED
    BY <2>2, <2>3, <2>4, <2>5
<1>7. PICK u : u = [f \in DOMAIN inner \cup DOMAIN ends |->
                      IF f \in DOMAIN inner THEN inner[f] ELSE ends[f]]
  OBVIOUS
<1>8. SeparatorItemsAt(chars, sep, enabled, first, last) = u
  BY <1>3, <1>5, <1>7, Zenon DEF SeparatorItemsAt
<1>9. u \in [ItemNames -> V]
  <2>1. PICK A : A = {"I", "IV", "IT", "IB", "II"}
    OBVIOUS
  <2>2. PICK B : B = {"L", "R"}
    OBVIOUS
  <2>3. A \cup B = ItemNames
    BY <2>1, <2>2 DEF ItemNames
  <2>4. inner \in [A -> V] /\ ends \in [B -> V]
    BY <1>4, <1>6, <2>1, <2>2, Zenon
  <2>5. DOMAIN inner = A /\ DOMAIN ends = B
    BY <2>4
  <2>6. u = [f \in A \cup B |-> IF f \in A THEN inner[f] ELSE ends[f]]
    BY <1>7, <2>5, Zenon
  <2>7. u \in [A \cup B -> V]
    BY <2>4, <2>6
  <2>8. QED
    BY <2>3, <2>7, Zenon
<1>10. QED
  BY <1>8, <1>9

\* The junctions between the columns.
Junctions(t, i, w, items) == [c \in DOMAIN w \ {0} |-> Junction(t, i, c, items)]

\* Each is one of four items.
LEMMA JunctionIn ==
  ASSUME NEW t, NEW i, NEW c, NEW items
  PROVE  Junction(t, i, c, items) \in {items.II, items.IT, items.IB, items.IV}
  BY DEF Junction

\* A line between rows of n columns of the widths w.
Between(t, n, w, items) ==
  Ready(t) /\ n \in Nat /\ w \in [0 .. (n - 1) -> Nat] /\ items \in [ItemNames -> Nat]

\* The sum of the junctions in n columns.
LEMMA JunctionsSum ==
  ASSUME NEW t, NEW i, NEW n, NEW w, NEW items, Between(t, n, w, items)
  PROVE  /\ SumFunction(Junctions(t, i, w, items)) \in Nat
         /\ \A b \in Nat : (\A c \in 1 .. (n - 1) : Junction(t, i, c, items) = b) =>
              SumFunction(Junctions(t, i, w, items)) = (IF n = 0 THEN 0 ELSE n - 1) * b
         /\ \A b \in Nat : (\A c \in 1 .. (n - 1) : Junction(t, i, c, items) <= b) =>
              SumFunction(Junctions(t, i, w, items)) <= (IF n = 0 THEN 0 ELSE n - 1) * b
<1>0. n \in Nat /\ w \in [0 .. (n - 1) -> Nat] /\ items \in [ItemNames -> Nat]
  BY DEF Between
<1> USE <1>0
<1>1. PICK D : D = 1 .. (n - 1)
  OBVIOUS
<1>2. DOMAIN w \ {0} = D
  BY <1>1
<1>3. PICK J : J = Junctions(t, i, w, items)
  OBVIOUS
<1>4. J = [c \in D |-> Junction(t, i, c, items)]
  BY <1>2, <1>3 DEF Junctions
<1>5. IsFiniteSet(D)
  BY <1>1, FS_Interval
<1>6. Numbers(J, D)
  <2>1. ASSUME NEW c \in D
        PROVE  J[c] \in Nat
    <3>1. Junction(t, i, c, items) \in {items.II, items.IT, items.IB, items.IV}
      BY JunctionIn
    <3>2. items.II \in Nat /\ items.IT \in Nat /\ items.IB \in Nat /\ items.IV \in Nat
      BY DEF ItemNames
    <3>3. QED
      BY <1>4, <3>1, <3>2
  <2>2. QED
    BY <2>1 DEF Numbers
<1>7. PICK m \in Nat : m = Cardinality(D) /\ m = IF n = 0 THEN 0 ELSE n - 1
  <2>1. Cardinality(D) = IF 1 > n - 1 THEN 0 ELSE (n - 1) - 1 + 1
    BY <1>1, FS_Interval
  <2>2. QED
    BY <2>1
<1>8. SumFunction(J) = SumFunctionOnSet(J, D)
  BY <1>4, SumWhole
<1>9. PICK s \in Nat : s = SumFunctionOnSet(J, D)
  BY <1>5, <1>6, SumType
<1>10. ASSUME NEW b \in Nat, \A c \in 1 .. (n - 1) : Junction(t, i, c, items) = b
       PROVE  s = m * b
  <2>1. \A c \in D : J[c] = b
    BY <1>1, <1>4, <1>10
  <2>2. QED
    BY <1>5, <1>7, <1>9, <2>1, SumEqual
<1>11. ASSUME NEW b \in Nat, \A c \in 1 .. (n - 1) : Junction(t, i, c, items) <= b
       PROVE  s <= m * b
  <2>1. PICK B : B = [c \in D |-> b]
    OBVIOUS
  <2>2. Numbers(B, D) /\ \A c \in D : B[c] = b
    BY <2>1 DEF Numbers
  <2>3. \A c \in D : J[c] <= B[c]
    BY <1>1, <1>4, <1>11, <2>1
  <2>4. SumFunctionOnSet(B, D) = m * b
    BY <1>5, <1>7, <2>2, SumEqual
  <2>5. SumFunctionOnSet(J, D) <= SumFunctionOnSet(B, D)
    BY <1>5, <1>6, <2>2, <2>3, SumsCompare
  <2>6. QED
    BY <1>9, <2>4, <2>5
<1>12. QED
  BY <1>3, <1>7, <1>8, <1>9, <1>10, <1>11

\* The length of a line between rows, in numbers.
LEMMA SeparatorLengthIs ==
  ASSUME NEW t, NEW i, NEW n, NEW w, NEW items, Between(t, n, w, items)
  PROVE  \E j \in Nat :
           /\ j = SumFunction(Junctions(t, i, w, items))
           /\ SeparatorLength(t, i, w, items) =
                MarginWidth(t) + (IF n = 0 THEN 0 ELSE items.L) + items.R + j + Total(w, n) * items.I
           /\ SeparatorLength(t, i, w, items) \in Nat
<1>0. Ready(t) /\ n \in Nat /\ w \in [0 .. (n - 1) -> Nat] /\ items \in [ItemNames -> Nat]
  BY DEF Between
<1>1. PICK j \in Nat : j = SumFunction(Junctions(t, i, w, items))
  BY JunctionsSum
<1> USE <1>0
<1>2. PICK a \in Nat : a = Total(w, n) /\ a = SumFunction(w)
  BY TotalIn
<1>3. PICK m \in Nat : m = MarginWidth(t)
  BY GeometryIs, ColsIn
<1>4. PICK l \in Nat : l = items.L
  BY DEF ItemNames
<1>5. PICK r \in Nat : r = items.R
  BY DEF ItemNames
<1>6. PICK x \in Nat : x = items.I
  BY DEF ItemNames
<1>7. DOMAIN w = {} <=> n = 0
  BY TotalIn
<1>8. PICK k \in Nat : k = IF n = 0 THEN 0 ELSE l
  OBVIOUS
<1>9. SeparatorLength(t, i, w, items) = m + k + r + j + a * x
  <2>1. (IF DOMAIN w = {} THEN 0 ELSE items.L) = k
    BY <1>4, <1>7, <1>8
  <2>2. QED
    BY <1>1, <1>2, <1>3, <1>5, <1>6, <2>1, Zenon DEF SeparatorLength, Junctions
<1>10. m + k + r + j + a * x \in Nat
  OBVIOUS
<1>11. QED
  BY <1>1, <1>2, <1>3, <1>4, <1>5, <1>6, <1>8, <1>9, <1>10, Zenon

-----------------------------------------------------------------------------
(* All lines of the text.                                                  *)

\* Up to n lines from L.
UpTo(L, n) == {s \in Seq(L) : Len(s) <= n}

\* The rows up to k with the lines between them have at most one line more
\* than there are rows, and those of the rows.
LEMMA LinesIn ==
  ASSUME NEW t, Ready(t), NEW w, NEW L, NEW n \in Nat, n = Rows(t),
         \A i \in 0 .. n : print_row_separator_impl(t, i, w) \in UpTo(L, 1),
         \A r \in 0 .. (n - 1) : snprintf_row(t, r, w) \in UpTo(L, RowHeight(t, r))
  PROVE  Lines(t, w) \in UpTo(L, n + 1 + HeightsUpTo(t, n))
<1> DEFINE Sep(k) == print_row_separator_impl(t, k, w)
           Next1(x, k) == (x \o snprintf_row(t, k - 1, w)) \o Sep(k)
           Code(x, k) == (IF k = 0 THEN << >> ELSE x \o snprintf_row(t, k - 1, w)) \o Sep(k)
           a == << >> \o Sep(0)
           E == [k \in 0 .. n |-> UpTo(L, k + 1 + HeightsUpTo(t, k))]
           G == [k \in 1 .. n |-> [x \in UpTo(L, k + HeightsUpTo(t, k - 1)) |-> Next1(x, k)]]
           p == CHOOSE f : f = [k \in 0 .. n |-> Code(f[k - 1], k)]
<1>1. \A x, k : Code(x, k) = IF k = 0 THEN a ELSE Next1(x, k)
  <2> HIDE DEF Sep
  <2>1. \A x, k : k = 0 => Code(x, k) = a
    <3>1. ASSUME NEW x, NEW k, k = 0
          PROVE  Code(x, k) = a
      <4>1. (IF k = 0 THEN << >> ELSE x \o snprintf_row(t, k - 1, w)) = << >>
        BY <3>1, Zenon
      <4>2. Sep(k) = Sep(0)
        BY <3>1, Zenon
      <4>3. QED
        BY <4>1, <4>2, Zenon
    <3>2. QED
      BY <3>1, Zenon
  <2>2. \A x, k : k # 0 => Code(x, k) = Next1(x, k)
    <3>1. ASSUME NEW x, NEW k, k # 0
          PROVE  Code(x, k) = Next1(x, k)
      <4>1. (IF k = 0 THEN << >> ELSE x \o snprintf_row(t, k - 1, w))
              = x \o snprintf_row(t, k - 1, w)
        BY <3>1, Zenon
      <4>2. QED
        BY <4>1, Zenon
    <3>2. QED
      BY <3>1, Zenon
  <2> HIDE DEF Code, a, Next1
  <2>3. QED
    BY <2>1, <2>2, Zenon
<1>2. a \in E[0]
  <2>1. PICK s \in Seq(L) : s = Sep(0) /\ Len(s) <= 1
    BY DEF UpTo
  <2>2. << >> \o s = s
    OBVIOUS
  <2>3. HeightsUpTo(t, 0) = 0
    BY HeightsIn
  <2>4. 0 \in 0 .. n /\ 0 + 1 + 0 = 1
    OBVIOUS
  <2>5. E[0] = UpTo(L, 1)
    BY <2>3, <2>4
  <2>6. a = s
    BY <2>1, <2>2
  <2>7. s \in UpTo(L, 1)
    BY <2>1 DEF UpTo
  <2>8. QED
    BY <2>5, <2>6, <2>7
<1>3. ASSUME NEW k \in 1 .. n, NEW x \in E[k - 1]
      PROVE  Next1(x, k) \in E[k] /\ G[k][x] = Next1(x, k)
  <2>1. PICK j \in Nat : j = k - 1 /\ k = j + 1 /\ j < n
    OBVIOUS
  <2>2. j \in 0 .. n /\ k \in 0 .. n /\ j \in 0 .. (n - 1)
    BY <2>1
  <2>3. PICK h \in Nat : h = HeightsUpTo(t, j)
    BY <2>1, HeightsIn
  <2>4. PICK g \in Nat : g = RowHeight(t, j)
    BY <2>1, RowHeightIn
  <2>5. HeightsUpTo(t, k) = h + g
    BY <2>1, <2>3, <2>4, HeightsIn
  <2>6. E[j] = UpTo(L, j + 1 + h) /\ E[k] = UpTo(L, k + 1 + (h + g))
    BY <2>2, <2>3, <2>5
  <2>7. PICK y \in Seq(L) : y = x /\ Len(y) <= j + 1 + h
    BY <2>1, <2>6 DEF UpTo
  <2>8. PICK s \in Seq(L) : s = Sep(k) /\ Len(s) <= 1
    BY <2>2 DEF UpTo
  <2>9. PICK r \in Seq(L) : r = snprintf_row(t, j, w) /\ Len(r) <= g
    BY <2>2, <2>4 DEF UpTo
  <2>10. Next1(x, k) = (y \o r) \o s
    BY <2>1, <2>7, <2>8, <2>9
  <2>11. PICK b \in Nat : b = Len(y)
    OBVIOUS
  <2>12. PICK c \in Nat : c = Len(r)
    OBVIOUS
  <2>13. PICK d \in Nat : d = Len(s)
    OBVIOUS
  <2>14. PICK z \in Seq(L) : z = y \o r /\ Len(z) = b + c
    <3>1. y \o r \in Seq(L) /\ Len(y \o r) = b + c
      BY <2>11, <2>12
    <3>2. QED
      BY <3>1
  <2>15. PICK v \in Seq(L) : v = z \o s /\ Len(v) = b + c + d
    <3>1. PICK m \in Nat : m = b + c /\ Len(z) = m
      BY <2>14
    <3>2. z \o s \in Seq(L) /\ Len(z \o s) = Len(z) + Len(s)
      OBVIOUS
    <3>3. Len(z \o s) = m + d
      BY <2>13, <3>1, <3>2, Zenon
    <3>4. QED
      BY <3>1, <3>2, <3>3
  <2>16. b + c + d <= k + 1 + (h + g)
    BY <2>1, <2>7, <2>8, <2>9, <2>11, <2>12, <2>13
  <2>17. v \in UpTo(L, k + 1 + (h + g))
    BY <2>15, <2>16 DEF UpTo
  <2>18. Next1(x, k) \in E[k]
    BY <2>6, <2>10, <2>14, <2>15, <2>17
  <2>19. G[k] = [q \in UpTo(L, k + HeightsUpTo(t, k - 1)) |-> Next1(q, k)]
    OBVIOUS
  <2>20. x \in UpTo(L, k + HeightsUpTo(t, k - 1))
    <3>1. x \in UpTo(L, j + 1 + h)
      BY <2>1, <2>6
    <3>2. j + 1 + h = k + HeightsUpTo(t, k - 1)
      BY <2>1, <2>3
    <3>3. QED
      BY <3>1, <3>2
  <2> HIDE DEF Next1, G, E
  <2>21. G[k][x] = Next1(x, k)
    BY <2>19, <2>20
  <2>22. QED
    BY <2>18, <2>21
<1> HIDE DEF E, G, Next1, Code, a
<1>4. PICK f : Follows(f, n, a, G, E)
  <2>1. Leads(n, E, G)
    BY <1>3 DEF Leads
  <2>2. QED
    BY <1>2, <2>1, Recursion
<1>5. ASSUME NEW k \in 0 .. n
      PROVE  (IF k = 0 THEN a ELSE G[k][f[k - 1]]) = Code(f[k - 1], k)
  <2>1. CASE k # 0
    <3>1. k \in 1 .. n /\ k - 1 \in 0 .. n
      BY <2>1
    <3>2. f[k - 1] \in E[k - 1]
      BY <1>4, <3>1 DEF Follows
    <3>3. G[k][f[k - 1]] = Next1(f[k - 1], k)
      BY <1>3, <3>1, <3>2
    <3>4. QED
      BY <1>1, <2>1, <3>3, Zenon
  <2>2. QED
    BY <1>1, <2>1, Zenon
<1>6. f = [k \in 0 .. n |-> IF k = 0 THEN a ELSE G[k][f[k - 1]]]
  BY <1>4 DEF Follows
<1>7. f = [k \in 0 .. n |-> Code(f[k - 1], k)]
  BY <1>5, <1>6, Zenon
<1>8. p = [k \in 0 .. n |-> Code(p[k - 1], k)]
  BY <1>7, Zenon
<1>9. Lines(t, w) = p[n]
  BY Zenon DEF Lines, Code
<1> HIDE DEF p
<1>10. p[0] \in E[0]
  <2>1. 0 \in 0 .. n
    OBVIOUS
  <2>2. p[0] = Code(p[0 - 1], 0)
    BY <1>8, <2>1
  <2>3. Code(p[0 - 1], 0) = a
    BY <1>1, Zenon
  <2>4. QED
    BY <1>2, <2>2, <2>3
<1>11. ASSUME NEW k \in 1 .. n, p[k - 1] \in E[k - 1]
       PROVE  p[k] \in E[k]
  <2>1. k \in 0 .. n /\ k # 0
    OBVIOUS
  <2>2. p[k] = Code(p[k - 1], k)
    BY <1>8, <2>1
  <2>3. Code(p[k - 1], k) = Next1(p[k - 1], k)
    BY <1>1, <2>1, Zenon
  <2>4. QED
    BY <1>3, <1>11, <2>2, <2>3
<1>12. \A k \in 0 .. n : p[k] \in E[k]
  BY <1>10, <1>11, Reached
<1>13. p[n] \in UpTo(L, n + 1 + HeightsUpTo(t, n))
  BY <1>12 DEF E
<1>14. QED
  BY <1>9, <1>13

\* A table without columns has no lines of rows.
LEMMA NoColumns ==
  ASSUME NEW t, Cols(t) = 0, NEW r
  PROVE  RowHeight(t, r) = 0
<1>1. 0 .. (Cols(t) - 1) = {}
  OBVIOUS
<1>2. {IF HasCell(t, r, c) THEN hint_height_cell(t, r, c) ELSE NoCellHeight(t, r, c) :
         c \in 0 .. (Cols(t) - 1)} = {}
  BY <1>1
<1>3. {0} \cup {} = {0} /\ Max({0}) = 0
  BY DEF Max
<1>4. QED
  BY <1>2, <1>3 DEF RowHeight

\* The lines of a row are from L if the one they are all alike is.
LEMMA RowLinesIn ==
  ASSUME NEW t, Ready(t), NEW r \in Nat, r < Rows(t), NEW w, NEW L,
         NEW chars, chars = CharsAt(t, IsHeader(t, r)), NEW U, U = Units(t, r, w),
         RowHeight(t, r) = 0 \/
           Line(RowLength(t, r, w, U, OnScreen(chars)),
                RowLength(t, r, w, U, chars) + RowTags(t, r, U)) \in L
  PROVE  snprintf_row(t, r, w) \in UpTo(L, RowHeight(t, r))
<1>1. PICK h \in Nat : h = RowHeight(t, r)
  BY RowHeightIn
<1>2. PICK l : l = Line(RowLength(t, r, w, U, OnScreen(chars)),
                        RowLength(t, r, w, U, chars) + RowTags(t, r, U))
  OBVIOUS
<1>3. PICK s : s = [k \in 1 .. h |-> l]
  OBVIOUS
<1>4. snprintf_row(t, r, w) = s
  BY <1>1, <1>2, <1>3, Zenon DEF snprintf_row, RowLines
<1>5. s \in Seq(L) /\ Len(s) = h
  BY <1>1, <1>2, <1>3
<1>6. s \in UpTo(L, h)
  BY <1>5 DEF UpTo
<1>7. QED
  BY <1>1, <1>4, <1>6

-----------------------------------------------------------------------------
(* The lines are as wide as one another.                                   *)

NoSlave(t) ==
  \A r \in 0 .. (Rows(t) - 1), c \in 0 .. (Cols(t) - 1) : CellType(t, r, c) # "SLAVE"

\* What every line takes on the screen.
ScreenWidth(t, w, n, side, bar) ==
  IF n = 0 THEN MarginWidth(t) + side
  ELSE MarginWidth(t) + 2 * side + Total(w, n) + (n - 1) * bar

\* A character is shown or not.
LEMMA ShownIn ==
  ASSUME NEW x
  PROVE  Shown(x) \in {0, 1}
  BY DEF Shown

\* What the items of a style have to do with one another.
LEMMA EvenChars ==
  ASSUME NEW style, EvenStyle(style), NEW chars \in {style.body, style.header},
         NEW enabled \in BOOLEAN, NEW first \in BOOLEAN, NEW last \in BOOLEAN
  PROVE  /\ Shown(chars["LL"]) = Shown(style.body["LL"])
         /\ Shown(chars["RR"]) = Shown(style.body["LL"])
         /\ Shown(chars["IV"]) = Shown(style.body["IV"])
         /\ EvenItems(SeparatorItemsAt(chars, style.sep, enabled, first, last),
                      Shown(style.body["LL"]), Shown(style.body["IV"]))
  BY Zenon DEF EvenStyle

\* The characters of a line.
LEMMA CharsIn ==
  ASSUME NEW t, Printable(t), NEW header
  PROVE  /\ CharsAt(t, header) \in {t.border_style.body, t.border_style.header}
         /\ CharsAt(t, header) \in [BorderItems -> Nat]
         /\ t.border_style.sep \in [SeparatorItems -> Nat]
  BY DEF CharsAt, Printable, TypedStyle

\* A line of a row is that wide.
LEMMA RowAligned ==
  ASSUME NEW t, NEW r, NEW n, NEW w, NEW U, Printed(t, r, n, w, U), n > 0,
         NEW chars \in [BorderItems -> Nat], NEW side \in {0, 1}, NEW bar \in {0, 1},
         Shown(chars["LL"]) = side, Shown(chars["RR"]) = side, Shown(chars["IV"]) = bar,
         bar = 1 \/ NoMaster(t)
  PROVE  /\ RowLength(t, r, w, U, OnScreen(chars)) = ScreenWidth(t, w, n, side, bar)
         /\ ScreenWidth(t, w, n, side, bar) \in Nat
<1>1. Ready(t) /\ n \in Nat /\ w \in [0 .. (n - 1) -> Nat]
  BY DEF Printed
<1>2. PICK x : x = OnScreen(chars)
  OBVIOUS
<1>3. x["LL"] = side /\ x["RR"] = side /\ x["IV"] = bar
  BY <1>2 DEF OnScreen, BorderItems
<1>4. PICK k \in Nat :
        /\ k <= n /\ (n > 0 => k >= 1) /\ (NoMaster(t) => k = n)
        /\ RowLength(t, r, w, U, x) =
             MarginWidth(t) + x["LL"] + x["RR"] + (Total(w, n) + n - k)
               + (IF k = 0 THEN 0 ELSE k - 1) * x["IV"]
  <2>1. x["LL"] \in Nat /\ x["RR"] \in Nat /\ x["IV"] \in Nat
    BY <1>3
  <2>2. QED
    BY <2>1, RowLengthIs
<1>5. PICK m \in Nat : m = MarginWidth(t)
  BY <1>1, GeometryIs, ColsIn
<1>6. PICK a \in Nat : a = Total(w, n)
  BY <1>1, TotalIn
<1>7. k >= 1
  BY <1>4
<1>8. RowLength(t, r, w, U, x) = m + side + side + (a + n - k) + (k - 1) * bar
  <2>1. (IF k = 0 THEN 0 ELSE k - 1) = k - 1
    BY <1>7
  <2>2. QED
    BY <1>3, <1>4, <1>5, <1>6, <2>1, Zenon
<1>9. ScreenWidth(t, w, n, side, bar) = m + 2 * side + a + (n - 1) * bar
  BY <1>5, <1>6 DEF ScreenWidth
<1>10. n \in Nat /\ side \in Nat
  BY <1>1
<1>11. CASE bar = 1
  <2>1. (k - 1) * bar = k - 1 /\ (n - 1) * bar = n - 1
    BY <1>10, <1>11
  <2>2. m + side + side + (a + n - k) + (k - 1) = m + 2 * side + a + (n - 1)
    BY <1>10
  <2>3. m + 2 * side + a + (n - 1) \in Nat
    BY <1>10
  <2>4. QED
    BY <1>2, <1>8, <1>9, <2>1, <2>2, <2>3, Zenon
<1>12. CASE bar = 0
  <2>1. k = n
    BY <1>4, <1>12
  <2>2. (k - 1) * bar = 0 /\ (n - 1) * bar = 0
    BY <1>10, <1>12
  <2>3. m + side + side + (a + n - k) + 0 = m + 2 * side + a + 0
    BY <1>10, <2>1
  <2>4. m + 2 * side + a + 0 \in Nat
    BY <1>10
  <2>5. QED
    BY <1>2, <1>8, <1>9, <2>2, <2>3, <2>4, Zenon
<1>13. QED
  BY <1>11, <1>12

\* Where no cell is a slave, no junction is that between two slaves.
LEMMA JunctionOpen ==
  ASSUME NEW t, Ready(t), NoSlave(t), Rows(t) > 0, NEW i \in 0 .. Rows(t),
         NEW c \in 1 .. (Cols(t) - 1), NEW items
  PROVE  Junction(t, i, c, items) \in {items.IT, items.IB, items.IV}
<1>1. PICK n \in Nat : n = Rows(t)
  BY ColsIn
<1>2. PICK m \in Nat : m = Cols(t)
  BY ColsIn
<1>3. \A r \in 0 .. (n - 1) : CellType(t, r, c) # "SLAVE"
  BY <1>1, <1>2 DEF NoSlave
<1>4. i - 1 \in 0 .. (n - 1) \/ i \in 0 .. (n - 1)
  BY <1>1
<1>5. QED
  BY <1>1, <1>3, <1>4 DEF Junction

\* The junctions are as wide as the bars between cells.
LEMMA JunctionEven ==
  ASSUME NEW t, Ready(t), Rows(t) > 0, NEW i \in 0 .. Rows(t), NEW c \in 1 .. (Cols(t) - 1),
         NEW items, NEW bar \in {0, 1}, items.IV = bar, items.IT = bar, items.IB = bar,
         bar = 1 => items.II = 1, bar = 1 \/ NoSlave(t)
  PROVE  Junction(t, i, c, items) = bar
<1>1. CASE bar = 1
  BY <1>1, JunctionIn
<1>2. CASE bar # 1
  BY <1>2, JunctionOpen
<1>3. QED
  BY <1>1, <1>2

\* The items of a line that is printed have ends, and bars, as told.
Evenly(items, side, bar) ==
  /\ Shown(items.L) = side /\ Shown(items.R) = side /\ items.I > 0
  /\ \A f \in {"IV", "IT", "IB"} : Shown(items[f]) = bar
  /\ bar = 1 => items.II > 0

\* A line between rows that is printed is that wide.
LEMMA SeparatorAligned ==
  ASSUME NEW t, NEW n, NEW w, NEW items, Between(t, n, w, items), n = Cols(t), Rows(t) > 0,
         NEW i \in 0 .. Rows(t), NEW side \in {0, 1}, NEW bar \in {0, 1},
         Evenly(items, side, bar), bar = 1 \/ NoSlave(t)
  PROVE  SeparatorLength(t, i, w, OnScreen(items)) = ScreenWidth(t, w, n, side, bar)
<1>0. /\ Ready(t) /\ n \in Nat /\ w \in [0 .. (n - 1) -> Nat] /\ items \in [ItemNames -> Nat]
      /\ Shown(items.L) = side /\ Shown(items.R) = side /\ items.I > 0
      /\ \A f \in {"IV", "IT", "IB"} : Shown(items[f]) = bar
      /\ bar = 1 => items.II > 0
  BY DEF Between, Evenly
<1> USE <1>0
<1>1. PICK x : x = OnScreen(items)
  OBVIOUS
<1>2. x = [f \in ItemNames |-> Shown(items[f])]
  BY <1>1 DEF OnScreen
<1>3. x \in [ItemNames -> Nat]
  <2>1. \A f \in ItemNames : Shown(items[f]) \in Nat
    BY SMTT(30), ShownIn
  <2>2. QED
    BY <1>2, <2>1
<1>4. /\ x.L = side /\ x.R = side /\ x.I = 1 /\ x.IV = bar /\ x.IT = bar /\ x.IB = bar
      /\ bar = 1 => x.II = 1
  <2>1. /\ "L" \in ItemNames /\ "R" \in ItemNames /\ "I" \in ItemNames /\ "IV" \in ItemNames
        /\ "IT" \in ItemNames /\ "IB" \in ItemNames /\ "II" \in ItemNames
    BY DEF ItemNames
  <2>2. Shown(items.I) = 1 /\ (bar = 1 => Shown(items.II) = 1)
    BY DEF Shown
  <2>3. QED
    BY <1>2, <2>1, <2>2
<1>5. PICK j \in Nat :
        /\ j = SumFunction(Junctions(t, i, w, x))
        /\ SeparatorLength(t, i, w, x) =
             MarginWidth(t) + (IF n = 0 THEN 0 ELSE x.L) + x.R + j + Total(w, n) * x.I
  <2>1. Between(t, n, w, x)
    BY <1>3 DEF Between
  <2>2. QED
    BY SMTT(30), <2>1, SeparatorLengthIs
<1>6. j = (IF n = 0 THEN 0 ELSE n - 1) * bar
  <2>1. \A c \in 1 .. (n - 1) : Junction(t, i, c, x) = bar
    BY <1>4, JunctionEven
  <2>2. bar \in Nat
    OBVIOUS
  <2>3. Between(t, n, w, x)
    BY <1>3 DEF Between
  <2>4. QED
    BY <1>5, <2>1, <2>2, <2>3, JunctionsSum
<1>7. PICK m \in Nat : m = MarginWidth(t)
  BY GeometryIs, ColsIn
<1>8. PICK a \in Nat : a = Total(w, n)
  BY TotalIn
<1>9. SeparatorLength(t, i, w, x) = m + (IF n = 0 THEN 0 ELSE side) + side + j + a
  <2>1. a * 1 = a
    OBVIOUS
  <2>2. QED
    BY <1>4, <1>5, <1>7, <1>8, <2>1, Zenon
<1>10. CASE n = 0
  <2>1. a = 0
    <3>1. 0 .. (n - 1) = {}
      BY <1>10
    <3>2. QED
      BY <1>8, <3>1, SumEmpty DEF Total
  <2>2. j = 0
    BY <1>6, <1>10
  <2>3. QED
    BY <1>1, <1>7, <1>9, <1>10, <2>1, <2>2 DEF ScreenWidth
<1>11. CASE n # 0
  <2>1. PICK b \in Nat : b = (n - 1) * bar /\ b = j
    BY <1>6, <1>11
  <2>2. m + side + side + b + a = m + 2 * side + a + b
    OBVIOUS
  <2>3. ScreenWidth(t, w, n, side, bar) = m + 2 * side + a + b
    BY <1>7, <1>8, <1>11, <2>1 DEF ScreenWidth
  <2>4. QED
    BY <1>1, <1>9, <1>11, <2>1, <2>2, <2>3
<1>12. QED
  BY <1>10, <1>11

\* The lines of a separator are from L if the one that would print is.
LEMMA SeparatorLineIn ==
  ASSUME NEW t, NEW i, NEW w, NEW L, NEW items,
         (\A f \in {"L", "I", "IV", "R"} : items[f] = 0)
           \/ Line(SeparatorLength(t, i, w, OnScreen(items)), SeparatorLength(t, i, w, items)) \in L
  PROVE  SeparatorLine(t, i, w, items) \in UpTo(L, 1)
<1>1. PICK l : l = Line(SeparatorLength(t, i, w, OnScreen(items)), SeparatorLength(t, i, w, items))
  OBVIOUS
<1>2. << >> \in UpTo(L, 1)
  BY DEF UpTo
<1>3. l \in L => <<l>> \in UpTo(L, 1)
  BY DEF UpTo
<1>4. CASE \A f \in {"L", "I", "IV", "R"} : items[f] = 0
  BY <1>2, <1>4 DEF SeparatorLine
<1>5. CASE ~ \A f \in {"L", "I", "IV", "R"} : items[f] = 0
  <2>1. SeparatorLine(t, i, w, items) = <<l>>
    BY <1>1, <1>5, Zenon DEF SeparatorLine
  <2>2. QED
    BY <1>1, <1>3, <1>5, <2>1
<1>6. QED
  BY <1>4, <1>5

\* The items of the separator above row i.
ItemsAbove(t, i) ==
  SeparatorItemsAt(CharsAt(t, IsHeader(t, i - 1) \/ IsHeader(t, i)), t.border_style.sep,
                   SepEnabled(t, i), i = 0, i = Rows(t))

\* They are those of one of the two kinds of rows.
LEMMA ItemsAboveIs ==
  ASSUME NEW t, Printable(t), NEW i
  PROVE  /\ print_row_separator_impl(t, i, col_width_arr(t, "VISIBLE"))
              = SeparatorLine(t, i, col_width_arr(t, "VISIBLE"), ItemsAbove(t, i))
         /\ ItemsAbove(t, i) \in [ItemNames -> Nat]
         /\ ItemsAbove(t, i) \in [ItemNames -> 0 .. max_border_elem_strlen(t.border_style)]
         /\ \E chars \in {t.border_style.body, t.border_style.header},
               enabled, first, last \in BOOLEAN :
              ItemsAbove(t, i) = SeparatorItemsAt(chars, t.border_style.sep, enabled, first, last)
<1>1. PICK chars : chars = CharsAt(t, IsHeader(t, i - 1) \/ IsHeader(t, i))
  OBVIOUS
<1>2. /\ chars \in {t.border_style.body, t.border_style.header}
      /\ chars \in [BorderItems -> Nat] /\ t.border_style.sep \in [SeparatorItems -> Nat]
  BY <1>1, CharsIn
<1>3. PICK e \in BOOLEAN : e = SepEnabled(t, i)
  BY DEF SepEnabled
<1>4. PICK a \in BOOLEAN : a = (i = 0)
  OBVIOUS
<1>5. PICK b \in BOOLEAN : b = (i = Rows(t))
  OBVIOUS
<1>6. ItemsAbove(t, i) = SeparatorItemsAt(chars, t.border_style.sep, e, a, b)
  BY <1>1, <1>3, <1>4, <1>5 DEF ItemsAbove
<1>7. ItemsAbove(t, i) \in [ItemNames -> Nat]
  <2>1. PICK sep \in [SeparatorItems -> Nat] : sep = t.border_style.sep
    BY <1>2
  <2>2. chars \in [BorderItems -> Nat]
    BY <1>2
  <2>3. SeparatorItemsAt(chars, sep, e, a, b) \in [ItemNames -> Nat]
    BY <2>2, ItemsIn
  <2>4. QED
    BY <1>6, <2>1, <2>3
<1>8. ItemsAbove(t, i) \in [ItemNames -> 0 .. max_border_elem_strlen(t.border_style)]
  <2>1. PICK s \in Nat : s = max_border_elem_strlen(t.border_style)
    BY LongestItem DEF Printable
  <2>2. PICK V : V = 0 .. s
    OBVIOUS
  <2>3. PICK sep \in [SeparatorItems -> V] : sep = t.border_style.sep
    BY <1>2, <2>1, <2>2, LongestItem DEF Printable
  <2>4. chars \in [BorderItems -> V]
    <3>1. \A x \in BorderItems : chars[x] \in V
      BY <1>2, <2>1, <2>2, LongestItem DEF Printable
    <3>2. QED
      BY <1>2, <3>1
  <2>5. SeparatorItemsAt(chars, sep, e, a, b) \in [ItemNames -> V]
    BY <2>4, ItemsIn
  <2>6. QED
    BY <1>6, <2>1, <2>2, <2>3, <2>5
<1>9. print_row_separator_impl(t, i, col_width_arr(t, "VISIBLE"))
        = SeparatorLine(t, i, col_width_arr(t, "VISIBLE"), ItemsAbove(t, i))
  BY Zenon DEF print_row_separator_impl, ItemsAbove
<1>10. QED
  BY <1>2, <1>6, <1>7, <1>8, <1>9

\* The tags in a line of row r: none without tags, and without spans there is
\* room for them in the estimate.
LEMMA RowTagsIn ==
  ASSUME NEW t, NEW r, NEW n, NEW w, NEW U, Printed(t, r, n, w, U),
         NEW v \in [0 .. (n - 1) -> Nat], v = col_width_arr(t, "INTERN"),
         w = col_width_arr(t, "VISIBLE")
  PROVE  /\ RowTags(t, r, U) \in Nat
         /\ Untagged(t) => RowTags(t, r, U) = 0
         /\ NoMaster(t) => Total(w, n) + RowTags(t, r, U) <= Total(v, n)
<1>0. /\ Ready(t) /\ r \in Nat /\ r < Rows(t) /\ n \in Nat /\ n = Cols(t)
      /\ w \in [0 .. (n - 1) -> Nat] /\ U \subseteq 0 .. (n - 1)
  BY UnitsSum DEF Printed
<1>1. PICK D : D = 0 .. (n - 1)
  OBVIOUS
<1>2. PICK A : A = {d \in U : HasCell(t, r, d)}
  OBVIOUS
<1>3. PICK f : f = [c \in A |-> cell_invis_codes_width(t, r, c)]
  OBVIOUS
<1>4. IsFiniteSet(D) /\ A \in SUBSET D
  <2>1. IsFiniteSet(D)
    BY <1>0, <1>1, FS_Interval
  <2>2. QED
    BY <1>0, <1>1, <1>2, <2>1
<1>5. IsFiniteSet(A) /\ IsFiniteSet(D \ A)
  BY <1>4, FS_Subset
<1>6. \A c \in A : f[c] = cell_invis_codes_width(t, r, c) /\ f[c] \in Nat
  BY <1>0, <1>3, TagsIn DEF Ready
<1>7. Numbers(f, A)
  BY <1>6 DEF Numbers
<1>8. RowTags(t, r, U) = SumFunctionOnSet(f, A)
  <2>1. RowTags(t, r, U) = SumFunction(f)
    BY <1>2, <1>3, Zenon DEF RowTags
  <2>2. QED
    BY <1>3, <2>1, SumWhole
<1>9. PICK z \in Nat : z = SumFunctionOnSet(f, A)
  BY <1>5, <1>7, SumType
<1>10. ASSUME Untagged(t)
       PROVE  z = 0
  <2>1. \A c \in A : f[c] = 0
    <3>1. ASSUME NEW c \in A
          PROVE  f[c] = 0
      <4>1. PICK q \in Nat : q = Rows(t)
        BY <1>0, ColsIn
      <4>2. <<r, c>> \in AllCells(t)
        BY <1>0, <1>2, <1>4, <3>1, <4>1, <1>1 DEF AllCells
      <4>3. cell_invis_codes_width(t, r, c) = 0
        BY <1>10, <4>2 DEF Untagged
      <4>4. QED
        BY <1>6, <4>3
    <3>2. QED
      BY <3>1
  <2>2. SumFunctionOnSet(f, A) = Cardinality(A) * 0
    BY <1>5, <2>1, SumEqual
  <2>3. Cardinality(A) \in Nat
    BY <1>5, FS_CardinalityType
  <2>4. QED
    BY <1>9, <2>2, <2>3
<1>11. ASSUME NoMaster(t)
       PROVE  Total(w, n) + z <= Total(v, n)
  <2>1. PICK g : g = [c \in D |-> IF c \in A THEN f[c] ELSE 0]
    OBVIOUS
  <2>2. /\ Numbers(g, D) /\ \A c \in A : f[c] = g[c]
        /\ \A c \in D \ A : g[c] = 0
    BY <1>4, <1>6, <2>1 DEF Numbers
  <2>3. SumFunctionOnSet(f, A) = SumFunctionOnSet(g, A)
    BY <1>5, <1>7, <2>2, SumsSame
  <2>4. SumFunctionOnSet(g, D \ A) = 0
    <3>1. SumFunctionOnSet(g, D \ A) = Cardinality(D \ A) * 0
      BY <1>5, <2>2, SumEqual
    <3>2. Cardinality(D \ A) \in Nat
      BY <1>5, FS_CardinalityType
    <3>3. QED
      BY <3>1, <3>2
  <2>5. SumFunctionOnSet(g, D) = z
    <3>1. A \cup (D \ A) = D /\ A \cap (D \ A) = {}
      BY <1>4
    <3>2. Numbers(g, A \cup (D \ A))
      BY <2>2, <3>1
    <3>3. SumFunctionOnSet(g, A \cup (D \ A))
            = SumFunctionOnSet(g, A) + SumFunctionOnSet(g, D \ A)
      BY <1>5, <3>1, <3>2, SumUnion
    <3>4. z + 0 = z
      OBVIOUS
    <3>5. QED
      BY <1>9, <2>3, <2>4, <3>1, <3>3, <3>4, Zenon
  <2>6. PICK h : h = [c \in D |-> w[c] + g[c]]
    OBVIOUS
  <2>7. Numbers(w, D) /\ Numbers(v, D)
    BY <1>0, <1>1 DEF Numbers
  <2>8. Numbers(h, D) /\ \A c \in D : h[c] = w[c] + g[c]
    BY <2>2, <2>6, <2>7 DEF Numbers
  <2>9. SumFunctionOnSet(h, D) = SumFunctionOnSet(w, D) + SumFunctionOnSet(g, D)
    BY <1>4, <2>2, <2>7, <2>8, SumPlus
  <2>10. \A c \in D : h[c] <= v[c]
    <3>1. ASSUME NEW c \in D
          PROVE  h[c] <= v[c]
      <4>1. w[c] <= v[c]
        BY <1>0, <1>1, <1>11, TagsEstimated
      <4>2. PICK x \in Nat : x = w[c]
        BY <2>7 DEF Numbers
      <4>3. PICK y \in Nat : y = v[c]
        BY <2>7 DEF Numbers
      <4>4. CASE c \in A
        <5>1. r \in RowsWith(t, c)
          <6>1. PICK q \in Nat : q = Rows(t)
            BY <1>0, ColsIn
          <6>2. QED
            BY <1>0, <1>2, <4>4, <6>1 DEF RowsWith
        <5>2. w[c] + cell_invis_codes_width(t, r, c) <= v[c]
          BY <1>0, <1>1, <1>11, <5>1, TagsEstimated
        <5>3. g[c] = cell_invis_codes_width(t, r, c)
          BY <1>6, <2>2, <4>4
        <5>4. QED
          BY <2>8, <5>2, <5>3
      <4>5. CASE c \notin A
        <5>1. g[c] = 0
          BY <2>2, <4>5
        <5>2. QED
          BY <2>8, <4>1, <4>2, <4>3, <5>1
      <4>6. QED
        BY <4>4, <4>5
    <3>2. QED
      BY <3>1
  <2>11. SumFunctionOnSet(h, D) <= SumFunctionOnSet(v, D)
    BY <1>4, <2>7, <2>8, <2>10, SumsCompare
  <2>12. QED
    BY <1>1, <2>5, <2>9, <2>11 DEF Total
<1>12. QED
  BY <1>8, <1>9, <1>10, <1>11

\* In a table whose style is even, and has bars where there are spans, all
\* lines take the same on the screen.
LEMMA AlignedLines ==
  ASSUME NEW t, Ready(t), Rows(t) > 0, EvenStyle(t.border_style),
         t.border_style.body["IV"] > 0 \/ (NoMaster(t) /\ NoSlave(t))
  PROVE  \E K \in Nat : TextLines(t) \in Seq([cols : {K}, bytes : Nat])
<1>1. PICK n \in Nat : n = Cols(t)
  BY ColsIn
<1>2. PICK m \in Nat : m = Rows(t)
  BY ColsIn
<1>3. PICK w : w = col_width_arr(t, "VISIBLE")
  OBVIOUS
<1>4. w \in [0 .. (n - 1) -> Nat]
  BY <1>1, <1>3, WidthsServe
<1>5. PICK v : v = col_width_arr(t, "INTERN")
  OBVIOUS
<1>6. v \in [0 .. (n - 1) -> Nat]
  BY <1>1, <1>5, WidthsServe
<1>7. PICK side \in {0, 1} : side = Shown(t.border_style.body["LL"])
  BY ShownIn
<1>8. PICK bar \in {0, 1} : bar = Shown(t.border_style.body["IV"])
  BY ShownIn
<1>9. bar = 1 \/ (NoMaster(t) /\ NoSlave(t))
  BY <1>8 DEF Shown
<1>10. Printable(t)
  BY DEF Ready
<1>11. PICK K : K = ScreenWidth(t, w, n, side, bar)
  OBVIOUS
<1>12. K \in Nat
  <2>1. PICK a \in Nat : a = Total(w, n)
    BY <1>4, TotalIn
  <2>2. PICK b \in Nat : b = MarginWidth(t)
    BY <1>1, <1>2, GeometryIs
  <2>3. K = IF n = 0 THEN b + side ELSE b + 2 * side + a + (n - 1) * bar
    BY <1>11, <2>1, <2>2 DEF ScreenWidth
  <2>4. CASE n = 0
    BY <2>3, <2>4
  <2>5. CASE n # 0
    <3>1. PICK j \in Nat : j = (n - 1) * bar
      BY <2>5
    <3>2. QED
      BY <2>3, <2>5, <3>1
  <2>6. QED
    BY <2>4, <2>5
<1>13. PICK L : L = [cols : {K}, bytes : Nat]
  OBVIOUS
<1>14. \A b \in Nat : Line(K, b) \in L
  BY <1>13 DEF Line
<1>15. ASSUME NEW i \in 0 .. m
       PROVE  print_row_separator_impl(t, i, w) \in UpTo(L, 1)
  <2>1. PICK items \in [ItemNames -> Nat] : items = ItemsAbove(t, i)
    BY <1>10, ItemsAboveIs
  <2>2. print_row_separator_impl(t, i, w) = SeparatorLine(t, i, w, items)
    BY <1>3, <1>10, <2>1, ItemsAboveIs
  <2>3. EvenItems(items, side, bar)
    BY <1>7, <1>8, <1>10, <2>1, ItemsAboveIs, EvenChars
  <2>4. ASSUME ~ \A f \in {"L", "I", "IV", "R"} : items[f] = 0
        PROVE  Line(SeparatorLength(t, i, w, OnScreen(items)), SeparatorLength(t, i, w, items)) \in L
    <3>1. Evenly(items, side, bar)
      BY <2>3, <2>4 DEF EvenItems, Evenly
    <3>2. Between(t, n, w, items)
      BY <1>4 DEF Between
    <3>3. SeparatorLength(t, i, w, OnScreen(items)) = K
      <4>1. i \in 0 .. Rows(t)
        BY <1>2
      <4>2. QED
        BY <1>1, <1>9, <1>11, <3>1, <3>2, <4>1, SeparatorAligned
    <3>4. SeparatorLength(t, i, w, items) \in Nat
      BY <3>2, SeparatorLengthIs
    <3>5. QED
      BY <1>14, <3>3, <3>4
  <2>5. QED
    BY <2>2, <2>4, SeparatorLineIn
<1>16. ASSUME NEW r \in 0 .. (m - 1)
       PROVE  snprintf_row(t, r, w) \in UpTo(L, RowHeight(t, r))
  <2>1. PICK U : U = Units(t, r, w)
    OBVIOUS
  <2>2. PICK chars \in [BorderItems -> Nat] :
          chars = CharsAt(t, IsHeader(t, r)) /\ chars \in {t.border_style.body, t.border_style.header}
    BY <1>10, CharsIn
  <2>3. r \in Nat /\ r < Rows(t)
    BY <1>2
  <2>4. Printed(t, r, n, w, U)
    BY <1>1, <1>4, <2>1, <2>3 DEF Printed
  <2>5. ASSUME n > 0
        PROVE  Line(RowLength(t, r, w, U, OnScreen(chars)),
                    RowLength(t, r, w, U, chars) + RowTags(t, r, U)) \in L
    <3>1. /\ Shown(chars["LL"]) = side /\ Shown(chars["RR"]) = side /\ Shown(chars["IV"]) = bar
      BY <1>7, <1>8, <2>2, EvenChars
    <3>2. RowLength(t, r, w, U, OnScreen(chars)) = K
      BY <1>9, <1>11, <2>4, <2>5, <3>1, RowAligned
    <3>3. PICK x \in Nat : x = RowLength(t, r, w, U, chars)
      <4>1. chars["LL"] \in Nat /\ chars["RR"] \in Nat /\ chars["IV"] \in Nat
        BY DEF BorderItems
      <4>2. QED
        BY <2>4, <4>1, RowLengthIs
    <3>4. PICK y \in Nat : y = RowTags(t, r, U)
      BY <1>3, <1>5, <1>6, <2>4, RowTagsIn
    <3>5. x + y \in Nat
      OBVIOUS
    <3>6. QED
      BY <1>14, <3>2, <3>3, <3>4, <3>5
  <2>6. RowHeight(t, r) = 0 \/ n > 0
    BY <1>1, NoColumns
  <2>7. QED
    BY <2>1, <2>2, <2>3, <2>5, <2>6, RowLinesIn
<1>17. Lines(t, w) \in UpTo(L, m + 1 + HeightsUpTo(t, m))
  BY <1>2, <1>15, <1>16, LinesIn
<1>18. Lines(t, w) \in Seq(L)
  BY <1>17 DEF UpTo
<1>19. QED
  BY <1>3, <1>12, <1>13, <1>18 DEF TextLines

-----------------------------------------------------------------------------
(* The text is whole.                                                      *)

\* Products of numbers grow with either.
LEMMA ProductGrows ==
  ASSUME NEW a \in Nat, NEW b \in Nat, NEW c \in Nat, a <= b
  PROVE  a * c \in Nat /\ b * c \in Nat /\ a * c <= b * c /\ c * a <= c * b
<1>1. PICK d \in Nat : b = a + d
  <2>1. b - a \in Nat /\ b = a + (b - a)
    OBVIOUS
  <2>2. QED
    BY <2>1
<1>2. PICK x \in Nat : x = a * c
  OBVIOUS
<1>3. PICK y \in Nat : y = d * c
  OBVIOUS
<1>4. b * c = x + y
  BY <1>1, <1>2, <1>3
<1>5. c * a = a * c /\ c * b = b * c
  OBVIOUS
<1>6. QED
  BY <1>2, <1>3, <1>4, <1>5

\* The estimate in parts, each s times as long.
LEMMA EstimateParts ==
  ASSUME NEW s \in Nat, s >= 1, NEW n \in Nat, NEW b \in Nat, NEW m \in Nat
  PROVE  /\ s * (2 + n + b + m) = s + s + s * n + s * b + s * m
         /\ s * n \in Nat /\ s * b \in Nat /\ s * m \in Nat
         /\ n <= s * n /\ b <= s * b /\ m <= s * m
<1>1. s * (2 + n + b + m) = s + s + s * n + s * b + s * m
  OBVIOUS
<1>2. \A x \in Nat : s * x \in Nat /\ x <= s * x
  <2>1. ASSUME NEW x \in Nat
        PROVE  s * x \in Nat /\ x <= s * x
    <3>1. 1 * x <= s * x /\ s * x \in Nat
      BY ProductGrows
    <3>2. 1 * x = x
      OBVIOUS
    <3>3. QED
      BY <3>1, <3>2
  <2>2. QED
    BY <2>1
<1>3. QED
  BY <1>1, <1>2

\* A line of a row of k pieces is within the estimate, its newline included.
LEMMA RowRoom ==
  ASSUME NEW s \in Nat, s >= 1, NEW n \in Nat, NEW k \in Nat, k >= 1, k <= n,
         NEW m \in Nat, NEW a \in Nat, NEW b \in Nat, NEW x \in Nat, a + x <= b,
         NEW l \in 0 .. s, NEW r \in 0 .. s, NEW v \in 0 .. s
  PROVE  m + l + r + (a + n - k) + (k - 1) * v + x + 1 <= s * (2 + n + b + m)
<1>1. PICK j \in Nat : k = j + 1
  <2>1. k - 1 \in Nat /\ k = (k - 1) + 1
    OBVIOUS
  <2>2. QED
    BY <2>1
<1>2. PICK i \in Nat : n = i + k
  <2>1. n - k \in Nat /\ n = (n - k) + k
    OBVIOUS
  <2>2. QED
    BY <2>1
<1>3. j * v \in Nat /\ j * s \in Nat /\ j * v <= j * s
  <2>1. v \in Nat /\ v <= s
    OBVIOUS
  <2>2. QED
    BY <2>1, ProductGrows
<1>4. i * s \in Nat /\ i <= i * s
  <2>1. 1 <= s /\ 1 \in Nat
    OBVIOUS
  <2>2. i * 1 <= i * s /\ s * i \in Nat
    BY <2>1, ProductGrows
  <2>3. i * 1 = i /\ s * i = i * s
    OBVIOUS
  <2>4. QED
    BY <2>2, <2>3
<1>5. s * n = i * s + j * s + s
  BY <1>1, <1>2
<1>6. (k - 1) * v = j * v
  BY <1>1
<1>7. /\ s * (2 + n + b + m) = s + s + s * n + s * b + s * m
      /\ s * b \in Nat /\ s * m \in Nat /\ b <= s * b /\ m <= s * m
  BY EstimateParts
<1>8. PICK p \in Nat : p = j * v
  BY <1>3
<1>9. PICK q \in Nat : q = j * s
  BY <1>3
<1>10. PICK y \in Nat : y = i * s
  BY <1>4
<1>11. PICK z \in Nat : z = s * b
  BY <1>7
<1>12. PICK u \in Nat : u = s * m
  BY <1>7
<1>13. s * (2 + n + b + m) = s + s + (y + q + s) + z + u
  BY <1>5, <1>7, <1>9, <1>10, <1>11, <1>12, Zenon
<1>14. m + l + r + (a + n - k) + p + x + 1 <= s + s + (y + q + s) + z + u
  <2>1. p <= q /\ i <= y /\ b <= z /\ m <= u
    BY <1>3, <1>4, <1>7, <1>8, <1>9, <1>10, <1>11, <1>12
  <2>2. l \in Nat /\ r \in Nat /\ l <= s /\ r <= s
    OBVIOUS
  <2>3. n - k = i
    BY <1>2
  <2>4. a + n - k = a + i
    BY <1>2
  <2>5. QED
    BY <2>1, <2>2, <2>4
<1>15. QED
  BY <1>6, <1>8, <1>13, <1>14

\* So is a line between rows.
LEMMA SeparatorRoom ==
  ASSUME NEW s \in Nat, s >= 1, NEW n \in Nat,
         NEW m \in Nat, NEW a \in Nat, NEW b \in Nat, a <= b, n = 0 => a = 0,
         NEW l \in 0 .. s, NEW r \in 0 .. s, NEW x \in 0 .. s,
         NEW j \in Nat, j <= (IF n = 0 THEN 0 ELSE n - 1) * s
  PROVE  m + (IF n = 0 THEN 0 ELSE l) + r + j + a * x + 1
           <= s * (2 + (IF n = 0 THEN 1 ELSE n) + b + m)
<1>1. l \in Nat /\ r \in Nat /\ x \in Nat /\ l <= s /\ r <= s /\ x <= s
  OBVIOUS
<1>2. a * x \in Nat /\ a * x <= s * b
  <2>1. x * a \in Nat /\ x * a <= s * a /\ s * a \in Nat
    BY <1>1, ProductGrows
  <2>2. s * a <= s * b /\ b * s \in Nat
    BY ProductGrows
  <2>3. x * a = a * x /\ b * s = s * b
    BY <1>1
  <2>4. QED
    BY <2>1, <2>2, <2>3
<1>3. PICK k \in Nat : k = IF n = 0 THEN 1 ELSE n
  OBVIOUS
<1>4. /\ s * (2 + k + b + m) = s + s + s * k + s * b + s * m
      /\ s * b \in Nat /\ s * m \in Nat /\ m <= s * m /\ s * k \in Nat /\ k <= s * k
  BY EstimateParts
<1>5. PICK p \in Nat : p = a * x
  BY <1>2
<1>6. PICK z \in Nat : z = s * b
  BY <1>4
<1>7. PICK u \in Nat : u = s * m
  BY <1>4
<1>8. PICK y \in Nat : y = s * k
  BY <1>4
<1>9. s * (2 + k + b + m) = s + s + y + z + u
  BY <1>4, <1>6, <1>7, <1>8, Zenon
<1>10. j + s <= y
  <2>1. CASE n = 0
    <3>1. j = 0
      <4>1. 0 * s = 0
        OBVIOUS
      <4>2. QED
        BY <2>1, <4>1
    <3>2. y = s
      BY <1>3, <1>8, <2>1
    <3>3. QED
      BY <3>1, <3>2
  <2>2. CASE n # 0
    <3>1. PICK i \in Nat : n = i + 1
      <4>1. n - 1 \in Nat /\ n = (n - 1) + 1
        BY <2>2
      <4>2. QED
        BY <4>1
    <3>2. s * (i + 1) = i * s + s
      OBVIOUS
    <3>3. PICK q \in Nat : q = i * s
      OBVIOUS
    <3>4. j <= q
      <4>1. (IF n = 0 THEN 0 ELSE n - 1) = i
        BY <2>2, <3>1
      <4>2. QED
        BY <3>3, <4>1
    <3>5. y = q + s
      BY <1>3, <1>8, <2>2, <3>1, <3>2, <3>3
    <3>6. QED
      BY <3>4, <3>5
  <2>3. QED
    BY <2>1, <2>2
<1>11. PICK e \in Nat : e = (IF n = 0 THEN 0 ELSE l) /\ e <= s
  BY <1>1
<1>12. m + e + r + j + p + 1 <= s + s + y + z + u
  <2>1. p <= z /\ m <= u
    BY <1>2, <1>4, <1>5, <1>6, <1>7
  <2>2. QED
    BY <1>1, <1>10, <1>11, <2>1
<1>13. QED
  BY <1>3, <1>5, <1>9, <1>11, <1>12

\* The estimate has room for the columns of the text, and for the tags.
Estimated(t) == Untagged(t) \/ NoMaster(t)

\* The columns of the text are within those of the estimate, tags included.
LEMMA WidthsEstimated ==
  ASSUME NEW t, Ready(t), Estimated(t), NEW n \in Nat, n = Cols(t), NEW w, NEW v,
         w = col_width_arr(t, "VISIBLE"), v = col_width_arr(t, "INTERN")
  PROVE  /\ Total(w, n) \in Nat /\ Total(v, n) \in Nat /\ Total(w, n) <= Total(v, n)
         /\ \A r, U : Printed(t, r, n, w, U) => /\ RowTags(t, r, U) \in Nat
                                                /\ Total(w, n) + RowTags(t, r, U) <= Total(v, n)
<1>1. w \in [0 .. (n - 1) -> Nat] /\ v \in [0 .. (n - 1) -> Nat]
  BY WidthsServe
<1>2. PICK a \in Nat : a = Total(w, n)
  BY <1>1, TotalIn
<1>3. PICK b \in Nat : b = Total(v, n)
  BY <1>1, TotalIn
<1>4. a <= b
  <2>1. CASE Untagged(t)
    <3>1. w = v
      BY <2>1, UntaggedWidths
    <3>2. QED
      BY <1>2, <1>3, <3>1
  <2>2. CASE NoMaster(t)
    <3>1. IsFiniteSet(0 .. (n - 1)) /\ Numbers(w, 0 .. (n - 1)) /\ Numbers(v, 0 .. (n - 1))
      BY <1>1, TotalIn
    <3>2. \A c \in 0 .. (n - 1) : w[c] <= v[c]
      BY <2>2, TagsEstimated
    <3>3. QED
      BY <1>2, <1>3, <3>1, <3>2, SumsCompare DEF Total
  <2>3. QED
    BY <2>1, <2>2 DEF Estimated
<1>5. ASSUME NEW r, NEW U, Printed(t, r, n, w, U)
      PROVE  RowTags(t, r, U) \in Nat /\ a + RowTags(t, r, U) <= b
  <2>1. /\ RowTags(t, r, U) \in Nat
        /\ Untagged(t) => RowTags(t, r, U) = 0
        /\ NoMaster(t) => Total(w, n) + RowTags(t, r, U) <= Total(v, n)
    BY <1>1, <1>5, RowTagsIn
  <2>2. PICK x \in Nat : x = RowTags(t, r, U)
    BY <2>1
  <2>3. CASE Untagged(t)
    BY <1>4, <2>1, <2>2, <2>3
  <2>4. CASE NoMaster(t)
    BY <1>2, <1>3, <2>1, <2>2, <2>4
  <2>5. QED
    BY <2>3, <2>4 DEF Estimated
<1>6. QED
  BY <1>2, <1>3, <1>4, <1>5

\* What is shown of characters are numbers.
LEMMA OnScreenIn ==
  ASSUME NEW S, NEW items \in [S -> Nat]
  PROVE  OnScreen(items) \in [S -> Nat]
<1>1. \A f \in S : Shown(items[f]) \in Nat
  BY ShownIn
<1>2. QED
  BY <1>1 DEF OnScreen

\* Every line is within the estimated width, its newline included, and there
\* are not more lines than were estimated.
LEMMA WholeLines ==
  ASSUME NEW t, Ready(t), Rows(t) > 0, Estimated(t), NEW m \in Nat, m = Rows(t),
         NEW W \in Nat, W = table_geometry(t).width
  PROVE  TextLines(t) \in UpTo([cols : Nat, bytes : 0 .. W], m + 1 + HeightsUpTo(t, m))
<1>1. PICK n \in Nat : n = Cols(t)
  BY ColsIn
<1>2. PICK w : w = col_width_arr(t, "VISIBLE")
  OBVIOUS
<1>3. PICK v : v = col_width_arr(t, "INTERN")
  OBVIOUS
<1>4. w \in [0 .. (n - 1) -> Nat] /\ v \in [0 .. (n - 1) -> Nat]
  BY <1>1, <1>2, <1>3, WidthsServe
<1>5. Printable(t)
  BY DEF Ready
<1>6. PICK s \in Nat : s = max_border_elem_strlen(t.border_style) /\ s >= 1
  BY <1>5, LongestItem DEF Printable
<1>7. PICK d \in Nat : d = MarginWidth(t)
  BY <1>1, <1>6, GeometryIs
<1>8. PICK a \in Nat : a = Total(w, n)
  BY <1>1, <1>2, <1>3, WidthsEstimated
<1>9. PICK b \in Nat : b = Total(v, n) /\ a <= b
  BY <1>1, <1>2, <1>3, <1>8, WidthsEstimated
<1>10. W = s * (2 + (IF n = 0 THEN 1 ELSE n) + b + d)
  BY SMTT(30), <1>1, <1>3, <1>6, <1>7, <1>9, GeometryIs DEF Total
<1>11. PICK L : L = [cols : Nat, bytes : 0 .. W]
  OBVIOUS
<1>12. \A x \in Nat, y \in Nat : y + 1 <= W => Line(x, y) \in L
  BY <1>11 DEF Line
<1>13. ASSUME NEW i \in 0 .. m
       PROVE  print_row_separator_impl(t, i, w) \in UpTo(L, 1)
  <2>1. PICK items \in [ItemNames -> Nat] : items = ItemsAbove(t, i)
    BY <1>5, ItemsAboveIs
  <2>2. print_row_separator_impl(t, i, w) = SeparatorLine(t, i, w, items)
    BY <1>2, <1>5, <2>1, ItemsAboveIs
  <2>3. items \in [ItemNames -> 0 .. s]
    BY <1>5, <1>6, <2>1, ItemsAboveIs
  <2>4. Between(t, n, w, items)
    BY <1>4 DEF Between
  <2>5. PICK j \in Nat :
          /\ j = SumFunction(Junctions(t, i, w, items))
          /\ SeparatorLength(t, i, w, items) =
               MarginWidth(t) + (IF n = 0 THEN 0 ELSE items.L) + items.R + j
                 + Total(w, n) * items.I
          /\ SeparatorLength(t, i, w, items) \in Nat
    BY <2>4, SeparatorLengthIs
  <2>6. PICK l \in 0 .. s : l = items.L
    BY <2>3 DEF ItemNames
  <2>7. PICK r \in 0 .. s : r = items.R
    BY <2>3 DEF ItemNames
  <2>8. PICK x \in 0 .. s : x = items.I
    BY <2>3 DEF ItemNames
  <2>9. j <= (IF n = 0 THEN 0 ELSE n - 1) * s
    <3>1. \A c \in 1 .. (n - 1) : Junction(t, i, c, items) <= s
      <4>1. items.II <= s /\ items.IT <= s /\ items.IB <= s /\ items.IV <= s
        BY <2>3 DEF ItemNames
      <4>2. QED
        BY <4>1, JunctionIn
    <3>2. QED
      BY <2>4, <2>5, <3>1, JunctionsSum
  <2>10. n = 0 => a = 0
    <3>1. ASSUME n = 0
          PROVE  a = 0
      <4>1. 0 .. (n - 1) = {}
        BY <3>1
      <4>2. QED
        BY <1>8, <4>1, SumEmpty DEF Total
    <3>2. QED
      BY <3>1
  <2>11. d + (IF n = 0 THEN 0 ELSE l) + r + j + a * x + 1 <= W
    <3>1. d + (IF n = 0 THEN 0 ELSE l) + r + j + a * x + 1
            <= s * (2 + (IF n = 0 THEN 1 ELSE n) + b + d)
      BY <1>6, <1>9, <2>9, <2>10, SeparatorRoom
    <3>2. QED
      BY <1>10, <3>1, Zenon
  <2>12. SeparatorLength(t, i, w, items) = d + (IF n = 0 THEN 0 ELSE l) + r + j + a * x
    BY <1>7, <1>8, <2>5, <2>6, <2>7, <2>8, Zenon
  <2>13. PICK y \in Nat : y = SeparatorLength(t, i, w, items)
    BY <2>5
  <2>14. y + 1 <= W
    BY <2>11, <2>12, <2>13, Zenon
  <2>15. SeparatorLength(t, i, w, OnScreen(items)) \in Nat
    <3>1. Between(t, n, w, OnScreen(items))
      BY <1>4, OnScreenIn DEF Between
    <3>2. QED
      BY <3>1, SeparatorLengthIs
  <2>16. QED
    BY <1>12, <2>2, <2>13, <2>14, <2>15, SeparatorLineIn
<1>14. ASSUME NEW r \in 0 .. (m - 1)
       PROVE  snprintf_row(t, r, w) \in UpTo(L, RowHeight(t, r))
  <2>1. PICK U : U = Units(t, r, w)
    OBVIOUS
  <2>2. PICK chars \in [BorderItems -> Nat] :
          chars = CharsAt(t, IsHeader(t, r)) /\ chars \in {t.border_style.body, t.border_style.header}
    BY <1>5, CharsIn
  <2>3. r \in Nat /\ r < Rows(t)
    OBVIOUS
  <2>4. Printed(t, r, n, w, U)
    BY <1>1, <1>4, <2>1, <2>3 DEF Printed
  <2>5. ASSUME n > 0
        PROVE  Line(RowLength(t, r, w, U, OnScreen(chars)),
                    RowLength(t, r, w, U, chars) + RowTags(t, r, U)) \in L
    <3>1. \A e \in [BorderItems -> Nat] : e["LL"] \in Nat /\ e["RR"] \in Nat /\ e["IV"] \in Nat
      BY DEF BorderItems
    <3>2. RowLength(t, r, w, U, OnScreen(chars)) \in Nat
      <4>1. PICK e \in [BorderItems -> Nat] : e = OnScreen(chars)
        BY OnScreenIn
      <4>2. e["LL"] \in Nat /\ e["RR"] \in Nat /\ e["IV"] \in Nat
        BY <3>1
      <4>3. RowLength(t, r, w, U, e) \in Nat
        BY <2>4, <4>2, RowLengthIs
      <4>4. QED
        BY <4>1, <4>3
    <3>3. PICK k \in Nat :
            /\ k <= n /\ (n > 0 => k >= 1) /\ (NoMaster(t) => k = n)
            /\ RowLength(t, r, w, U, chars) =
                 MarginWidth(t) + chars["LL"] + chars["RR"] + (Total(w, n) + n - k)
                   + (IF k = 0 THEN 0 ELSE k - 1) * chars["IV"]
            /\ RowLength(t, r, w, U, chars) \in Nat
      BY <2>4, <3>1, RowLengthIs
    <3>4. k >= 1 /\ (IF k = 0 THEN 0 ELSE k - 1) = k - 1
      BY <2>5, <3>3
    <3>5. \A x \in BorderItems : chars[x] \in 0 .. s
      BY <1>5, <1>6, <2>2, LongestItem DEF Printable
    <3>6. PICK x \in 0 .. s : x = chars["LL"]
      BY <3>5 DEF BorderItems
    <3>7. PICK y \in 0 .. s : y = chars["RR"]
      BY <3>5 DEF BorderItems
    <3>8. PICK z \in 0 .. s : z = chars["IV"]
      BY <3>5 DEF BorderItems
    <3>9. PICK g \in Nat : g = RowTags(t, r, U) /\ a + g <= b
      BY <1>1, <1>2, <1>3, <1>8, <1>9, <2>4, WidthsEstimated
    <3>10. d + x + y + (a + n - k) + (k - 1) * z + g + 1 <= s * (2 + n + b + d)
      BY <1>6, <3>3, <3>4, <3>9, RowRoom
    <3>11. W = s * (2 + n + b + d)
      BY <1>10, <2>5
    <3>12. PICK h \in Nat : h = RowLength(t, r, w, U, chars)
      BY <3>3
    <3>13. h = d + x + y + (a + n - k) + (k - 1) * z
      BY <1>7, <1>8, <3>3, <3>4, <3>6, <3>7, <3>8, <3>12, Zenon
    <3>14. h + g + 1 <= W
      BY <3>10, <3>11, <3>13, Zenon
    <3>15. h + g \in Nat
      OBVIOUS
    <3>16. QED
      BY <1>12, <3>2, <3>9, <3>12, <3>14, <3>15
  <2>6. RowHeight(t, r) = 0 \/ n > 0
    BY <1>1, NoColumns
  <2>7. QED
    BY <2>1, <2>2, <2>3, <2>5, <2>6, RowLinesIn
<1>15. Lines(t, w) \in UpTo(L, m + 1 + HeightsUpTo(t, m))
  BY <1>13, <1>14, LinesIn
<1>16. QED
  BY <1>2, <1>11, <1>15 DEF TextLines

\* The whole text is within the buffer.
LEMMA WithinBuffer ==
  ASSUME NEW t, Ready(t), Rows(t) > 0, t.conv_buffer # NULL => t.conv_buffer \in Nat \ {0},
         Estimated(t)
  PROVE  /\ TextLines(t) \in Seq([cols : Nat, bytes : Nat])
         /\ TextBytes(t, TextLines(t), table_geometry(t).width) < ConvBuffer(t, table_geometry(t))
<1>1. PICK n \in Nat : n = Cols(t)
  BY ColsIn
<1>2. PICK m \in Nat : m = Rows(t) /\ m > 0
  BY ColsIn
<1>3. PICK W \in Nat : W = table_geometry(t).width
  BY <1>1, <1>2, GeometryIs
<1>4. PICK H \in Nat : H = HeightsUpTo(t, m)
  BY <1>2, HeightsIn
<1>5. PICK e \in Nat : e = t.tprops["TOP_MARGIN"] + t.tprops["BOTTOM_MARGIN"]
  <2>1. t.tprops["TOP_MARGIN"] \in Nat /\ t.tprops["BOTTOM_MARGIN"] \in Nat
    BY MarginsIn DEF Ready
  <2>2. QED
    BY <2>1
<1>6. PICK h \in Nat : h = table_geometry(t).height /\ h = 1 + m + H + e
  <2>1. PICK h : h = table_geometry(t).height
    OBVIOUS
  <2>2. h = 1 + (IF m = 0 THEN 1 ELSE m) + HeightsUpTo(t, m)
              + (t.tprops["TOP_MARGIN"] + t.tprops["BOTTOM_MARGIN"])
    BY <1>1, <1>2, <2>1, GeometryIs
  <2>3. h = 1 + m + H + e
    BY <1>2, <1>4, <1>5, <2>2
  <2>4. QED
    BY <2>1, <2>3
<1>7. PICK L : L = [cols : Nat, bytes : 0 .. W]
  OBVIOUS
<1>8. PICK lines \in Seq(L) : lines = TextLines(t) /\ Len(lines) <= m + 1 + H
  <2>1. TextLines(t) \in UpTo(L, m + 1 + H)
    BY <1>2, <1>3, <1>4, <1>7, WholeLines
  <2>2. QED
    BY <2>1 DEF UpTo
<1>9. PICK k \in Nat : k = Len(lines) /\ DOMAIN lines = 1 .. k
  OBVIOUS
<1>10. PICK f : f = [i \in 1 .. k |-> lines[i].bytes]
  OBVIOUS
<1>11. \A i \in 1 .. k : f[i] \in Nat /\ f[i] <= W
  <2>1. \A i \in 1 .. k : lines[i] \in L
    BY <1>9
  <2>2. \A x \in L : x.bytes \in 0 .. W
    BY <1>7
  <2>3. \A x \in L : x.bytes \in Nat /\ x.bytes <= W
    BY <2>2
  <2>4. QED
    BY <1>10, <2>1, <2>3
<1>12. IsFiniteSet(1 .. k) /\ Cardinality(1 .. k) = k
  <2>1. IsFiniteSet(1 .. k)
    BY FS_Interval
  <2>2. Cardinality(1 .. k) = IF 1 > k THEN 0 ELSE k - 1 + 1
    BY FS_Interval
  <2>3. QED
    BY <2>1, <2>2
<1>13. PICK g : g = [i \in 1 .. k |-> W]
  OBVIOUS
<1>14. /\ Numbers(f, 1 .. k) /\ Numbers(g, 1 .. k) /\ \A i \in 1 .. k : f[i] <= g[i]
       /\ \A i \in 1 .. k : g[i] = W
  BY <1>11, <1>13 DEF Numbers
<1>15. PICK x \in Nat : x = SumFunctionOnSet(f, 1 .. k)
  BY <1>12, <1>14, SumType
<1>16. SumFunctionOnSet(g, 1 .. k) = k * W
  BY SMTT(30), <1>12, <1>14, SumEqual
<1>17. x <= k * W
  <2>1. SumFunctionOnSet(f, 1 .. k) <= SumFunctionOnSet(g, 1 .. k)
    BY <1>12, <1>14, SumsCompare
  <2>2. QED
    BY <1>15, <1>16, <2>1, Zenon
<1>18. TextBytes(t, lines, W) = x + e * W
  <2>1. SumFunction(f) = x
    BY <1>10, <1>15, SumWhole
  <2>2. TextBytes(t, lines, W)
          = SumFunction(f) + (t.tprops["TOP_MARGIN"] + t.tprops["BOTTOM_MARGIN"]) * W
    BY <1>9, <1>10, Zenon DEF TextBytes
  <2>3. QED
    BY <1>5, <2>1, <2>2, Zenon
<1>19. x + e * W <= W * h
  <2>1. PICK p \in Nat : p = k * W
    OBVIOUS
  <2>2. PICK q \in Nat : q = e * W
    OBVIOUS
  <2>3. PICK y \in Nat : y = (m + 1 + H) * W
    OBVIOUS
  <2>4. p <= y
    <3>1. m + 1 + H \in Nat /\ k <= m + 1 + H
      BY <1>8, <1>9
    <3>2. QED
      BY <2>1, <2>3, <3>1, ProductGrows
  <2>5. W * h = y + q
    BY <1>6, <2>2, <2>3
  <2>6. QED
    BY <1>17, <2>1, <2>2, <2>4, <2>5
<1>20. W * h + 1 <= ConvBuffer(t, table_geometry(t)) /\ ConvBuffer(t, table_geometry(t)) \in Nat
  BY <1>3, <1>6, ConvBufferIs
<1>21. TextBytes(t, lines, W) < ConvBuffer(t, table_geometry(t))
  <2>1. PICK y \in Nat : y = x + e * W
    OBVIOUS
  <2>2. PICK z \in Nat : z = W * h
    OBVIOUS
  <2>3. PICK u \in Nat : u = ConvBuffer(t, table_geometry(t))
    BY <1>20
  <2>4. y <= z /\ z + 1 <= u
    BY <1>19, <1>20, <2>1, <2>2, <2>3
  <2>5. y < u
    BY <2>4
  <2>6. QED
    BY <1>18, <2>1, <2>3, <2>5
<1>22. lines \in Seq([cols : Nat, bytes : Nat])
  <2>1. \A l \in L : l \in [cols : Nat, bytes : Nat]
    BY <1>7
  <2>2. \A i \in 1 .. k : lines[i] \in [cols : Nat, bytes : Nat]
    BY <1>9, <2>1
  <2>3. PICK M : M = [cols : Nat, bytes : Nat]
    OBVIOUS
  <2>4. PICK s : s = [i \in 1 .. k |-> lines[i]]
    OBVIOUS
  <2>5. s \in Seq(M)
    BY <2>2, <2>3, <2>4
  <2>6. lines = s
    BY <1>9, <2>4
  <2>7. QED
    BY <2>3, <2>5, <2>6
<1>23. QED
  BY <1>3, <1>8, <1>21, <1>22

\* Every slave follows a master.
NoOrphan(t) ==
  \A p \in AllCells(t) : CellType(t, p[1], p[2]) = "SLAVE" => Covered(t, p[1], p[2])

\* Every cell fits its columns.
LEMMA AllFit ==
  ASSUME NEW t, Ready(t), NoOrphan(t), NEW r \in Nat, r < Rows(t),
         NEW w, w = col_width_arr(t, "VISIBLE")
  PROVE  CellsFit(t, r, w)
<1>1. t \in Shape(t, Cells, t.cur_row)
  BY DEF Ready
<1>2. PICK n \in Nat : n = Cols(t)
  BY ColsIn
<1>3. PICK m \in Nat : m = Rows(t)
  BY ColsIn
<1>4. PICK row \in Roomy(Cells) : row = RowAt(t, r)
  BY <1>1, RowsAre
<1>5. PICK k \in Nat : k = columns_in_row(row) /\ k <= n
  BY <1>1, <1>2, <1>4, ColumnsBound
<1>6. w \in [0 .. (n - 1) -> Nat]
  BY <1>2, WidthsServe
<1>7. ASSUME NEW c \in 0 .. (k - 1), ~ Covered(t, r, c)
      PROVE  cell_vis_width(t, r, c) <= GroupWidth(w, c, UnitEnd(t, r, c))
  <2>1. c \in Nat /\ c < k /\ c < n /\ c \in 0 .. (n - 1) /\ r \in 0 .. (m - 1)
    BY <1>3, <1>5
  <2>2. HasCell(t, r, c)
    BY <1>4, <1>5, <2>1 DEF HasCell
  <2>3. CellType(t, r, c) = vector_at(row, c).type
    BY <1>4, <1>5, <2>1 DEF CellType, get_row_cell_types
  <2>4. CellType(t, r, c) \in {"COMMON", "MASTER", "SLAVE"}
    <3>1. CellAt(t, r, c) \in Cells
      BY <2>1, <2>2, CellOf
    <3>2. CellAt(t, r, c).type \in {"COMMON", "MASTER", "SLAVE"}
      BY <3>1 DEF Cells
    <3>3. QED
      BY <1>4, <2>3, <3>2 DEF CellAt
  <2>5. CellType(t, r, c) # "SLAVE"
    <3>1. <<r, c>> \in AllCells(t)
      BY <1>2, <1>3, <2>1, <2>2 DEF AllCells
    <3>2. QED
      BY <1>7, <3>1 DEF NoOrphan
  <2>6. CASE CellType(t, r, c) = "COMMON"
    <3>1. PICK g \in Nat : g = group_cell_number(row, c) /\ g >= 1
                             /\ (g > 1 => vector_at(row, c).type = "MASTER")
      BY <1>4, <1>5, <2>1, GroupIs
    <3>2. g = 1
      BY <2>3, <2>6, <3>1
    <3>3. UnitEnd(t, r, c) = c
      BY <1>4, <2>1, <2>2, <3>1, <3>2 DEF UnitEnd
    <3>4. PICK x \in Nat : x = w[c]
      BY <1>6, <2>1
    <3>5. GroupWidth(w, c, c) = x
      <4>1. c .. c = {c} /\ c - c = 0
        BY <2>1
      <4>2. SumFunctionOnSet(w, {c}) = x
        BY <3>4, SumOne
      <4>3. x + 0 = x
        OBVIOUS
      <4>4. QED
        BY <4>1, <4>2, <4>3, Zenon DEF GroupWidth
    <3>6. r \in CommonRows(t, c)
      BY <1>3, <2>1, <2>2, <2>6 DEF CommonRows, RowsWith
    <3>7. PICK y \in Nat : y = CommonWidth(t, c, "VISIBLE") /\ cell_vis_width(t, r, c) <= y
      BY <2>1, <3>6, CommonWidthIs
    <3>8. y <= x
      BY <1>2, <2>1, <3>4, <3>7, WidthsServe
    <3>9. cell_vis_width(t, r, c) \in Nat
      BY <2>1, <2>2, CellWidthIn
    <3>10. QED
      BY <3>3, <3>5, <3>7, <3>8, <3>9
  <2>7. CASE CellType(t, r, c) = "MASTER"
    <3>1. Served(t, w, r, c, "VISIBLE")
      BY <1>2, <1>3, <2>1, WidthsServe
    <3>2. Hint(t, r, c, "VISIBLE") <= GroupWidth(w, c, UnitEnd(t, r, c))
      BY <2>2, <2>7, <3>1 DEF Served, IsMaster
    <3>3. PICK x \in Nat : x = Hint(t, r, c, "VISIBLE") /\ cell_vis_width(t, r, c) <= x
      BY <2>1, <2>2, HintIn
    <3>4. cell_vis_width(t, r, c) \in Nat
      BY <2>1, <2>2, CellWidthIn
    <3>5. GroupWidth(w, c, UnitEnd(t, r, c)) \in Nat
      <4>1. PICK e \in Nat : e = UnitEnd(t, r, c) /\ c <= e /\ e < n
        BY <1>2, <2>1, UnitIn
      <4>2. QED
        BY <1>6, <2>1, <4>1, GroupWidthIn
    <3>6. QED
      BY <3>2, <3>3, <3>4, <3>5
  <2>8. QED
    BY <2>4, <2>5, <2>6, <2>7
<1>8. QED
  BY <1>4, <1>5, <1>7 DEF CellsFit

\* What a conversion returns: the lines of the table, or NULL, which it does
\* not if every slave follows a master and the estimate has room.
LEMMA ConversionIs ==
  ASSUME NEW t, Ready(t), t.conv_buffer # NULL => t.conv_buffer \in Nat \ {0},
         NEW w, w = col_width_arr(t, "VISIBLE"), NEW g, g = table_geometry(t),
         NEW x, x = ft_to_string_impl(t, w, Lines(t, w), g)
  PROVE  /\ Rows(t) = 0 => x = << >>
         /\ Rows(t) # 0 => x \in {TextLines(t), NULL}
         /\ NoOrphan(t) /\ Estimated(t) => x # NULL
<1>1. Lines(t, w) = TextLines(t)
  BY DEF TextLines
<1>2. PICK l : l = TextLines(t)
  OBVIOUS
<1>3. x = IF Rows(t) = 0 THEN << >>
          ELSE IF /\ \A r \in 0 .. (Rows(t) - 1) : CellsFit(t, r, w)
                  /\ TextBytes(t, l, g.width) < ConvBuffer(t, g)
               THEN l ELSE NULL
  BY <1>1, <1>2, Zenon DEF ft_to_string_impl
<1>4. Rows(t) = 0 => x = << >>
  BY <1>3
<1>5. Rows(t) # 0 => x \in {l, NULL}
  BY <1>3
<1>6. ASSUME NoOrphan(t), Estimated(t)
      PROVE  x # NULL
  <2>1. PICK m \in Nat : m = Rows(t)
    BY ColsIn
  <2>2. CASE m = 0
    <3>1. << >> \in Seq([cols : Nat, bytes : Nat])
      OBVIOUS
    <3>2. << >> # NULL
      BY <3>1, ResultsAssumption, Zenon
    <3>3. QED
      BY <1>4, <2>1, <2>2, <3>2
  <2>3. CASE m > 0
    <3>1. \A r \in 0 .. (m - 1) : CellsFit(t, r, w)
      BY <1>6, <2>1, AllFit
    <3>2. /\ TextBytes(t, l, g.width) < ConvBuffer(t, g)
          /\ l \in Seq([cols : Nat, bytes : Nat])
      BY <1>2, <1>6, <2>1, <2>3, WithinBuffer
    <3>3. x = l
      BY <1>3, <2>1, <2>3, <3>1, <3>2
    <3>4. QED
      BY <3>2, <3>3, ResultsAssumption
  <2>4. QED
    BY <2>2, <2>3
<1>7. QED
  BY <1>2, <1>4, <1>5, <1>6

-----------------------------------------------------------------------------
(* The invariant of the conversions.                                       *)

\* What is needed to print a table, its buffer included.
Accounted(t) == Printable(t) /\ (t.conv_buffer # NULL => t.conv_buffer \in Nat \ {0})

\* The text x is a conversion of the table t.
Conversion(t, x) ==
  /\ Ready(t)
  /\ Rows(t) = 0 => x = << >>
  /\ Rows(t) # 0 => x \in {TextLines(t), NULL}
  /\ NoOrphan(t) /\ Estimated(t) => x # NULL

Statuses == {"fine", "crashed", "hung", "undefined"}

\* A sound table is accounted for, and what was printed last is a conversion
\* of the table as it is.
TextInv ==
  /\ FortInv /\ Accounted(table) /\ status \in Statuses
  /\ printed # Nothing => Conversion(table, printed)

\* A call that prints nothing.
Silent == printed' = Nothing /\ status' \in Statuses

\* A new entry has measures and styles.
LEMMA BlankTyped ==
  ASSUME NEW row, NEW col
  PROVE  TypedValues(BlankEntry(row, col).val)
<1>1. PICK val : val = [p \in CellProps |-> IF p \in TextStyles THEN {} ELSE 0]
  OBVIOUS
<1>2. BlankEntry(row, col).val = val
  BY <1>1 DEF BlankEntry
<1>3. \A p \in Measures : val[p] \in Nat
  BY <1>1 DEF CellProps, Measures, TextStyles
<1>4. \A p \in TextStyles : val[p] = {}
  BY <1>1 DEF CellProps
<1>5. \A p \in TextStyles : IsFiniteSet(val[p])
  BY <1>4, FS_EmptySet
<1>6. QED
  BY <1>2, <1>3, <1>5 DEF TypedValues

\* An entry keeps its types when a property is set.
LEMMA EntryTyped ==
  ASSUME NEW e, IsEntry(e), TypedValues(e.val), NEW p \in CellProps, NEW value,
         p \in Measures => value \in Int, p \in TextStyles => IsFiniteSet(value)
  PROVE  TypedValues(set_cell_property_impl(e, p, value).val)
<1>1. PICK f : f = set_cell_property_impl(e, p, value)
  OBVIOUS
<1>2. /\ \A q \in CellProps : q # p => f.val[q] = e.val[q]
      /\ p \notin TextStyles => f.val[p] = IF Refused(p, value) THEN e.val[p] ELSE value
      /\ p \in TextStyles => f.val[p] \in {value, e.val[p] \cup value}
  BY <1>1, EntrySet
<1>3. (\A q \in Measures : q \notin TextStyles /\ q \in CellProps) /\ TextStyles \subseteq CellProps
  BY DEF Measures, TextStyles, CellProps
<1>4. ASSUME NEW q \in Measures
      PROVE  f.val[q] \in Nat
  <2>1. e.val[q] \in Nat
    BY DEF TypedValues
  <2>2. CASE q = p
    <3>1. f.val[p] = IF p \in Measures /\ value < 0 THEN e.val[p] ELSE value
      BY <1>2, <1>3, <2>2 DEF Refused
    <3>2. value \in Int
      BY <2>2
    <3>3. QED
      BY <2>1, <2>2, <3>1, <3>2
  <2>3. CASE q # p
    BY <1>2, <1>3, <2>1, <2>3
  <2>4. QED
    BY <2>2, <2>3
<1>5. ASSUME NEW q \in TextStyles
      PROVE  IsFiniteSet(f.val[q])
  <2>1. IsFiniteSet(e.val[q])
    BY DEF TypedValues
  <2>2. CASE q = p
    <3>1. IsFiniteSet(value)
      BY <2>2
    <3>2. IsFiniteSet(e.val[p] \cup value)
      BY <2>1, <2>2, <3>1, FS_Union
    <3>3. QED
      BY <1>2, <2>2, <3>1, <3>2
  <2>3. CASE q # p
    BY <1>2, <1>3, <2>1, <2>3
  <2>4. QED
    BY <2>2, <2>3
<1>6. QED
  BY <1>1, <1>4, <1>5 DEF TypedValues

\* A setting leaves entries with types in the container.
LEMMA SettingTyped ==
  ASSUME NEW cp, NEW a, NEW d, IsDefault(d), TypedValues(d.val), Container(cp, a, d),
         \A i \in 1 .. Len(cp.items) : TypedValues(cp.items[i].val),
         NEW s \in Settings, NEW row, NEW col,
         NEW c, c = set_cell_property(cp, row, col, s.prop, s.value, d)
  PROVE  \A j \in 1 .. Len(c.items) : TypedValues(c.items[j].val)
<1>1. /\ s.prop \in CellProps /\ s.value # Nothing
      /\ s.prop \in Measures => s.value \in Int
      /\ s.prop \in TextStyles => IsFiniteSet(s.value)
  BY ArgumentsAssumption
<1>2. PICK p \in CellProps : p = s.prop
  BY <1>1
<1>3. PICK value : value = s.value
  OBVIOUS
<1>4. \A j \in 1 .. Len(c.items) :
        \E e : Origin(cp, d, row, col, e) /\ c.items[j] \in {e, set_cell_property_impl(e, p, value)}
  <2>1. PICK old : old = IF <<row, col, p>> \in DOMAIN a THEN a[<<row, col, p>>] ELSE Nothing
    OBVIOUS
  <2>2. PICK x : x = IF Refused(p, value) THEN old ELSE value
    OBVIOUS
  <2>3. PICK b : b = [k \in DOMAIN a \cup {<<row, col, p>>} |->
                        IF k = <<row, col, p>> THEN x ELSE a[k]]
    OBVIOUS
  <2>4. value # Nothing
    BY <1>1, <1>3
  <2>5. \A j \in 1 .. Len(set_cell_property(cp, row, col, p, value, d).items) :
          \E e : /\ Origin(cp, d, row, col, e)
                 /\ set_cell_property(cp, row, col, p, value, d).items[j]
                      \in {e, set_cell_property_impl(e, p, value)}
    BY <2>1, <2>2, <2>3, <2>4, SettingIn
  <2>6. c = set_cell_property(cp, row, col, p, value, d)
    BY <1>2, <1>3
  <2>7. QED
    BY <2>5, <2>6
<1>5. ASSUME NEW j \in 1 .. Len(c.items)
      PROVE  TypedValues(c.items[j].val)
  <2>1. PICK e : Origin(cp, d, row, col, e)
                   /\ c.items[j] \in {e, set_cell_property_impl(e, p, value)}
    BY <1>4
  <2>2. IsEntry(e)
    BY <2>1 DEF Origin
  <2>3. TypedValues(e.val)
    BY <2>1, BlankTyped DEF Origin
  <2>4. TypedValues(set_cell_property_impl(e, p, value).val)
    BY <1>1, <1>2, <1>3, <2>2, <2>3, EntryTyped
  <2>5. QED
    BY <2>1, <2>3, <2>4
<1>6. QED
  BY <1>5

\* The outcome of a call that prints nothing.
LEMMA BecomesIn ==
  ASSUME status \in Statuses, NEW w, NEW cells, Becomes(w, cells)
  PROVE  Silent /\ (table' = w \/ table' = table)
<1>1. CASE AnyJunk(table, cells)
  BY <1>1 DEF Becomes, Silent, Statuses
<1>2. CASE ~ AnyJunk(table, cells)
  BY <1>2 DEF Becomes, Silent, Statuses
<1>3. QED
  BY <1>1, <1>2

\* A call that leaves the settings of the table alone.
LEMMA KeptTyped ==
  ASSUME TextInv, FortInv', Keeps
  PROVE  TextInv'
<1>1. Accounted(table')
  BY DEF TextInv, Accounted, Printable, Keeps
<1>2. status' \in Statuses /\ printed' = Nothing
  BY DEF TextInv, Keeps, Statuses
<1>3. QED
  BY <1>1, <1>2 DEF TextInv

\* A call that prints nothing and leaves the table accounted for.
LEMMA SilentTyped ==
  ASSUME TextInv, FortInv', Silent, Accounted(table')
  PROVE  TextInv'
  BY DEF TextInv, Silent

\* The fields of a table of which one is set.
LEMMA FieldsAre ==
  ASSUME FortInv, NEW x
  PROVE  /\ \A w : w = [table EXCEPT !.cell_properties = x] =>
                     /\ w.cell_properties = x /\ w.border_style = table.border_style
                     /\ w.tprops = table.tprops /\ w.defaults = table.defaults
                     /\ w.conv_buffer = table.conv_buffer
         /\ \A w : w = [table EXCEPT !.tprops = x] =>
                     /\ w.tprops = x /\ w.border_style = table.border_style
                     /\ w.cell_properties = table.cell_properties /\ w.defaults = table.defaults
                     /\ w.conv_buffer = table.conv_buffer
         /\ \A w : w = [table EXCEPT !.border_style = x] =>
                     /\ w.border_style = x /\ w.tprops = table.tprops
                     /\ w.cell_properties = table.cell_properties /\ w.defaults = table.defaults
                     /\ w.conv_buffer = table.conv_buffer
         /\ \A w : w = [table EXCEPT !.conv_buffer = x] =>
                     /\ w.conv_buffer = x /\ w.tprops = table.tprops
                     /\ w.border_style = table.border_style /\ w.rows = table.rows
                     /\ w.separators = table.separators /\ w.cur_row = table.cur_row
                     /\ w.cell_properties = table.cell_properties /\ w.defaults = table.defaults
<1>1. table \in Shape(table, KindOf(moved), table.cur_row)
  BY TableIn
<1>2. table = [rows |-> table.rows, separators |-> table.separators,
               cell_properties |-> table.cell_properties, border_style |-> table.border_style,
               tprops |-> table.tprops, defaults |-> table.defaults,
               conv_buffer |-> table.conv_buffer, cur_row |-> table.cur_row,
               cur_col |-> table.cur_col]
  BY <1>1 DEF Shape
<1>3. QED
  BY <1>2

\* ft_set_cell_prop.
LEMMA SetCellPropTyped ==
  ASSUME TextInv, FortInv', NEW s \in Settings, SetCellProp(s)
  PROVE  TextInv'
<1>1. PICK row : row = IF s.row = CUR THEN table.cur_row ELSE s.row
  OBVIOUS
<1>2. PICK col : col = IF s.col = CUR THEN table.cur_col ELSE s.col
  OBVIOUS
<1>3. PICK cp : cp = set_cell_property(table.cell_properties, row, col, s.prop, s.value, table.defaults)
  OBVIOUS
<1>4. PICK w : w = [table EXCEPT !.cell_properties = cp]
  OBVIOUS
<1>5. ft_set_cell_prop(table, s) = w
  BY <1>1, <1>2, <1>3, <1>4, Zenon DEF ft_set_cell_prop
<1>6. Becomes(w, {})
  BY <1>5 DEF SetCellProp
<1>7. Silent /\ (table' = w \/ table' = table)
  BY <1>6, BecomesIn DEF TextInv
<1>8. IsDefault(table.defaults) /\ Container(table.cell_properties, asked, table.defaults)
  BY DEF TextInv, FortInv, Sound
<1>9. TypedValues(table.defaults.val)
      /\ \A i \in 1 .. Len(table.cell_properties.items) :
           TypedValues(table.cell_properties.items[i].val)
  BY DEF TextInv, Accounted, Printable
<1>10. \A j \in 1 .. Len(cp.items) : TypedValues(cp.items[j].val)
  BY <1>3, <1>8, <1>9, SettingTyped
<1>11. /\ w.cell_properties = cp /\ w.border_style = table.border_style /\ w.tprops = table.tprops
       /\ w.defaults = table.defaults /\ w.conv_buffer = table.conv_buffer
  BY <1>4, FieldsAre DEF TextInv
<1>12. IsRoomy(table'.cell_properties)
  BY DEF FortInv, Sound, Container
<1>13. CASE table' = w
  <2>1. Accounted(w)
    BY <1>10, <1>11, <1>12, <1>13 DEF TextInv, Accounted, Printable
  <2>2. QED
    BY <1>7, <1>13, <2>1, SilentTyped
<1>14. CASE table' = table
  BY <1>7, <1>14, SilentTyped DEF TextInv
<1>15. QED
  BY <1>7, <1>13, <1>14

\* ft_set_tbl_prop, which refuses negative margins.
LEMMA SetTablePropTyped ==
  ASSUME TextInv, FortInv', NEW s \in TableSettings, SetTableProp(s)
  PROVE  TextInv'
<1>1. PICK x : x = set_entire_table_property_internal(table.tprops, s.prop, s.value)
  OBVIOUS
<1>2. PICK w : w = [table EXCEPT !.tprops = x]
  OBVIOUS
<1>3. Becomes(w, {})
  BY <1>1, <1>2, Zenon DEF SetTableProp
<1>4. Silent /\ (table' = w \/ table' = table)
  BY <1>3, BecomesIn DEF TextInv
<1>5. TypedMargins(x)
  <2>1. PICK old : old = table.tprops
    OBVIOUS
  <2>2. \A m \in Margins : m \in DOMAIN old /\ old[m] \in Nat
    BY <2>1 DEF TextInv, Accounted, Printable, TypedMargins
  <2>3. s.prop \in Margins => s.value \in Int
    BY ArgumentsAssumption
  <2>4. x = IF s.prop \in Margins /\ s.value < 0 THEN old ELSE [old EXCEPT ![s.prop] = s.value]
    BY <1>1, <2>1 DEF set_entire_table_property_internal
  <2>5. CASE s.prop \in Margins /\ s.value < 0
    BY <2>2, <2>4, <2>5 DEF TypedMargins
  <2>6. CASE ~ (s.prop \in Margins /\ s.value < 0)
    <3>1. x = [old EXCEPT ![s.prop] = s.value]
      BY <2>4, <2>6
    <3>2. \A m \in Margins : m \in DOMAIN x /\ x[m] = IF m = s.prop THEN s.value ELSE old[m]
      BY <2>2, <3>1
    <3>3. s.prop \in Margins => s.value \in Nat
      BY <2>3, <2>6
    <3>4. QED
      BY <2>2, <3>2, <3>3 DEF TypedMargins
  <2>7. QED
    BY <2>5, <2>6
<1>6. /\ w.tprops = x /\ w.border_style = table.border_style
      /\ w.cell_properties = table.cell_properties
      /\ w.defaults = table.defaults /\ w.conv_buffer = table.conv_buffer
  BY <1>2, FieldsAre DEF TextInv
<1>7. Accounted(w)
  BY <1>5, <1>6 DEF TextInv, Accounted, Printable
<1>8. QED
  BY <1>4, <1>7, SilentTyped DEF TextInv

\* ft_set_border_style.
LEMMA SetBorderStyleTyped ==
  ASSUME TextInv, FortInv', NEW style \in Styles, SetBorderStyle(style)
  PROVE  TextInv'
<1>1. PICK w : w = [table EXCEPT !.border_style = style]
  OBVIOUS
<1>2. Becomes(w, {})
  BY <1>1 DEF SetBorderStyle
<1>3. Silent /\ (table' = w \/ table' = table)
  BY <1>2, BecomesIn DEF TextInv
<1>4. TypedStyle(style)
  BY ArgumentsAssumption
<1>5. /\ w.border_style = style /\ w.tprops = table.tprops
      /\ w.cell_properties = table.cell_properties
      /\ w.defaults = table.defaults /\ w.conv_buffer = table.conv_buffer
  BY <1>1, FieldsAre DEF TextInv
<1>6. Accounted(w)
  BY <1>4, <1>5 DEF TextInv, Accounted, Printable
<1>7. QED
  BY <1>3, <1>6, SilentTyped DEF TextInv

\* ft_copy_table.
LEMMA CopyTyped ==
  ASSUME TextInv, FortInv', Copy
  PROVE  TextInv'
<1>1. PICK w : w = ft_copy_table(table)
  OBVIOUS
<1>2. Becomes(w, AllCells(table))
  BY <1>1 DEF Copy
<1>3. Silent /\ (table' = w \/ table' = table)
  BY <1>2, BecomesIn DEF TextInv
<1>4. Container(table.cell_properties, asked, table.defaults)
  BY DEF TextInv, FortInv, Sound
<1>5. /\ Alike(table, w) /\ IsRoomy(w.cell_properties) /\ w.conv_buffer = NULL
  BY <1>1, <1>4, TableIn, CopyIn DEF Container, TextInv
<1>6. Accounted(w)
  BY <1>5 DEF TextInv, Accounted, Printable, Alike
<1>7. QED
  BY <1>3, <1>6, SilentTyped DEF TextInv

\* The columns of a table are a number.
LEMMA EmptyColumns ==
  ASSUME NEW t, NEW S, NEW r, NEW u \in Shape(t, S, r)
  PROVE  Cols(u) \in Nat
<1>1. PICK n \in Nat : n = Rows(u) /\ n = Len(u.rows.items)
  BY RowsAre
<1>2. CASE n = 0
  <2>1. u.rows \in Roomy(Roomy(S))
    BY RowsAre
  <2>2. DOMAIN u.rows.items = {}
    <3>1. PICK s : s = u.rows.items
      OBVIOUS
    <3>2. s \in Seq(Roomy(S)) /\ Len(s) = 0
      BY <1>1, <1>2, <2>1, <3>1, RoomyParts
    <3>3. DOMAIN s = {}
      BY <3>2
    <3>4. QED
      BY <3>1, <3>3
  <2>3. {0} \cup {columns_in_row(u.rows.items[i]) : i \in DOMAIN u.rows.items} = {0}
    BY <2>2
  <2>4. Max({0}) = 0
    BY DEF Max
  <2>5. QED
    BY <2>3, <2>4 DEF Cols
<1>3. CASE n > 0
  BY <1>1, <1>3, ColumnsBound
<1>4. QED
  BY <1>2, <1>3

\* A table whose cells can all be looked into is ready to be printed.
LEMMA Unread ==
  ASSUME FortInv, Accounted(table), ~ AnyJunk(table, AllCells(table))
  PROVE  Ready(table)
<1>1. PICK S : S = KindOf(moved) /\ table \in Shape(table, S, table.cur_row)
  BY TableIn
<1>2. S \subseteq Cells \cup {Junk}
  BY <1>1, CellsHold DEF KindOf, AnyCell
<1>3. PICK n \in Nat : n = Rows(table) /\ n = Len(table.rows.items)
  BY <1>1, RowsAre
<1>4. PICK m \in Nat : m = Cols(table)
  BY <1>1, <1>3, EmptyColumns
<1>5. table.rows \in Roomy(Roomy(S))
  BY <1>1, RowsAre
<1>6. /\ table.rows.items \in Seq(Roomy(S)) /\ table.rows.cap \in Nat /\ table.rows.cap > 0
      /\ n <= table.rows.cap
      /\ table.rows = [items |-> table.rows.items, cap |-> table.rows.cap]
  BY <1>3, <1>5, RoomyParts
<1>7. ASSUME NEW i \in 1 .. n
      PROVE  table.rows.items[i] \in Roomy(Cells)
  <2>1. PICK r \in Nat : r = i - 1 /\ r < n /\ r + 1 = i
    OBVIOUS
  <2>2. PICK row : row = RowAt(table, r)
    OBVIOUS
  <2>3. row = table.rows.items[i]
    BY <2>1, <2>2 DEF RowAt, vector_at
  <2>4. row \in Roomy(S)
    BY <1>6, <1>3, <2>3
  <2>5. PICK k \in Nat : k = Len(row.items) /\ k = columns_in_row(row) /\ k <= m
    BY <1>1, <1>3, <1>4, <2>1, <2>2, <2>4, RowsAre, RoomyParts, ColumnsBound
  <2>6. /\ row.items \in Seq(S) /\ row.cap \in Nat /\ row.cap > 0 /\ k <= row.cap
        /\ row = [items |-> row.items, cap |-> row.cap]
    BY <2>4, <2>5, RoomyParts
  <2>7. ASSUME NEW j \in 1 .. k
        PROVE  row.items[j] \in Cells
    <3>1. PICK c \in Nat : c = j - 1 /\ c < k /\ c < m /\ c + 1 = j
      BY <2>5
    <3>2. HasCell(table, r, c)
      BY <2>2, <2>5, <3>1 DEF HasCell
    <3>3. CellAt(table, r, c) = row.items[j]
      BY <2>2, <3>1 DEF CellAt, vector_at
    <3>4. <<r, c>> \in (0 .. (n - 1)) \X (0 .. (m - 1))
      BY <2>1, <3>1
    <3>5. <<r, c>> \in AllCells(table)
      BY <1>3, <1>4, <3>2, <3>4 DEF AllCells
    <3>6. <<r, c>>[1] = r /\ <<r, c>>[2] = c
      OBVIOUS
    <3>7. CellAt(table, r, c) # Junk
      BY <1>3, <2>1, <3>2, <3>5, <3>6 DEF AnyJunk
    <3>8. row.items[j] \in S
      BY <2>4, <2>5, RoomyParts
    <3>9. QED
      BY <1>2, <3>3, <3>7, <3>8
  <2>8. row.items \in Seq(Cells)
    <3>1. PICK s : s = row.items
      OBVIOUS
    <3>2. s \in Seq(S) /\ k = Len(s) /\ \A j \in 1 .. k : s[j] \in Cells
      BY <2>5, <2>6, <2>7, <3>1
    <3>3. QED
      BY <3>1, <3>2
  <2>9. [items |-> row.items, cap |-> row.cap] \in Roomy(Cells)
    BY <2>5, <2>6, <2>8, MakeRoomy
  <2>10. QED
    BY <2>3, <2>6, <2>9
<1>8. table.rows.items \in Seq(Roomy(Cells))
  <2>1. PICK s : s = table.rows.items
    OBVIOUS
  <2>2. s \in Seq(Roomy(S)) /\ n = Len(s) /\ \A i \in 1 .. n : s[i] \in Roomy(Cells)
    BY <1>3, <1>6, <1>7, <2>1
  <2>3. QED
    BY <2>1, <2>2
<1>9. table.rows \in Roomy(Roomy(Cells))
  <2>1. [items |-> table.rows.items, cap |-> table.rows.cap] \in Roomy(Roomy(Cells))
    BY <1>3, <1>6, <1>8, MakeRoomy
  <2>2. QED
    BY <1>6, <2>1
<1>10. table \in Shape(table, Cells, table.cur_row)
  BY <1>1, <1>9 DEF Shape
<1>11. QED
  BY <1>10 DEF Ready, Accounted

\* The same table with another buffer.
LEMMA BufferAlone ==
  ASSUME NEW t, Ready(t), NEW u,
         u.rows = t.rows, u.separators = t.separators, u.cell_properties = t.cell_properties,
         u.border_style = t.border_style, u.tprops = t.tprops, u.defaults = t.defaults,
         u \in Shape(u, Cells, u.cur_row), NEW x, Conversion(t, x)
  PROVE  Conversion(u, x)
<1>1. Ready(u)
  BY DEF Ready, Printable
<1>2. t \in Shape(t, Cells, t.cur_row)
  BY DEF Ready
<1>3. Rows(u) = Rows(t) /\ Cols(u) = Cols(t)
  BY DEF Rows, Cols
<1>4. Alike(t, u)
  <2>1. Rows(t) \in Nat /\ Rows(t) = Len(t.rows.items) /\ t.rows \in Roomy(Roomy(Cells))
    BY <1>2, RowsAre
  <2>2. DOMAIN t.rows.items = 1 .. Rows(t)
    <3>1. t.rows.items \in Seq(Roomy(Cells))
      BY <2>1, RoomyParts
    <3>2. QED
      BY <2>1, <3>1
  <2>3. QED
    BY <1>3, <2>1, <2>2 DEF Alike
<1>5. TextLines(t) = TextLines(u)
  BY <1>4, TextAlike
<1>6. \A r : RowAt(u, r) = RowAt(t, r)
  BY DEF RowAt
<1>7. \A r, c : /\ HasCell(u, r, c) <=> HasCell(t, r, c)
                /\ CellType(u, r, c) = CellType(t, r, c)
  BY <1>6 DEF HasCell, CellType
<1>8. \A r, c : Covered(u, r, c) <=> Covered(t, r, c)
  BY <1>6, <1>7 DEF Covered
<1>9. AllCells(u) = AllCells(t)
  BY <1>3, <1>7 DEF AllCells
<1>10. NoOrphan(u) => NoOrphan(t)
  BY <1>7, <1>8, <1>9 DEF NoOrphan
<1>11. \A r, c, p : Prop(u, r, c, p) = Prop(t, r, c, p)
  BY DEF Prop
<1>12. \A r, c : cell_invis_codes_width(u, r, c) = cell_invis_codes_width(t, r, c)
  BY <1>11 DEF cell_invis_codes_width
<1>13. Untagged(u) => Untagged(t)
  BY <1>9, <1>12 DEF Untagged
<1>14. NoMaster(u) => NoMaster(t)
  BY <1>3, <1>7 DEF NoMaster, IsMaster
<1>15. NoOrphan(u) /\ Estimated(u) => NoOrphan(t) /\ Estimated(t)
  BY <1>10, <1>13, <1>14 DEF Estimated
<1>16. QED
  BY <1>1, <1>3, <1>5, <1>15 DEF Conversion

\* ft_to_string, which returns a conversion of the table.
LEMMA ConvertTyped ==
  ASSUME TextInv, FortInv', Convert
  PROVE  TextInv'
<1>1. CASE AnyJunk(table, AllCells(table))
  <2>1. Fails("undefined")
    BY <1>1 DEF Convert
  <2>2. Silent /\ table' = table
    BY <2>1 DEF Fails, Silent, Statuses
  <2>3. QED
    BY <2>2, SilentTyped DEF TextInv
<1>2. CASE ~ AnyJunk(table, AllCells(table))
  <2>1. PICK w : w = col_width_arr(table, "VISIBLE")
    OBVIOUS
  <2>2. PICK g : g = table_geometry(table)
    OBVIOUS
  <2>3. PICK x : x = ft_to_string_impl(table, w, Lines(table, w), g)
    OBVIOUS
  <2>4. PICK b : b = ConvBuffer(table, g)
    OBVIOUS
  <2>5. PICK u : u = [table EXCEPT !.conv_buffer = b]
    OBVIOUS
  <2>6. printed' = x /\ table' = u /\ status' = status
    BY <1>2, <2>1, <2>2, <2>3, <2>4, <2>5 DEF Convert
  <2>7. Ready(table)
    BY <1>2, Unread DEF TextInv
  <2>8. table.conv_buffer # NULL => table.conv_buffer \in Nat \ {0}
    BY DEF TextInv, Accounted
  <2>9. b \in Nat \ {0}
    BY <2>2, <2>4, <2>7, <2>8, ConvBufferIs
  <2>10. Conversion(table, x)
    BY <2>1, <2>2, <2>3, <2>7, <2>8, ConversionIs DEF Conversion
  <2>11. /\ u.conv_buffer = b /\ u.tprops = table.tprops /\ u.border_style = table.border_style
         /\ u.rows = table.rows /\ u.separators = table.separators /\ u.cur_row = table.cur_row
         /\ u.cell_properties = table.cell_properties /\ u.defaults = table.defaults
    BY <2>5, FieldsAre DEF TextInv
  <2>12. u \in Shape(u, Cells, u.cur_row)
    <3>1. table \in Tables(table, Cells, FALSE, table.cur_row)
      BY <2>7 DEF Ready, Tables
    <3>2. u \in Tables(u, Cells, FALSE, table.cur_row)
      BY <2>5, <3>1, OtherFields
    <3>3. QED
      BY <2>11, <3>2 DEF Tables
  <2>13. Conversion(u, x)
    BY <2>7, <2>10, <2>11, <2>12, BufferAlone
  <2>14. Accounted(u)
    BY <2>9, <2>11 DEF TextInv, Accounted, Printable
  <2>15. QED
    BY <2>6, <2>13, <2>14 DEF TextInv
<1>3. QED
  BY <1>1, <1>2

\* Tables to start with are accounted for.
LEMMA FreshTyped ==
  ASSUME NEW t \in FreshTables \cup UsedTables
  PROVE  Accounted(t)
<1>1. t = create_table(t.border_style, t.tprops, t.defaults)
  BY TablesAssumption
<1>2. PICK new : new = create_vector(DEFAULT_VECTOR_CAPACITY)
  OBVIOUS
<1>3. t = [rows |-> new, separators |-> new, cell_properties |-> new,
           border_style |-> t.border_style, tprops |-> t.tprops, defaults |-> t.defaults,
           conv_buffer |-> NULL, cur_row |-> 0, cur_col |-> 0]
  BY <1>1, <1>2 DEF create_table, create_cell_prop_container
<1>4. t.cell_properties = new /\ t.conv_buffer = NULL
  BY <1>3
<1>5. new \in Roomy(Nat) /\ new.items = << >>
  BY <1>2, CreateIn
<1>6. \A i \in 1 .. Len(new.items) : FALSE
  BY <1>5
<1>7. TypedValues(t.defaults.val) /\ TypedMargins(t.tprops) /\ TypedStyle(t.border_style)
  BY TablesAssumption
<1>8. QED
  BY <1>4, <1>5, <1>6, <1>7 DEF Accounted, Printable, IsRoomy

\* And so are those that were written to.
LEMMA InitText == Init => TextInv
<1> SUFFICES ASSUME Init
             PROVE  TextInv
  OBVIOUS
<1>1. FortInv
  BY InitFort
<1>2. PICK t \in FreshTables \cup UsedTables :
        table = t \/ (t \in UsedTables /\ table = Begun(t))
  BY DEF Init
<1>3. Accounted(t)
  BY FreshTyped
<1>4. Accounted(table)
  <2>1. CASE table = t
    BY <1>3, <2>1
  <2>2. CASE t \in UsedTables /\ table = Begun(t)
    <3>1. table \in Shape(t, Cells, Len(FirstRows) - 1)
      BY <2>2, BegunIn DEF Tables
    <3>2. /\ table.cell_properties = t.cell_properties /\ table.border_style = t.border_style
          /\ table.tprops = t.tprops /\ table.defaults = t.defaults
          /\ table.conv_buffer = t.conv_buffer
      BY <3>1 DEF Shape
    <3>3. QED
      BY <1>3, <3>2 DEF Accounted, Printable
  <2>3. QED
    BY <1>2, <2>1, <2>2
<1>5. status \in Statuses /\ printed = Nothing
  BY DEF Init, Statuses
<1>6. QED
  BY <1>1, <1>4, <1>5 DEF TextInv

\* Every call keeps it so.
LEMMA NextText == TextInv /\ [Next]_vars => TextInv'
<1> SUFFICES ASSUME TextInv, [Next]_vars
             PROVE  TextInv'
  OBVIOUS
<1>1. FortInv /\ FortInv'
  BY NextFort DEF TextInv
<1>2. CASE Next
  <2>1. CASE \E x \in Texts : WriteRow(<<x>>) \/ WriteRowLn(<<x>>)
    BY <1>1, <2>1, WriteRowStep, WriteRowLnStep, KeptTyped
  <2>2. CASE \E x, y \in Texts : WriteTable(<< <<x, y>>, <<y>> >>)
    BY <1>1, <2>2, WriteTableStep, KeptTyped
  <2>3. CASE \E f \in Formats : Printf(f) \/ PrintfLn(f)
    BY <1>1, <2>3, PrintfStep, PrintfLnStep, KeptTyped
  <2>4. CASE \E p \in Positions : SetCurCell(p[1], p[2])
    BY <1>1, <2>4, SetCurCellStep, KeptTyped
  <2>5. CASE \E s \in Settings : SetCellProp(s)
    BY <1>1, <2>5, SetCellPropTyped
  <2>6. CASE \E s \in TableSettings : SetTableProp(s)
    BY <1>1, <2>6, SetTablePropTyped
  <2>7. CASE \E s \in Styles : SetBorderStyle(s)
    BY <1>1, <2>7, SetBorderStyleTyped
  <2>8. CASE \E s \in Spans : SetCellSpan(s)
    BY <1>1, <2>8, SetCellSpanStep, KeptTyped
  <2>9. CASE \E e \in Ranges : EraseRange(e)
    BY <1>1, <2>9, EraseRangeStep, KeptTyped
  <2>10. CASE Ln
    BY <1>1, <2>10, LnStep, KeptTyped
  <2>11. CASE AddSeparator
    BY <1>1, <2>11, AddSeparatorStep, KeptTyped
  <2>12. CASE Copy
    BY <1>1, <2>12, CopyTyped
  <2>13. CASE Convert
    BY <1>1, <2>13, ConvertTyped
  <2>14. QED
    BY <1>2, <2>1, <2>2, <2>3, <2>4, <2>5, <2>6, <2>7, <2>8, <2>9, <2>10, <2>11, <2>12, <2>13
       DEF Next
<1>3. CASE UNCHANGED vars
  BY <1>1, <1>3 DEF vars, TextInv
<1>4. QED
  BY <1>2, <1>3

\* In every reachable state the table can be printed, and what was printed
\* last is its text.
THEOREM TextInvariant == Spec => []TextInv
<1>1. QED
  BY InitText, NextText, PTL DEF Spec

-----------------------------------------------------------------------------
(* What the runs check of the table and its text.                          *)

\* Slaves, spans and tags, as the invariants speak of them.
LEMMA Bridges ==
  ASSUME Ready(table)
  PROVE  /\ ~ Spanned => NoMaster(table)
         /\ ~ Orphaned => NoOrphan(table)
         /\ ~ Tagged => Untagged(table)
         /\ ~ Spanned /\ ~ Orphaned => NoSlave(table)
<1>1. PICK n \in Nat : n = Cols(table)
  BY ColsIn
<1>2. PICK m \in Nat : m = Rows(table)
  BY ColsIn
<1>3. ASSUME NEW r \in 0 .. (m - 1), NEW c \in 0 .. (n - 1), HasCell(table, r, c)
      PROVE  <<r, c>> \in AllCells(table) /\ <<r, c>>[1] = r /\ <<r, c>>[2] = c
  <2>1. <<r, c>> \in (0 .. (m - 1)) \X (0 .. (n - 1)) /\ <<r, c>>[1] = r /\ <<r, c>>[2] = c
    OBVIOUS
  <2>2. QED
    BY <1>1, <1>2, <1>3, <2>1 DEF AllCells
<1>4. ~ Spanned => NoMaster(table)
  <2> SUFFICES ASSUME ~ Spanned, NEW r \in 0 .. (m - 1), NEW c \in 0 .. (n - 1),
                      IsMaster(table, r, c)
               PROVE  FALSE
    BY <1>1, <1>2 DEF NoMaster
  <2>1. HasCell(table, r, c) /\ CellType(table, r, c) = "MASTER"
    BY DEF IsMaster
  <2>2. PICK p \in AllCells(table) : p[1] = r /\ p[2] = c
    BY <1>3, <2>1
  <2>3. QED
    BY <2>1, <2>2 DEF Spanned
<1>5. ~ Orphaned => NoOrphan(table)
  BY DEF Orphaned, NoOrphan
<1>6. ~ Tagged => Untagged(table)
  <2> SUFFICES ASSUME ~ Tagged, NEW p \in AllCells(table)
               PROVE  cell_invis_codes_width(table, p[1], p[2]) = 0
    BY DEF Untagged
  <2>1. PICK x \in Nat : x = cell_invis_codes_width(table, p[1], p[2])
    BY TagsIn DEF Ready
  <2>2. ~ (x > 0)
    BY <2>1 DEF Tagged
  <2>3. QED
    BY <2>1, <2>2
<1>7. ~ Spanned /\ ~ Orphaned => NoSlave(table)
  <2> SUFFICES ASSUME ~ Spanned, ~ Orphaned, NEW r \in 0 .. (m - 1), NEW c \in 0 .. (n - 1),
                      CellType(table, r, c) = "SLAVE"
               PROVE  FALSE
    BY <1>1, <1>2 DEF NoSlave
  <2>1. HasCell(table, r, c)
    BY DEF CellType, get_row_cell_types, HasCell
  <2>2. PICK p \in AllCells(table) : p[1] = r /\ p[2] = c
    BY <1>3, <2>1
  <2>3. Covered(table, r, c)
    BY <1>5, <2>2 DEF NoOrphan
  <2>4. r \in Nat /\ r < m /\ c \in Nat
    OBVIOUS
  <2>5. QED
    BY <1>2, <1>4, <2>3, <2>4, NoneCovered
<1>8. QED
  BY <1>4, <1>5, <1>6, <1>7

\* A vector has a capacity and a size.
LEMMA VectorIn ==
  ASSUME NEW S, NEW v \in Roomy(S)
  PROVE  IsVector(v) /\ DOMAIN v.items = 1 .. Len(v.items)
         /\ \A i \in DOMAIN v.items : v.items[i] \in S
<1>1. PICK s : s = v.items
  OBVIOUS
<1>2. s \in Seq(S) /\ Len(s) \in Nat /\ v.cap \in Nat
  BY <1>1, RoomyParts
<1>3. DOMAIN s = 1 .. Len(s) /\ \A i \in DOMAIN s : s[i] \in S
  BY <1>2
<1>4. QED
  BY <1>1, <1>2, <1>3 DEF IsVector

\* After any calls the parts of a table have their types: rows of cells,
\* separators, entries that are unique for their key, cursor and buffer.
THEOREM TableTyped == Spec => []TypeOK
<1>1. ASSUME TextInv
      PROVE  TypeOK
  <2>1. FortInv
    BY <1>1 DEF TextInv
  <2>2. PICK S : S = KindOf(moved) /\ table \in Shape(table, S, table.cur_row)
    BY <2>1, TableIn
  <2>3. S \subseteq Cells \cup {Junk}
    BY <2>2 DEF KindOf, AnyCell
  <2>4. /\ table.rows \in Roomy(Roomy(S)) /\ table.separators \in Roomy(BOOLEAN)
        /\ table.cur_col \in Nat
    BY <2>2, ShapeParts
  <2>5. /\ moved \in BOOLEAN /\ calls \in Nat /\ calls <= MaxCalls /\ MaxCalls \in Nat
        /\ table.cur_row \in Nat /\ Container(table.cell_properties, asked, table.defaults)
    BY <2>1, BoundsAssumption DEF FortInv, Sound
  <2>6. calls \in 0 .. MaxCalls
    BY <2>5
  <2>7. status \in {"fine", "crashed", "hung", "undefined"}
    BY <1>1 DEF TextInv, Statuses
  <2>8. IsVector(table.rows) /\ IsVector(table.separators)
    BY <2>4, VectorIn
  <2>9. ASSUME NEW i \in DOMAIN table.rows.items
        PROVE  /\ IsVector(table.rows.items[i])
               /\ \A j \in DOMAIN table.rows.items[i].items : IsCell(table.rows.items[i].items[j])
    <3>1. PICK row \in Roomy(S) : row = table.rows.items[i]
      BY <2>4, VectorIn
    <3>2. IsVector(row) /\ \A j \in DOMAIN row.items : row.items[j] \in S
      BY VectorIn
    <3>3. \A x \in S : IsCell(x)
      BY <2>3 DEF IsCell
    <3>4. QED
      BY <3>1, <3>2, <3>3
  <2>10. \A i \in DOMAIN table.separators.items : table.separators.items[i] \in BOOLEAN
    BY <2>4, VectorIn
  <2>11. PICK cp : cp = table.cell_properties
    OBVIOUS
  <2>12. PICK E : cp \in Roomy(E)
    BY <2>5, <2>11 DEF Container, IsRoomy
  <2>13. IsVector(cp) /\ DOMAIN cp.items = 1 .. Len(cp.items)
    BY <2>12, VectorIn
  <2>14. \A i, j \in DOMAIN cp.items :
           /\ cp.items[i].set \subseteq CellProps
           /\ cp.items[i].row = cp.items[j].row /\ cp.items[i].col = cp.items[j].col => i = j
    <3>1. Agrees(cp.items, asked, table.defaults)
      BY <2>5, <2>11 DEF Container
    <3>2. \A i \in 1 .. Len(cp.items) : cp.items[i].set \subseteq CellProps
      BY <3>1, EntryIs DEF Agrees, Faithful
    <3>3. \A i, j \in 1 .. Len(cp.items) :
            cp.items[i].row = cp.items[j].row /\ cp.items[i].col = cp.items[j].col => i = j
      BY <3>1 DEF Agrees
    <3>4. QED
      BY <2>13, <3>2, <3>3
  <2>15. table.conv_buffer # NULL => table.conv_buffer \in Nat \ {0}
    BY <1>1 DEF TextInv, Accounted
  <2>16. QED
    BY <2>4, <2>5, <2>6, <2>7, <2>8, <2>9, <2>10, <2>11, <2>13, <2>14, <2>15 DEF TypeOK
<1>2. QED
  BY <1>1, TextInvariant, PTL

\* After any calls a table of any size is printed whole, by the estimate made
\* beforehand: ft_to_string answers NULL only if a slave lost its master or
\* spans meet style tags.
THEOREM WholeTextPrinted == Spec => []PrintsWhole
<1>1. ASSUME TextInv
      PROVE  PrintsWhole
  <2> SUFFICES ASSUME printed = NULL, ~ Orphaned, ~ (Spanned /\ Tagged)
               PROVE  FALSE
    BY DEF PrintsWhole
  <2>1. printed # Nothing
    BY ResultsAssumption
  <2>2. Conversion(table, printed)
    BY <1>1, <2>1 DEF TextInv
  <2>3. Ready(table)
    BY <2>2 DEF Conversion
  <2>4. NoOrphan(table) /\ Estimated(table)
    BY <2>3, Bridges DEF Estimated
  <2>5. QED
    BY <2>2, <2>4 DEF Conversion
<1>2. QED
  BY <1>1, TextInvariant, PTL

\* All lines of a text take as many columns on the screen, for tables of any
\* size with any spans, properties and margins, if the style is even.
THEOREM TextAligned == Spec => []LinesAligned
<1>1. ASSUME TextInv
      PROVE  LinesAligned
  <2> SUFFICES ASSUME printed \notin {NULL, Nothing}, EvenStyle(table.border_style),
                      Spanned \/ Orphaned => table.border_style.body["IV"] > 0,
                      NEW i \in DOMAIN printed, NEW j \in DOMAIN printed
               PROVE  printed[i].cols = printed[j].cols
    BY DEF LinesAligned
  <2>1. Conversion(table, printed)
    BY <1>1 DEF TextInv
  <2>2. Ready(table)
    BY <2>1 DEF Conversion
  <2>3. PICK m \in Nat : m = Rows(table)
    BY <2>2, ColsIn
  <2>4. CASE m = 0
    <3>1. printed = << >>
      BY <2>1, <2>3, <2>4 DEF Conversion
    <3>2. DOMAIN << >> = {}
      OBVIOUS
    <3>3. QED
      BY <3>1, <3>2
  <2>5. CASE m > 0
    <3>1. printed = TextLines(table)
      BY <2>1, <2>3, <2>5 DEF Conversion
    <3>2. table.border_style.body["IV"] > 0 \/ (NoMaster(table) /\ NoSlave(table))
      BY <2>2, Bridges
    <3>3. PICK K \in Nat : TextLines(table) \in Seq([cols : {K}, bytes : Nat])
      BY <2>2, <2>3, <2>5, <3>2, AlignedLines
    <3>4. PICK s \in Seq([cols : {K}, bytes : Nat]) : s = printed
      BY <3>1, <3>3
    <3>5. ASSUME NEW k \in DOMAIN s
          PROVE  s[k].cols = K
      <4>1. PICK x \in [cols : {K}, bytes : Nat] : x = s[k]
        <5>1. PICK L : L = [cols : {K}, bytes : Nat]
          OBVIOUS
        <5>2. s \in Seq(L)
          BY <5>1
        <5>3. s[k] \in L
          BY <5>2
        <5>4. QED
          BY <5>1, <5>3
      <4>2. x.cols = K
        BY <4>1
      <4>3. QED
        BY <4>1, <4>2
    <3>6. QED
      BY <3>4, <3>5
  <2>6. QED
    BY <2>3, <2>4, <2>5
<1>2. QED
  BY <1>1, TextInvariant, PTL
=============================================================================
