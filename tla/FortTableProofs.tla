--------------------------- MODULE FortTableProofs ---------------------------
(***************************************************************************)
(* What holds of FortTable for every choice of its constants: vectors keep *)
(* room to grow, rows get gaps only behind a cursor that was set, cells    *)
(* have the properties that were asked for, ft_erase_range ends within the *)
(* table and nowhere else and keeps rows and separators together, and      *)
(* copies print alike.                                                     *)
(***************************************************************************)
EXTENDS FortTable, WellFoundedInduction, FiniteSetTheorems, TLAPS

-----------------------------------------------------------------------------
(* Functions defined by recursion on a number.  The induction is written   *)
(* with sets, since the provers cannot instantiate a predicate.            *)

\* Every nonempty set of numbers has a least one.
LEMMA Least ==
  ASSUME NEW T \in SUBSET Nat, T # {}
  PROVE  \E x \in T : \A y \in T : x <= y
<1>1. IsWellFoundedOn(OpToRel(<, Nat), Nat)
  BY NatLessThanWellFounded
<1>2. PICK x \in T : \A y \in T : ~ (<<y, x>> \in OpToRel(<, Nat))
  BY <1>1, WFMin, Zenon
<1>3. \A y \in T : <<y, x>> \notin OpToRel(<, Nat)
  BY <1>2
<1>4. \A a, b \in Nat : b < a => <<b, a>> \in OpToRel(<, Nat)
  BY DEF OpToRel
<1>5. \A y \in T : ~ (y < x)
  BY <1>3, <1>4, Zenon
<1>6. \A y \in T : x <= y
  BY <1>5
<1>7. QED
  BY <1>6

\* A set with 0 and all successors of its members holds every number.
LEMMA Induct ==
  ASSUME NEW T \in SUBSET Nat, 0 \in T, \A n \in Nat : n \in T => n + 1 \in T
  PROVE  T = Nat
<1>1. SUFFICES ASSUME Nat \ T # {}
               PROVE  FALSE
  OBVIOUS
<1>2. PICK x \in Nat \ T : \A y \in Nat \ T : x <= y
  BY <1>1, Least
<1>3. x # 0
  BY <1>2
<1>4. x - 1 \in Nat /\ x - 1 \in T
  BY <1>2, <1>3
<1>5. QED
  BY <1>2, <1>4

\* What holds at first and is kept by every step up to n, holds throughout:
\* E[k] is the set of the values that are allowed after k steps.
LEMMA Reached ==
  ASSUME NEW n \in Nat, NEW p, NEW E, p[0] \in E[0],
         \A k \in 1 .. n : p[k - 1] \in E[k - 1] => p[k] \in E[k]
  PROVE  \A k \in 0 .. n : p[k] \in E[k]
<1> DEFINE T == {m \in Nat : m <= n => p[m] \in E[m]}
<1>1. 0 \in T
  OBVIOUS
<1>2. ASSUME NEW m \in Nat, m \in T
      PROVE  m + 1 \in T
  <2>1. CASE m + 1 <= n
    <3>1. m + 1 \in 1 .. n /\ (m + 1) - 1 = m /\ m <= n
      BY <2>1
    <3>2. p[m] \in E[m]
      BY <1>2, <3>1
    <3>3. p[m + 1] \in E[m + 1]
      BY <3>1, <3>2
    <3>4. QED
      BY <3>3
  <2>2. CASE ~ (m + 1 <= n)
    BY <2>2
  <2>3. QED
    BY <2>1, <2>2
<1>3. T = Nat
  <2>1. T \subseteq Nat
    OBVIOUS
  <2> HIDE DEF T
  <2>2. QED
    BY <1>1, <1>2, <2>1, Induct
<1>4. QED
  BY <1>3

\* G[k] takes what is allowed after k - 1 steps to what is allowed after k.
Leads(n, E, G) == \A k \in 1 .. n : \A x \in E[k - 1] : G[k][x] \in E[k]

\* f is what the steps make of a, and everything on the way is allowed.
Follows(f, n, a, G, E) ==
  /\ f = [k \in 0 .. n |-> IF k = 0 THEN a ELSE G[k][f[k - 1]]]
  /\ \A k \in 0 .. n : f[k] \in E[k]

\* A recursion exists whose step is a function of the allowed values.
LEMMA Recursion ==
  ASSUME NEW n \in Nat, NEW E, NEW a, a \in E[0], NEW G, Leads(n, E, G)
  PROVE  \E f : Follows(f, n, a, G, E)
<1> DEFINE T == {m \in Nat : m <= n =>
                  \E f : /\ f = [k \in 0 .. m |-> IF k = 0 THEN a ELSE G[k][f[k - 1]]]
                         /\ f[m] \in E[m]}
<1>0. \A k \in 1 .. n : \A x \in E[k - 1] : G[k][x] \in E[k]
  BY DEF Leads
<1>1. 0 \in T
  <2>1. [k \in 0 .. 0 |-> a] =
          [k \in 0 .. 0 |-> IF k = 0 THEN a ELSE G[k][[l \in 0 .. 0 |-> a][k - 1]]]
    OBVIOUS
  <2>2. [k \in 0 .. 0 |-> a][0] \in E[0]
    OBVIOUS
  <2>3. \E f : /\ f = [k \in 0 .. 0 |-> IF k = 0 THEN a ELSE G[k][f[k - 1]]]
               /\ f[0] \in E[0]
    BY <2>1, <2>2
  <2>4. QED
    BY <2>3
<1>2. ASSUME NEW m \in Nat, m \in T
      PROVE  m + 1 \in T
  <2>1. SUFFICES ASSUME m + 1 <= n
                 PROVE  \E f : /\ f = [k \in 0 .. m + 1 |-> IF k = 0 THEN a ELSE G[k][f[k - 1]]]
                               /\ f[m + 1] \in E[m + 1]
    OBVIOUS
  <2>2. m <= n /\ m + 1 \in 1 .. n /\ (m + 1) - 1 = m
    BY <2>1
  <2>3. PICK f : /\ f = [k \in 0 .. m |-> IF k = 0 THEN a ELSE G[k][f[k - 1]]]
                 /\ f[m] \in E[m]
    BY <1>2, <2>2
  <2> DEFINE g == [k \in 0 .. m + 1 |-> IF k = m + 1 THEN G[m + 1][f[m]] ELSE f[k]]
  <2>4. \A k \in 0 .. m + 1 : g[k] = IF k = 0 THEN a ELSE G[k][g[k - 1]]
    <3>1. TAKE k \in 0 .. m + 1
    <3>2. CASE k = m + 1
      <4>1. g[k] = G[k][f[m]] /\ k # 0 /\ k - 1 = m
        BY <3>2
      <4>2. g[m] = f[m]
        OBVIOUS
      <4>3. QED
        BY <4>1, <4>2
    <3>3. CASE k # m + 1 /\ k # 0
      <4>1. k \in 0 .. m /\ k - 1 \in 0 .. m
        BY <3>3
      <4>2. f[k] = G[k][f[k - 1]]
        BY <2>3, <3>3, <4>1
      <4>3. QED
        BY <3>3, <4>1, <4>2
    <3>4. CASE k = 0
      <4>1. f[0] = a
        BY <2>3
      <4>2. QED
        BY <3>4, <4>1
    <3>5. QED
      BY <3>2, <3>3, <3>4
  <2>5. g = [k \in 0 .. m + 1 |-> IF k = 0 THEN a ELSE G[k][g[k - 1]]]
    BY SMTT(30), <2>4
  <2>6. g[m + 1] \in E[m + 1]
    BY <1>0, <2>2, <2>3
  <2> HIDE DEF g
  <2>7. QED
    BY <2>5, <2>6
<1>3. T = Nat
  <2>1. T \subseteq Nat
    OBVIOUS
  <2> HIDE DEF T
  <2>2. QED
    BY <1>1, <1>2, <2>1, Induct
<1>4. PICK f : f = [k \in 0 .. n |-> IF k = 0 THEN a ELSE G[k][f[k - 1]]]
  BY <1>3
<1>5. f[0] = a
  BY <1>4
<1>6. ASSUME NEW k \in 1 .. n, f[k - 1] \in E[k - 1]
      PROVE  f[k] \in E[k]
  <2>1. k \in 0 .. n /\ k # 0
    OBVIOUS
  <2>2. f[k] = G[k][f[k - 1]]
    BY <1>4, <2>1
  <2>3. QED
    BY <1>0, <1>6, <2>2
<1>7. \A k \in 0 .. n : f[k] \in E[k]
  BY <1>5, <1>6, Reached
<1>8. QED
  BY <1>4, <1>7 DEF Follows
-----------------------------------------------------------------------------
(* Vectors.                                                                *)

\* The vectors of members of S that hold no more than they have room for,
\* which is something.
Roomy(S) == {v \in [items : Seq(S), cap : Nat] : HasRoom(v)}

\* What it is to be a vector of S with room.
LEMMA RoomyIs ==
  ASSUME NEW S, NEW v
  PROVE  v \in Roomy(S) <=> /\ v \in [items : Seq(S), cap : Nat]
                            /\ v.cap > 0 /\ Len(v.items) <= v.cap
  BY DEF Roomy, HasRoom, vector_size

\* The length of a vector is a number that the capacity bounds.
LEMMA RoomyParts ==
  ASSUME NEW S, NEW v \in Roomy(S)
  PROVE  /\ v.items \in Seq(S) /\ v.cap \in Nat /\ v.cap > 0
         /\ Len(v.items) \in Nat /\ Len(v.items) <= v.cap
         /\ v = [items |-> v.items, cap |-> v.cap]
         /\ \A i \in 1 .. Len(v.items) : v.items[i] \in S
  BY RoomyIs

\* A sequence and a capacity that is enough make such a vector.
LEMMA MakeRoomy ==
  ASSUME NEW S, NEW s \in Seq(S), NEW c \in Nat, c > 0, Len(s) <= c
  PROVE  [items |-> s, cap |-> c] \in Roomy(S)
  BY RoomyIs

\* A new vector is empty, and the default capacity is room enough.
LEMMA CreateIn ==
  ASSUME NEW S
  PROVE  /\ create_vector(DEFAULT_VECTOR_CAPACITY) \in Roomy(S)
         /\ create_vector(DEFAULT_VECTOR_CAPACITY).items = << >>
<1>1. << >> \in Seq(S) /\ Len(<< >>) = 0
  OBVIOUS
<1>2. DEFAULT_VECTOR_CAPACITY \in Nat /\ DEFAULT_VECTOR_CAPACITY > 0
  BY CapacityAssumption
<1>3. create_vector(DEFAULT_VECTOR_CAPACITY) = [items |-> << >>, cap |-> DEFAULT_VECTOR_CAPACITY]
  BY DEF create_vector
<1>4. PICK e : e = << >>
  OBVIOUS
<1>5. e \in Seq(S) /\ Len(e) <= DEFAULT_VECTOR_CAPACITY
  BY <1>1, <1>2, <1>4
<1>6. [items |-> e, cap |-> DEFAULT_VECTOR_CAPACITY] \in Roomy(S)
  BY <1>2, <1>5, MakeRoomy
<1>7. QED
  BY <1>3, <1>4, <1>6

\* Sequences one behind the other.
LEMMA Concat ==
  ASSUME NEW S, NEW s \in Seq(S), NEW t \in Seq(S), NEW a \in Nat, NEW b \in Nat,
         Len(s) = a, Len(t) = b
  PROVE  s \o t \in Seq(S) /\ Len(s \o t) = a + b
  OBVIOUS

\* A vector of members of S is one of members of any larger set.
LEMMA RoomyGrows ==
  ASSUME NEW S, NEW T, S \subseteq T
  PROVE  Roomy(S) \subseteq Roomy(T)
<1>1. Seq(S) \subseteq Seq(T)
  OBVIOUS
<1>2. QED
  BY <1>1, RoomyIs

\* A push doubles a vector that is full, and never to nothing.
LEMMA PushIn ==
  ASSUME NEW S, NEW v \in Roomy(S), NEW x \in S
  PROVE  /\ vector_push(v, x) \in Roomy(S)
         /\ vector_push(v, x).items = Append(v.items, x)
<1>1. PICK n \in Nat : n = Len(v.items)
  BY RoomyParts
<1>2. Append(v.items, x) \in Seq(S) /\ Len(Append(v.items, x)) = n + 1
  BY <1>1, RoomyParts
<1>3. PICK c \in Nat : c = v.cap
  BY RoomyParts
<1>4. c > 0 /\ n <= c
  BY <1>1, <1>3, RoomyParts
<1>5. 2 * c \in Nat /\ 2 * c > 0 /\ (n = c => n + 1 <= 2 * c) /\ (n # c => n + 1 <= c)
  BY <1>4
<1>6. vector_push(v, x) = [items |-> Append(v.items, x), cap |-> IF n = c THEN 2 * c ELSE c]
  BY <1>1, <1>3 DEF vector_push, vector_size
<1>7. PICK s : s = Append(v.items, x)
  OBVIOUS
<1>8. PICK d \in Nat : d = IF n = c THEN 2 * c ELSE c
  BY <1>5
<1>9. s \in Seq(S) /\ Len(s) = n + 1 /\ d > 0 /\ n + 1 <= d
  BY <1>2, <1>4, <1>5, <1>7, <1>8
<1>10. [items |-> s, cap |-> d] \in Roomy(S)
  BY <1>9, MakeRoomy
<1>11. QED
  BY <1>6, <1>7, <1>8, <1>10

\* SubSeq within the sequence.
LEMMA Part ==
  ASSUME NEW S, NEW s \in Seq(S), NEW i \in Nat \ {0}, NEW j \in Nat, j <= Len(s)
  PROVE  /\ SubSeq(s, i, j) \in Seq(S)
         /\ Len(SubSeq(s, i, j)) = IF i <= j THEN j - i + 1 ELSE 0
  OBVIOUS

\* The items before a position.
LEMMA BeforeIs ==
  ASSUME NEW S, NEW v \in Roomy(S), NEW pos \in Nat
  PROVE  /\ Before(v, pos) \in Seq(S)
         /\ Len(Before(v, pos)) = IF pos < Len(v.items) THEN pos ELSE Len(v.items)
<1>1. PICK n \in Nat : n = Len(v.items)
  BY RoomyParts
<1>2. PICK m \in Nat : m = IF pos < n THEN pos ELSE n
  OBVIOUS
<1>3. m <= n /\ Before(v, pos) = SubSeq(v.items, 1, m)
  BY <1>1, <1>2 DEF Before, vector_size
<1>4. v.items \in Seq(S)
  BY RoomyParts
<1>5. SubSeq(v.items, 1, m) \in Seq(S) /\ Len(SubSeq(v.items, 1, m)) = m
  BY <1>1, <1>3, <1>4, Part
<1>6. QED
  BY <1>1, <1>2, <1>3, <1>5

\* There is Junk in the gap up to a position only if there is a gap.
LEMMA GapIs ==
  ASSUME NEW S, NEW v \in Roomy(S), NEW pos \in Nat, Junk \in S \/ pos <= Len(v.items)
  PROVE  /\ Gap(v, pos) \in Seq(S)
         /\ Len(Gap(v, pos)) = IF pos <= Len(v.items) THEN 0 ELSE pos - Len(v.items)
<1>1. PICK n \in Nat : n = Len(v.items)
  BY RoomyParts
<1>2. Gap(v, pos) = [i \in 1 .. (pos - n) |-> Junk]
  BY <1>1 DEF Gap, vector_size
<1>3. CASE pos <= n
  <2>1. 1 .. (pos - n) = {}
    BY <1>3
  <2>2. Gap(v, pos) = << >>
    BY <1>2, <2>1
  <2>3. QED
    BY <1>1, <1>3, <2>2
<1>4. CASE pos > n
  <2>1. PICK m \in Nat : m = pos - n
    BY <1>4
  <2>2. Junk \in S
    BY <1>1, <1>4
  <2>3. Gap(v, pos) = [i \in 1 .. m |-> Junk]
    BY <1>2, <2>1
  <2>4. Gap(v, pos) \in Seq(S) /\ Len(Gap(v, pos)) = m
    BY <2>2, <2>3
  <2>5. Len(Gap(v, pos)) = IF pos <= n THEN 0 ELSE pos - n
    BY <1>4, <2>1, <2>4
  <2>6. QED
    BY <1>1, <2>4, <2>5
<1>5. QED
  BY <1>3, <1>4

\* An insert makes room for all positions up to its own.
LEMMA InsertIn ==
  ASSUME NEW S, NEW v \in Roomy(S), NEW x \in S, NEW pos \in Nat,
         Junk \in S \/ pos <= Len(v.items)
  PROVE  /\ vector_insert(v, x, pos) \in Roomy(S)
         /\ Len(vector_insert(v, x, pos).items) =
              IF pos >= Len(v.items) THEN pos + 1 ELSE Len(v.items) + 1
<1>1. PICK n \in Nat : n = Len(v.items)
  BY RoomyParts
<1>2. PICK c \in Nat : c = v.cap
  BY RoomyParts
<1>3. v.items \in Seq(S) /\ c > 0 /\ n <= c
  BY <1>1, <1>2, RoomyParts
<1>4. <<x>> \in Seq(S) /\ Len(<<x>>) = 1
  OBVIOUS
<1>5. CASE pos >= n
  <2>1. PICK g : g = Gap(v, pos)
    OBVIOUS
  <2>2. g \in Seq(S) /\ Len(g) = pos - n
    <3>1. g \in Seq(S) /\ Len(g) = IF pos <= n THEN 0 ELSE pos - n
      BY <1>1, <2>1, GapIs
    <3>2. QED
      BY <1>5, <3>1
  <2>3. v.items \o g \in Seq(S) /\ Len(v.items \o g) = pos
    <3>1. PICK m \in Nat : m = pos - n
      BY <1>5
    <3>2. v.items \o g \in Seq(S) /\ Len(v.items \o g) = n + m
      BY <1>1, <1>3, <2>2, <3>1, Concat
    <3>3. QED
      BY <3>1, <3>2
  <2>4. PICK h : h = v.items \o g
    OBVIOUS
  <2>5. h \o <<x>> \in Seq(S) /\ Len(h \o <<x>>) = pos + 1
    <3>1. PICK o \in Nat : o = 1
      OBVIOUS
    <3>2. h \in Seq(S) /\ Len(h) = pos
      BY <2>3, <2>4
    <3>3. h \o <<x>> \in Seq(S) /\ Len(h \o <<x>>) = pos + o
      BY <1>4, <3>1, <3>2, Concat
    <3>4. QED
      BY <3>1, <3>3
  <2>6. PICK d \in Nat : d = IF c < pos + 1 THEN pos + 1 ELSE c
    OBVIOUS
  <2>7. vector_insert(v, x, pos) = [items |-> h \o <<x>>, cap |-> d]
    BY <1>1, <1>2, <1>5, <2>1, <2>4, <2>6 DEF vector_insert, vector_size, Grown
  <2>8. d > 0 /\ pos + 1 <= d
    BY <1>3, <2>6
  <2>9. PICK s : s = h \o <<x>>
    OBVIOUS
  <2>10. s \in Seq(S) /\ Len(s) = pos + 1 /\ Len(s) <= d
    BY <2>5, <2>8, <2>9
  <2>11. [items |-> s, cap |-> d] \in Roomy(S)
    BY <2>8, <2>10, MakeRoomy
  <2>12. QED
    BY <1>1, <1>5, <2>7, <2>9, <2>10, <2>11
<1>6. CASE pos < n
  <2>1. SubSeq(v.items, 1, pos) \in Seq(S) /\ Len(SubSeq(v.items, 1, pos)) = pos
    BY <1>1, <1>3, <1>6, Part
  <2>2. SubSeq(v.items, pos + 1, n) \in Seq(S) /\ Len(SubSeq(v.items, pos + 1, n)) = n - pos
    BY <1>1, <1>3, <1>6, Part
  <2>3. PICK g : g = SubSeq(v.items, 1, pos) \o <<x>>
    OBVIOUS
  <2>4. g \in Seq(S) /\ Len(g) = pos + 1
    BY <1>4, <2>1, <2>3
  <2>5. PICK h : h = g \o SubSeq(v.items, pos + 1, n)
    OBVIOUS
  <2>6. h \in Seq(S) /\ Len(h) = n + 1
    <3>1. PICK m \in Nat : m = n - pos
      BY <1>6
    <3>2. PICK l \in Nat : l = pos + 1
      OBVIOUS
    <3>3. PICK past : past = SubSeq(v.items, pos + 1, n)
      OBVIOUS
    <3>4. past \in Seq(S) /\ Len(past) = m /\ Len(g) = l
      BY <2>2, <2>4, <3>1, <3>2, <3>3
    <3>5. g \o past \in Seq(S) /\ Len(g \o past) = l + m
      BY <2>4, <3>4, Concat
    <3>6. l + m = n + 1
      BY <3>1, <3>2
    <3>7. QED
      BY <2>5, <3>3, <3>5, <3>6
  <2>7. InsertAt(v.items, pos + 1, x) = h
    <3>1. (pos + 1) - 1 = pos
      OBVIOUS
    <3>2. QED
      BY <1>1, <2>3, <2>5, <3>1 DEF InsertAt
  <2>8. PICK d \in Nat : d = IF c < n + 1 THEN n + 1 ELSE c
    OBVIOUS
  <2>9. vector_insert(v, x, pos) = [items |-> h, cap |-> d]
    BY <1>1, <1>2, <1>6, <2>7, <2>8 DEF vector_insert, vector_size, Grown
  <2>10. d > 0 /\ n + 1 <= d
    BY <1>3, <2>8
  <2>11. QED
    BY <1>1, <1>6, <2>6, <2>9, <2>10, MakeRoomy
<1>7. QED
  BY <1>1, <1>5, <1>6

\* What is inserted is then at its position.
LEMMA InsertedAt ==
  ASSUME NEW S, NEW v \in Roomy(S), NEW x \in S, NEW pos \in Nat,
         Junk \in S \/ pos <= Len(v.items)
  PROVE  vector_insert(v, x, pos).items[pos + 1] = x
<1>1. PICK n \in Nat : n = Len(v.items)
  BY RoomyParts
<1>2. v.items \in Seq(S)
  BY RoomyParts
<1>3. <<x>> \in Seq(S) /\ Len(<<x>>) = 1 /\ <<x>>[1] = x
  OBVIOUS
<1>4. CASE pos >= n
  <2>1. PICK g : g = Gap(v, pos)
    OBVIOUS
  <2>2. g \in Seq(S) /\ Len(g) = pos - n
    <3>1. g \in Seq(S) /\ Len(g) = IF pos <= n THEN 0 ELSE pos - n
      BY <1>1, <2>1, GapIs
    <3>2. QED
      BY <1>4, <3>1
  <2>3. PICK h : h = v.items \o g
    OBVIOUS
  <2>4. h \in Seq(S) /\ Len(h) = pos
    <3>1. PICK m \in Nat : m = pos - n
      BY <1>4
    <3>2. v.items \o g \in Seq(S) /\ Len(v.items \o g) = n + m
      BY <1>1, <1>2, <2>2, <3>1, Concat
    <3>3. QED
      BY <2>3, <3>1, <3>2
  <2>5. vector_insert(v, x, pos).items = h \o <<x>>
    BY <1>1, <1>4, <2>1, <2>3 DEF vector_insert, vector_size
  <2>6. (h \o <<x>>)[pos + 1] = x
    BY <1>3, <2>4
  <2>7. QED
    BY <2>5, <2>6
<1>5. CASE pos < n
  <2>1. PICK a : a = SubSeq(v.items, 1, pos)
    OBVIOUS
  <2>2. a \in Seq(S) /\ Len(a) = pos
    BY <1>1, <1>2, <1>5, <2>1, Part
  <2>3. PICK b : b = SubSeq(v.items, pos + 1, n)
    OBVIOUS
  <2>4. PICK m \in Nat : m = n - pos
    BY <1>5
  <2>5. b \in Seq(S) /\ Len(b) = m
    BY <1>1, <1>2, <1>5, <2>3, <2>4, Part
  <2>6. vector_insert(v, x, pos).items = (a \o <<x>>) \o b
    <3>1. (pos + 1) - 1 = pos
      OBVIOUS
    <3>2. InsertAt(v.items, pos + 1, x) = (a \o <<x>>) \o b
      BY <1>1, <2>1, <2>3, <3>1 DEF InsertAt
    <3>3. ~ (pos >= n)
      BY <1>5
    <3>4. PICK d : d = Grown(v, n + 1)
      OBVIOUS
    <3>5. PICK h : h = InsertAt(v.items, pos + 1, x)
      OBVIOUS
    <3>6. vector_insert(v, x, pos) = [items |-> h, cap |-> d]
      BY <1>1, <3>3, <3>4, <3>5, Zenon DEF vector_insert, vector_size
    <3>7. vector_insert(v, x, pos).items = h
      BY <3>6
    <3>8. QED
      BY <3>2, <3>5, <3>7
  <2>7. PICK g : g = a \o <<x>>
    OBVIOUS
  <2>8. g \in Seq(S) /\ Len(g) = pos + 1 /\ g[pos + 1] = x
    BY <1>3, <2>2, <2>7
  <2>9. (g \o b)[pos + 1] = g[pos + 1]
    <3>1. PICK l \in Nat : l = pos + 1
      OBVIOUS
    <3>2. Len(g) = l /\ l > 0
      BY <2>8, <3>1
    <3>3. (g \o b)[l] = g[l]
      BY <2>5, <2>8, <3>2
    <3>4. QED
      BY <3>1, <3>3
  <2>10. QED
    BY <2>6, <2>7, <2>8, <2>9
<1>6. QED
  BY <1>1, <1>4, <1>5

\* A split leaves room in the part that stays, and in the other part if there
\* is something in it.
LEMMA SplitIn ==
  ASSUME NEW S, NEW v \in Roomy(S), NEW pos \in Nat, pos < Len(v.items)
  PROVE  /\ vector_split(v, pos).head \in Roomy(S)
         /\ Len(vector_split(v, pos).head.items) = pos
         /\ vector_split(v, pos).tail \in Roomy(S)
<1>1. PICK n \in Nat : n = Len(v.items)
  BY RoomyParts
<1>2. PICK c \in Nat : c = v.cap
  BY RoomyParts
<1>3. v.items \in Seq(S) /\ c > 0 /\ n <= c /\ v = [items |-> v.items, cap |-> c]
  BY <1>1, <1>2, RoomyParts
<1>4. PICK h : h = Before(v, pos)
  OBVIOUS
<1>5. h \in Seq(S) /\ Len(h) = pos
  BY <1>1, <1>4, BeforeIs
<1>6. PICK g : g = SubSeq(v.items, pos + 1, n)
  OBVIOUS
<1>7. g \in Seq(S) /\ Len(g) = n - pos
  BY <1>1, <1>3, <1>6, Part
<1>8. PICK m \in Nat : m = n - pos /\ m > 0
  BY <1>1
<1>9. vector_split(v, pos) = [head |-> [items |-> h, cap |-> c], tail |-> [items |-> g, cap |-> m]]
  <2>1. [v EXCEPT !.items = h] = [items |-> h, cap |-> c]
    BY <1>3
  <2>2. Len(g) = m
    BY <1>7, <1>8
  <2>3. vector_split(v, pos) = [head |-> [v EXCEPT !.items = h], tail |-> [items |-> g, cap |-> Len(g)]]
    BY <1>1, <1>4, <1>6 DEF vector_split, vector_size
  <2>4. QED
    BY <2>1, <2>2, <2>3
<1>10. [items |-> h, cap |-> c] \in Roomy(S)
  <2>1. pos <= c
    BY <1>1, <1>3
  <2>2. QED
    BY <1>3, <1>5, <2>1, MakeRoomy
<1>11. [items |-> g, cap |-> m] \in Roomy(S)
  BY <1>7, <1>8, MakeRoomy
<1>12. QED
  BY <1>5, <1>9, <1>10, <1>11

\* A row that is put into another one at a position is as long as before, or
\* up to the end of what was put in.
LEMMA SwapIn ==
  ASSUME NEW S, NEW cur \in Roomy(S), NEW mv \in Roomy(S), NEW pos \in Nat,
         Junk \in S \/ pos <= Len(cur.items)
  PROVE  /\ vector_swap(cur, mv, pos).cur \in Roomy(S)
         /\ Len(vector_swap(cur, mv, pos).cur.items) >= pos + Len(mv.items)
              \/ (Len(mv.items) = 0 /\ vector_swap(cur, mv, pos).cur = cur)
<1>1. PICK n \in Nat : n = Len(cur.items)
  BY RoomyParts
<1>2. PICK c \in Nat : c = cur.cap
  BY RoomyParts
<1>3. PICK m \in Nat : m = Len(mv.items)
  BY RoomyParts
<1>4. cur.items \in Seq(S) /\ mv.items \in Seq(S) /\ c > 0 /\ n <= c
  BY <1>1, <1>2, RoomyParts
<1>5. CASE m = 0
  BY <1>3, <1>5 DEF vector_swap, vector_size
<1>6. CASE m # 0
  <2>1. PICK target \in Nat : target = pos + m
    OBVIOUS
  <2>2. PICK past : past = SubSeq(cur.items, target + 1, n)
    OBVIOUS
  <2>3. past \in Seq(S) /\ Len(past) = IF target < n THEN n - target ELSE 0
    BY <1>1, <1>4, <2>2, Part
  <2>4. PICK b : b = Before(cur, pos)
    OBVIOUS
  <2>5. PICK g : g = Gap(cur, pos)
    OBVIOUS
  <2>6. b \in Seq(S) /\ Len(b) = IF pos < n THEN pos ELSE n
    BY <1>1, <2>4, BeforeIs
  <2>7. g \in Seq(S) /\ Len(g) = IF pos <= n THEN 0 ELSE pos - n
    BY <1>1, <2>5, GapIs
  <2>8. PICK x : x = b \o g
    OBVIOUS
  <2>9. x \in Seq(S) /\ Len(x) = pos
    <3>1. PICK i \in Nat : i = IF pos < n THEN pos ELSE n
      OBVIOUS
    <3>2. PICK j \in Nat : j = IF pos <= n THEN 0 ELSE pos - n
      OBVIOUS
    <3>3. x \in Seq(S) /\ Len(x) = i + j
      BY SMTT(30), <2>6, <2>7, <2>8, <3>1, <3>2, Concat
    <3>4. i + j = pos
      BY <3>1, <3>2
    <3>5. QED
      BY <3>3, <3>4
  <2>10. PICK y : y = x \o mv.items
    OBVIOUS
  <2>11. y \in Seq(S) /\ Len(y) = target
    BY <1>3, <1>4, <2>1, <2>9, <2>10, Concat
  <2>12. PICK z : z = y \o past
    OBVIOUS
  <2>13. z \in Seq(S) /\ Len(z) = IF target < n THEN n ELSE target
    <3>1. PICK i \in Nat : i = IF target < n THEN n - target ELSE 0
      <4>1. CASE target < n
        BY <4>1
      <4>2. CASE ~ (target < n)
        BY <4>2
      <4>3. QED
        BY <4>1, <4>2
    <3>2. z \in Seq(S) /\ Len(z) = target + i
      BY <2>3, <2>11, <2>12, <3>1, Concat
    <3>3. target + i = IF target < n THEN n ELSE target
      BY <3>1
    <3>4. QED
      BY <3>2, <3>3
  <2>14. PICK d \in Nat : d = IF c < target THEN target ELSE c
    OBVIOUS
  <2>15. vector_swap(cur, mv, pos).cur = [items |-> z, cap |-> d]
    BY <1>1, <1>2, <1>3, <1>6, <2>1, <2>2, <2>4, <2>5, <2>8, <2>10, <2>12, <2>14
      DEF vector_swap, vector_size, Grown
  <2>16. d > 0 /\ (IF target < n THEN n ELSE target) <= d
    BY <1>4, <2>14
  <2>17. z \in Seq(S) /\ Len(z) <= d /\ Len(z) >= target
    BY <2>13, <2>16
  <2>18. QED
    BY <1>3, <2>1, <2>15, <2>16, <2>17, MakeRoomy
<1>7. QED
  BY <1>5, <1>6

\* An item that goes leaves the room it took.
LEMMA EraseIn ==
  ASSUME NEW S, NEW v \in Roomy(S), NEW i \in Nat
  PROVE  /\ vector_erase(v, i) \in Roomy(S)
         /\ Len(vector_erase(v, i).items) =
              IF i < Len(v.items) THEN Len(v.items) - 1 ELSE Len(v.items)
<1>1. PICK n \in Nat : n = Len(v.items)
  BY RoomyParts
<1>2. PICK c \in Nat : c = v.cap
  BY RoomyParts
<1>3. v.items \in Seq(S) /\ c > 0 /\ n <= c /\ v = [items |-> v.items, cap |-> c]
  BY <1>1, <1>2, RoomyParts
<1>4. CASE i < n
  <2>1. SubSeq(v.items, 1, i) \in Seq(S) /\ Len(SubSeq(v.items, 1, i)) = i
    BY <1>1, <1>3, <1>4, Part
  <2>2. SubSeq(v.items, i + 2, n) \in Seq(S) /\ Len(SubSeq(v.items, i + 2, n)) = n - i - 1
    BY <1>1, <1>3, <1>4, Part
  <2>3. PICK h : h = SubSeq(v.items, 1, i) \o SubSeq(v.items, i + 2, n)
    OBVIOUS
  <2>4. h \in Seq(S) /\ Len(h) = n - 1
    BY <1>4, <2>1, <2>2, <2>3
  <2>5. RemoveAt(v.items, i + 1) = h
    <3>1. (i + 1) - 1 = i /\ (i + 1) + 1 = i + 2
      OBVIOUS
    <3>2. QED
      BY <1>1, <2>3, <3>1 DEF RemoveAt
  <2>6. vector_erase(v, i) = [items |-> h, cap |-> c]
    BY <1>1, <1>3, <1>4, <2>5 DEF vector_erase, vector_size
  <2>7. n - 1 <= c
    BY <1>3
  <2>8. QED
    BY <1>1, <1>3, <1>4, <2>4, <2>6, <2>7, MakeRoomy
<1>5. CASE ~ (i < n)
  BY <1>1, <1>5 DEF vector_erase, vector_size
<1>6. QED
  BY <1>4, <1>5

\* v with k items more at its end, all of them item.
Longer(S, v, item, k) ==
  {w \in Roomy(S) : /\ Len(w.items) = Len(v.items) + k
                    /\ \A i \in 1 .. Len(w.items) :
                         w.items[i] = IF i <= Len(v.items) THEN v.items[i] ELSE item}

\* One more push of the same item.
LEMMA FilledStep ==
  ASSUME NEW S, NEW v \in Roomy(S), NEW item \in S, NEW k \in Nat, NEW w \in Longer(S, v, item, k)
  PROVE  vector_push(w, item) \in Longer(S, v, item, k + 1)
<1>1. PICK l \in Nat : l = Len(v.items)
  BY RoomyParts
<1>2. w \in Roomy(S) /\ Len(w.items) = l + k
  BY <1>1 DEF Longer
<1>3. \A i \in 1 .. (l + k) : w.items[i] = IF i <= l THEN v.items[i] ELSE item
  BY <1>1, <1>2 DEF Longer
<1>4. PICK u : u = vector_push(w, item)
  OBVIOUS
<1>5. u \in Roomy(S) /\ u.items = Append(w.items, item)
  BY <1>2, <1>4, PushIn
<1>6. w.items \in Seq(S)
  BY <1>2, RoomyParts
<1>7. Len(u.items) = l + (k + 1)
  BY <1>2, <1>5, <1>6
<1>8. ASSUME NEW i \in 1 .. (l + (k + 1))
      PROVE  u.items[i] = IF i <= l THEN v.items[i] ELSE item
  <2>1. CASE i = l + k + 1
    <3>1. u.items[i] = item
      BY <1>2, <1>5, <1>6, <2>1
    <3>2. ~ (i <= l)
      BY <2>1
    <3>3. QED
      BY <3>1, <3>2
  <2>2. CASE i # l + k + 1
    <3>1. i \in 1 .. (l + k)
      BY <2>2
    <3>2. u.items[i] = w.items[i]
      BY <1>2, <1>5, <1>6, <3>1
    <3>3. QED
      BY <1>3, <3>1, <3>2
  <2>3. QED
    BY <2>1, <2>2
<1>9. QED
  BY <1>1, <1>4, <1>5, <1>7, <1>8 DEF Longer

\* n pushes of the same item.
LEMMA PushTimesIn ==
  ASSUME NEW S, NEW v \in Roomy(S), NEW item \in S, NEW m \in Nat
  PROVE  PushTimes(v, item, m) \in Longer(S, v, item, m)
<1> DEFINE n == m
           E == [k \in 0 .. n |-> Longer(S, v, item, k)]
           G == [k \in 1 .. n |-> [x \in Longer(S, v, item, k - 1) |-> vector_push(x, item)]]
           p == CHOOSE f : f = [k \in 0 .. n |-> IF k = 0 THEN v ELSE vector_push(f[k - 1], item)]
<1>0. n \in Nat
  OBVIOUS
<1>1. v \in E[0]
  BY <1>0, RoomyParts DEF Longer
<1>2. ASSUME NEW k \in 1 .. n, NEW x \in E[k - 1]
      PROVE  vector_push(x, item) \in E[k] /\ G[k][x] = vector_push(x, item)
  <2>1. k - 1 \in Nat /\ (k - 1) + 1 = k /\ k - 1 \in 0 .. n /\ k \in 0 .. n
    BY <1>0
  <2>2. x \in Longer(S, v, item, k - 1)
    BY <2>1
  <2>3. vector_push(x, item) \in Longer(S, v, item, k)
    BY <2>1, <2>2, FilledStep
  <2>4. QED
    BY <2>1, <2>2, <2>3
<1> HIDE DEF E, G
<1>3. PICK f : Follows(f, n, v, G, E)
  <2>1. Leads(n, E, G)
    BY <1>2 DEF Leads
  <2> HIDE DEF n
  <2>2. QED
    BY <1>0, <1>1, <2>1, Recursion
<1>4. ASSUME NEW k \in 0 .. n
      PROVE  (IF k = 0 THEN v ELSE G[k][f[k - 1]])
               = IF k = 0 THEN v ELSE vector_push(f[k - 1], item)
  <2>1. CASE k # 0
    <3> HIDE DEF n
    <3>1. k \in 1 .. n /\ k - 1 \in 0 .. n
      BY <1>0, <2>1
    <3>2. f[k - 1] \in E[k - 1]
      BY <1>3, <3>1 DEF Follows
    <3>3. G[k][f[k - 1]] = vector_push(f[k - 1], item)
      BY <1>2, <3>1, <3>2
    <3>4. QED
      BY <3>3, Zenon
  <2>2. QED
    BY <2>1, Zenon
<1>5. f = [k \in 0 .. n |-> IF k = 0 THEN v ELSE G[k][f[k - 1]]]
  BY <1>3 DEF Follows
<1>6. f = [k \in 0 .. n |-> IF k = 0 THEN v ELSE vector_push(f[k - 1], item)]
  BY <1>4, <1>5, Zenon
<1>7. p = [k \in 0 .. n |-> IF k = 0 THEN v ELSE vector_push(p[k - 1], item)]
  BY <1>6, Zenon
<1>8. PushTimes(v, item, n) = p[n]
  BY Zenon DEF PushTimes
<1> HIDE DEF p
<1>9. p[0] \in E[0]
  <2>1. 0 \in 0 .. n
    BY <1>0
  <2>2. p[0] = v
    BY <1>7, <2>1
  <2>3. QED
    BY <1>1, <2>2
<1>10. ASSUME NEW k \in 1 .. n, p[k - 1] \in E[k - 1]
       PROVE  p[k] \in E[k]
  <2>1. k \in 0 .. n /\ k # 0
    BY <1>0
  <2>2. p[k] = vector_push(p[k - 1], item)
    BY <1>7, <2>1
  <2>3. QED
    BY <1>2, <1>10, <2>2
<1>11. p[n] \in E[n]
  <2> HIDE DEF n
  <2>1. \A k \in 0 .. n : p[k] \in E[k]
    BY <1>0, <1>9, <1>10, Reached
  <2>2. QED
    BY <1>0, <2>1
<1>12. QED
  BY <1>0, <1>8, <1>11 DEF E

\* The vectors with the first k items of s.
Prefix(S, s, k) == {w \in Roomy(S) : Len(w.items) = k /\ \A i \in 1 .. k : w.items[i] = s[i]}

\* One more push of the next item.
LEMMA PrefixStep ==
  ASSUME NEW S, NEW s \in Seq(S), NEW k \in Nat, k < Len(s), NEW w \in Prefix(S, s, k)
  PROVE  vector_push(w, s[k + 1]) \in Prefix(S, s, k + 1)
<1>1. w \in Roomy(S) /\ Len(w.items) = k /\ \A i \in 1 .. k : w.items[i] = s[i]
  BY DEF Prefix
<1>2. s[k + 1] \in S
  OBVIOUS
<1>3. PICK u : u = vector_push(w, s[k + 1])
  OBVIOUS
<1>4. u \in Roomy(S) /\ u.items = Append(w.items, s[k + 1])
  BY <1>1, <1>2, <1>3, PushIn
<1>5. w.items \in Seq(S)
  BY <1>1, RoomyParts
<1>6. Len(u.items) = k + 1
  BY <1>1, <1>4, <1>5
<1>7. ASSUME NEW i \in 1 .. (k + 1)
      PROVE  u.items[i] = s[i]
  <2>1. CASE i = k + 1
    BY <1>1, <1>4, <1>5, <2>1
  <2>2. CASE i # k + 1
    <3>1. i \in 1 .. k
      BY <2>2
    <3>2. u.items[i] = w.items[i]
      BY <1>1, <1>4, <1>5, <3>1
    <3>3. QED
      BY <1>1, <3>1, <3>2
  <2>3. QED
    BY <2>1, <2>2
<1>8. QED
  BY <1>3, <1>4, <1>6, <1>7 DEF Prefix

\* Sequences with the same elements are the same.
LEMMA SameSequence ==
  ASSUME NEW S, NEW s \in Seq(S), NEW u \in Seq(S), Len(u) = Len(s),
         \A i \in 1 .. Len(s) : u[i] = s[i]
  PROVE  u = s
<1>1. s = [i \in 1 .. Len(s) |-> s[i]] /\ u = [i \in 1 .. Len(u) |-> u[i]]
  OBVIOUS
<1>2. QED
  BY <1>1

\* A copy has the items of the original.
LEMMA PushAllIn ==
  ASSUME NEW S, NEW s \in Seq(S), NEW c, c = create_vector(DEFAULT_VECTOR_CAPACITY)
  PROVE  PushAll(c, s) \in Roomy(S) /\ PushAll(c, s).items = s
<1> DEFINE n == Len(s)
           E == [k \in 0 .. n |-> Prefix(S, s, k)]
           G == [k \in 1 .. n |-> [x \in Prefix(S, s, k - 1) |-> vector_push(x, s[k])]]
           p == CHOOSE f : f = [k \in 0 .. n |-> IF k = 0 THEN c ELSE vector_push(f[k - 1], s[k])]
<1>0. n \in Nat
  OBVIOUS
<1>1. c \in E[0]
  BY <1>0, CreateIn DEF Prefix
<1>2. ASSUME NEW k \in 1 .. n, NEW x \in E[k - 1]
      PROVE  vector_push(x, s[k]) \in E[k] /\ G[k][x] = vector_push(x, s[k])
  <2>1. k - 1 \in Nat /\ (k - 1) + 1 = k /\ k - 1 \in 0 .. n /\ k \in 0 .. n
    BY <1>0
  <2>2. x \in Prefix(S, s, k - 1)
    BY <2>1
  <2>3. vector_push(x, s[k]) \in Prefix(S, s, k)
    <3>1. PICK l \in Nat : l = k - 1
      BY <2>1
    <3>2. l < Len(s) /\ l + 1 = k
      BY <1>0, <2>1, <3>1
    <3>3. QED
      BY <2>2, <3>1, <3>2, PrefixStep
  <2>4. QED
    BY <2>1, <2>2, <2>3
<1> HIDE DEF E, G
<1>3. PICK f : Follows(f, n, c, G, E)
  <2>1. Leads(n, E, G)
    BY <1>2 DEF Leads
  <2> HIDE DEF n
  <2>2. QED
    BY <1>0, <1>1, <2>1, Recursion
<1>4. ASSUME NEW k \in 0 .. n
      PROVE  (IF k = 0 THEN c ELSE G[k][f[k - 1]])
               = IF k = 0 THEN c ELSE vector_push(f[k - 1], s[k])
  <2>1. CASE k # 0
    <3> HIDE DEF n
    <3>1. k \in 1 .. n /\ k - 1 \in 0 .. n
      BY <1>0, <2>1
    <3>2. f[k - 1] \in E[k - 1]
      BY <1>3, <3>1 DEF Follows
    <3>3. G[k][f[k - 1]] = vector_push(f[k - 1], s[k])
      BY <1>2, <3>1, <3>2
    <3>4. QED
      BY <3>3, Zenon
  <2>2. QED
    BY <2>1, Zenon
<1>5. f = [k \in 0 .. n |-> IF k = 0 THEN c ELSE G[k][f[k - 1]]]
  BY <1>3 DEF Follows
<1>6. f = [k \in 0 .. n |-> IF k = 0 THEN c ELSE vector_push(f[k - 1], s[k])]
  BY <1>4, <1>5, Zenon
<1>7. p = [k \in 0 .. n |-> IF k = 0 THEN c ELSE vector_push(p[k - 1], s[k])]
  BY <1>6, Zenon
<1>8. PushAll(c, s) = p[n]
  BY Zenon DEF PushAll
<1> HIDE DEF p
<1>9. p[0] \in E[0]
  <2>1. 0 \in 0 .. n
    BY <1>0
  <2>2. p[0] = c
    BY <1>7, <2>1
  <2>3. QED
    BY <1>1, <2>2
<1>10. ASSUME NEW k \in 1 .. n, p[k - 1] \in E[k - 1]
       PROVE  p[k] \in E[k]
  <2>1. k \in 0 .. n /\ k # 0
    BY <1>0
  <2>2. p[k] = vector_push(p[k - 1], s[k])
    BY <1>7, <2>1
  <2>3. QED
    BY <1>2, <1>10, <2>2
<1>11. p[n] \in E[n]
  <2> HIDE DEF n
  <2>1. \A k \in 0 .. n : p[k] \in E[k]
    BY <1>0, <1>9, <1>10, Reached
  <2>2. QED
    BY <1>0, <2>1
<1>12. QED
  <2>1. p[n] \in Prefix(S, s, n)
    BY <1>0, <1>11 DEF E
  <2>2. p[n] \in Roomy(S) /\ Len(p[n].items) = Len(s) /\ \A i \in 1 .. Len(s) : p[n].items[i] = s[i]
    BY <2>1 DEF Prefix
  <2>3. p[n].items \in Seq(S)
    BY <2>2, RoomyParts
  <2> HIDE DEF n
  <2>4. p[n].items = s
    BY <2>2, <2>3, SameSequence
  <2>5. QED
    BY <1>8, <2>2, <2>4
-----------------------------------------------------------------------------
(* Rows and cells.                                                         *)

\* What is missing up to a number.
LEMMA Missing ==
  ASSUME NEW a \in Int
  PROVE  Max({0, a}) \in Nat /\ Max({0, a}) = IF a > 0 THEN a ELSE 0
<1>1. \E x \in {0, a} : \A y \in {0, a} : x >= y
  OBVIOUS
<1>2. PICK m : m = Max({0, a})
  OBVIOUS
<1>3. m \in {0, a} /\ \A y \in {0, a} : m >= y
  BY <1>1, <1>2 DEF Max
<1>4. QED
  BY <1>2, <1>3

\* The lesser of two numbers.
LEMMA Lesser ==
  ASSUME NEW a \in Int, NEW b \in Int
  PROVE  Min({a, b}) = IF a <= b THEN a ELSE b
<1>1. \E x \in {a, b} : \A y \in {a, b} : x <= y
  OBVIOUS
<1>2. PICK m : m = Min({a, b})
  OBVIOUS
<1>3. m \in {a, b} /\ \A y \in {a, b} : m <= y
  BY <1>1, <1>2 DEF Min
<1>4. QED
  BY <1>2, <1>3

\* A set of values that every operation on a cell, but not on Junk, stays in.
HoldsCells(S) == Cells \subseteq S /\ S \subseteq Cells \cup {Junk}

\* The cells, and Junk.
AnyCell == Cells \cup {Junk}

\* The empty string is a text.
LEMMA EmptyTextIsWord == EmptyText \in Words
  BY DEF EmptyText, Words

\* The operations make cells of cells.
LEMMA CellIn ==
  /\ create_cell \in Cells
  /\ \A c \in Cells, x \in Words : [c EXCEPT !.text = x] \in Cells
  /\ \A c \in Cells, y \in {"MASTER", "SLAVE"} : [c EXCEPT !.type = y] \in Cells
<1>1. create_cell \in Cells
  BY EmptyTextIsWord DEF create_cell, Cells
<1>2. ASSUME NEW c \in Cells, NEW x \in Words
      PROVE  [c EXCEPT !.text = x] \in Cells
  BY DEF Cells
<1>3. ASSUME NEW c \in Cells, NEW y \in {"MASTER", "SLAVE"}
      PROVE  [c EXCEPT !.type = y] \in Cells
  BY DEF Cells
<1>4. QED
  BY <1>1, <1>2, <1>3

\* The cells hold what the operations make of them, with Junk or without.
LEMMA CellsHold == HoldsCells(Cells) /\ HoldsCells(AnyCell) /\ Junk \in AnyCell
  BY DEF HoldsCells, AnyCell

\* Two texts in one.
LEMMA JoinedIsWord ==
  ASSUME NEW a \in Words, NEW b \in Words
  PROVE  Joined(a, b) \in Words
<1>1. a \in Seq(Nat) /\ b \in Seq(Nat) /\ a # << >> /\ b # << >>
  BY DEF Words
<1>2. PICK m \in Nat : m = Len(a) - 1
  <2>1. Len(a) \in Nat /\ Len(a) # 0
    BY <1>1
  <2>2. QED
    BY <2>1
<1>3. m <= Len(a) /\ Len(a) = m + 1
  BY <1>1, <1>2
<1>4. PICK f : f = SubSeq(a, 1, m)
  OBVIOUS
<1>5. f \in Seq(Nat) /\ Len(f) = m
  BY SMTT(30), <1>1, <1>3, <1>4, Part
<1>6. a[Len(a)] \in Nat /\ Head(b) \in Nat /\ Tail(b) \in Seq(Nat)
  BY <1>1, <1>3
<1>7. PICK s : s = a[Len(a)] + 1 + Head(b)
  OBVIOUS
<1>8. <<s>> \in Seq(Nat) /\ Len(<<s>>) = 1
  BY SMTT(30), <1>6, <1>7
<1>9. PICK g : g = f \o <<s>>
  OBVIOUS
<1>10. g \in Seq(Nat) /\ Len(g) = m + 1
  <2>1. PICK o \in Nat : o = 1
    OBVIOUS
  <2>2. QED
    BY <1>5, <1>8, <1>9, <2>1, Concat
<1>11. PICK u \in Seq(Nat) : u = Tail(b)
  BY <1>6
<1>12. PICK l \in Nat : l = Len(u)
  BY <1>11
<1>13. g \o u \in Seq(Nat) /\ Len(g \o u) = (m + 1) + l
  <2>1. PICK k \in Nat : k = m + 1
    OBVIOUS
  <2>2. QED
    BY <1>10, <1>11, <1>12, <2>1, Concat
<1>14. g \o u # << >>
  <2>1. Len(<< >>) = 0 /\ (m + 1) + l # 0
    OBVIOUS
  <2>2. QED
    BY <1>13, <2>1
<1>15. Joined(a, b) = g \o u
  BY <1>2, <1>4, <1>7, <1>9, <1>11 DEF Joined, Front, Last
<1>16. QED
  BY <1>13, <1>14, <1>15 DEF Words

\* All texts in one.
LEMMA AllJoinedIsWord ==
  ASSUME NEW texts \in Seq(Words), texts # << >>
  PROVE  AllJoined(texts) \in Words
<1> DEFINE n == Len(texts) - 1
           E == [k \in 0 .. n |-> Words]
           G == [k \in 1 .. n |-> [x \in Words |-> Joined(x, texts[k + 1])]]
           p == CHOOSE f : f = [k \in 0 .. n |->
                                    IF k = 0 THEN texts[1] ELSE Joined(f[k - 1], texts[k + 1])]
<1>0. n \in Nat
  OBVIOUS
<1>1. texts[1] \in E[0]
  <2>1. texts[1] \in Words /\ 0 \in 0 .. n
    BY <1>0
  <2>2. QED
    BY <2>1
<1>2. ASSUME NEW k \in 1 .. n, NEW x \in E[k - 1]
      PROVE  Joined(x, texts[k + 1]) \in E[k] /\ G[k][x] = Joined(x, texts[k + 1])
  <2>1. k - 1 \in Nat /\ (k - 1) + 1 = k /\ k - 1 \in 0 .. n /\ k \in 0 .. n
    BY <1>0
  <2>2. x \in Words
    BY <2>1
  <2>3. Joined(x, texts[k + 1]) \in Words
    <3>1. k + 1 \in 1 .. Len(texts)
      BY <1>0
    <3>2. texts[k + 1] \in Words
      BY <3>1
    <3>3. QED
      BY <2>2, <3>2, JoinedIsWord
  <2>4. QED
    BY <2>1, <2>2, <2>3
<1> HIDE DEF E, G
<1>3. PICK f : Follows(f, n, texts[1], G, E)
  <2>1. Leads(n, E, G)
    BY <1>2 DEF Leads
  <2> HIDE DEF n
  <2>2. QED
    BY <1>0, <1>1, <2>1, Recursion
<1>4. ASSUME NEW k \in 0 .. n
      PROVE  (IF k = 0 THEN texts[1] ELSE G[k][f[k - 1]])
               = IF k = 0 THEN texts[1] ELSE Joined(f[k - 1], texts[k + 1])
  <2>1. CASE k # 0
    <3> HIDE DEF n
    <3>1. k \in 1 .. n /\ k - 1 \in 0 .. n
      BY <1>0, <2>1
    <3>2. f[k - 1] \in E[k - 1]
      BY <1>3, <3>1 DEF Follows
    <3>3. G[k][f[k - 1]] = Joined(f[k - 1], texts[k + 1])
      BY <1>2, <3>1, <3>2
    <3>4. QED
      BY <3>3, Zenon
  <2>2. QED
    BY <2>1, Zenon
<1>5. f = [k \in 0 .. n |-> IF k = 0 THEN texts[1] ELSE G[k][f[k - 1]]]
  BY <1>3 DEF Follows
<1>6. f = [k \in 0 .. n |-> IF k = 0 THEN texts[1] ELSE Joined(f[k - 1], texts[k + 1])]
  BY <1>4, <1>5, Zenon
<1>7. p = [k \in 0 .. n |-> IF k = 0 THEN texts[1] ELSE Joined(p[k - 1], texts[k + 1])]
  BY <1>6, Zenon
<1>8. AllJoined(texts) = p[n]
  BY Zenon DEF AllJoined
<1> HIDE DEF p
<1>9. p[0] \in E[0]
  <2>1. 0 \in 0 .. n
    BY <1>0
  <2>2. p[0] = texts[1]
    BY <1>7, <2>1
  <2>3. QED
    BY <1>1, <2>2
<1>10. ASSUME NEW k \in 1 .. n, p[k - 1] \in E[k - 1]
       PROVE  p[k] \in E[k]
  <2>1. k \in 0 .. n /\ k # 0
    BY <1>0
  <2>2. p[k] = Joined(p[k - 1], texts[k + 1])
    BY <1>7, <2>1
  <2>3. QED
    BY <1>2, <1>10, <2>2
<1>11. p[n] \in E[n]
  <2> HIDE DEF n
  <2>1. \A k \in 0 .. n : p[k] \in E[k]
    BY <1>0, <1>9, <1>10, Reached
  <2>2. QED
    BY <1>0, <2>1
<1>12. QED
  BY <1>0, <1>8, <1>11 DEF E

\* The row of a format.
LEMMA FormatRowIn ==
  ASSUME NEW S, HoldsCells(S), NEW fmt \in Formats
  PROVE  create_row_from_fmt_string(fmt) \in Roomy(S)
<1>1. fmt.cells \in Seq(Words) /\ fmt.cells # << >>
  BY TextsAssumption
<1>2. PICK texts : texts = IF Len(fmt.cells) = fmt.origin THEN fmt.cells ELSE <<AllJoined(fmt.cells)>>
  OBVIOUS
<1>3. AllJoined(fmt.cells) \in Words
  BY <1>1, AllJoinedIsWord
<1>4. <<AllJoined(fmt.cells)>> \in Seq(Words)
  BY <1>3
<1>5. texts \in Seq(Words)
  BY <1>1, <1>2, <1>4
<1>6. PICK s : s = [i \in DOMAIN texts |-> fill_cell_from_string(create_cell, texts[i])]
  OBVIOUS
<1>7. \A i \in DOMAIN texts : fill_cell_from_string(create_cell, texts[i]) \in S
  BY <1>5, CellIn DEF HoldsCells, fill_cell_from_string
<1>8. s \in Seq(S)
  BY <1>5, <1>6, <1>7
<1>9. create_row_from_fmt_string(fmt) = PushAll(create_vector(DEFAULT_VECTOR_CAPACITY), s)
  BY <1>2, <1>6 DEF create_row_from_fmt_string, create_row
<1>10. QED
  BY <1>8, <1>9, PushAllIn

\* Missing cells are created up to a column.
LEMMA GetCellIn ==
  ASSUME NEW S, HoldsCells(S), NEW row \in Roomy(S), NEW col \in Nat
  PROVE  /\ get_cell_and_create_if_not_exists(row, col) \in Roomy(S)
         /\ Len(get_cell_and_create_if_not_exists(row, col).items) > col
         /\ Len(get_cell_and_create_if_not_exists(row, col).items) >= Len(row.items)
         /\ \A i \in 1 .. Len(get_cell_and_create_if_not_exists(row, col).items) :
              get_cell_and_create_if_not_exists(row, col).items[i] =
                IF i <= Len(row.items) THEN row.items[i] ELSE create_cell
<1>1. PICK n \in Nat : n = Len(row.items)
  BY RoomyParts
<1>2. PICK m \in Nat : m = Max({0, col + 1 - n}) /\ m = IF col + 1 - n > 0 THEN col + 1 - n ELSE 0
  BY Missing
<1>3. PICK w : w = get_cell_and_create_if_not_exists(row, col)
  OBVIOUS
<1>4. w = PushTimes(row, create_cell, m)
  BY <1>1, <1>2, <1>3 DEF get_cell_and_create_if_not_exists, columns_in_row, vector_size
<1>5. w \in Longer(S, row, create_cell, m)
  BY <1>4, PushTimesIn, CellIn DEF HoldsCells
<1>6. /\ w \in Roomy(S) /\ Len(w.items) = n + m
      /\ \A i \in 1 .. Len(w.items) : w.items[i] = IF i <= Len(row.items) THEN row.items[i] ELSE create_cell
  BY <1>1, <1>5 DEF Longer
<1>7. n + m > col /\ n + m >= n
  BY <1>2
<1>8. QED
  BY <1>1, <1>3, <1>6, <1>7

\* Other items and the same capacity.
LEMMA SetItems ==
  ASSUME NEW v, v = [items |-> v.items, cap |-> v.cap], NEW s
  PROVE  [v EXCEPT !.items = s] = [items |-> s, cap |-> v.cap]
  OBVIOUS

\* A text changes the one cell it is for.
LEMMA SetTextIn ==
  ASSUME NEW S, HoldsCells(S), NEW row \in Roomy(S), NEW col \in Nat, col < Len(row.items),
         row.items[col + 1] # Junk, NEW text \in Words
  PROVE  /\ SetText(row, col, text) \in Roomy(S)
         /\ Len(SetText(row, col, text).items) = Len(row.items)
         /\ \A i \in 1 .. Len(row.items) :
              SetText(row, col, text).items[i] = Junk => i # col + 1 /\ row.items[i] = Junk
<1>1. PICK n \in Nat : n = Len(row.items)
  BY RoomyParts
<1>2. row.items \in Seq(S) /\ row.cap \in Nat /\ row.cap > 0 /\ n <= row.cap
      /\ row = [items |-> row.items, cap |-> row.cap]
  BY <1>1, RoomyParts
<1>3. row.items[col + 1] \in S /\ row.items[col + 1] \in Cells
  BY <1>1, <1>2 DEF HoldsCells
<1>4. PICK x \in Cells : x = [row.items[col + 1] EXCEPT !.text = text]
  BY <1>3, CellIn
<1>5. PICK s : s = [row.items EXCEPT ![col + 1] = x]
  OBVIOUS
<1>6. s \in Seq(S) /\ Len(s) = n
      /\ \A i \in 1 .. n : s[i] = Junk => i # col + 1 /\ row.items[i] = Junk
  BY <1>1, <1>2, <1>5, JunkAssumption DEF HoldsCells
<1>7. SetText(row, col, text) = [items |-> s, cap |-> row.cap]
  <2>1. SetText(row, col, text) = [row EXCEPT !.items = s]
    BY <1>2, <1>4, <1>5, Zenon DEF SetText, fill_cell_from_string
  <2>2. QED
    BY <1>2, <2>1, SetItems
<1>8. QED
  BY <1>1, <1>2, <1>6, <1>7, MakeRoomy

\* A span creates cells and changes types.
LEMMA SpanIn ==
  ASSUME NEW S, HoldsCells(S), NEW row \in Roomy(S), NEW col \in Nat,
         NEW hor_span \in Nat, hor_span >= 2,
         \A i \in (col + 1) .. (col + hor_span) : i <= Len(row.items) => row.items[i] # Junk
  PROVE  /\ row_set_cell_span(row, col, hor_span) \in Roomy(S)
         /\ Len(row_set_cell_span(row, col, hor_span).items) >= Len(row.items)
<1>1. PICK last \in Nat : last = col + hor_span - 1
  OBVIOUS
<1>2. PICK w : w = get_cell_and_create_if_not_exists(row, last)
  OBVIOUS
<1>3. /\ w \in Roomy(S) /\ Len(w.items) >= Len(row.items)
      /\ \A i \in 1 .. Len(w.items) : w.items[i] = IF i <= Len(row.items) THEN row.items[i] ELSE create_cell
  BY <1>2, GetCellIn
<1>4. w.items \in Seq(S) /\ w.cap \in Nat /\ w.cap > 0 /\ Len(w.items) <= w.cap
      /\ w = [items |-> w.items, cap |-> w.cap]
  BY <1>3, RoomyParts
<1>5. PICK s : s = [i \in DOMAIN w.items |->
                      IF i = col + 1 THEN [w.items[i] EXCEPT !.type = "MASTER"]
                      ELSE IF i \in (col + 2) .. (col + hor_span) THEN [w.items[i] EXCEPT !.type = "SLAVE"]
                      ELSE w.items[i]]
  OBVIOUS
<1>6. \A i \in DOMAIN w.items : w.items[i] \in S
  BY <1>4
<1>7. \A i \in DOMAIN w.items : s[i] \in S
  <2> TAKE i \in DOMAIN w.items
  <2>1. ASSUME i \in (col + 1) .. (col + hor_span)
        PROVE  w.items[i] \in Cells
    <3>1. i \in 1 .. Len(w.items)
      BY <1>4
    <3>2. w.items[i] # Junk
      BY <1>3, <2>1, <3>1, CellIn, JunkAssumption
    <3>3. QED
      BY <1>6, <3>2 DEF HoldsCells
  <2>2. CASE i = col + 1
    <3>1. i \in (col + 1) .. (col + hor_span)
      BY <2>2
    <3>2. [w.items[i] EXCEPT !.type = "MASTER"] \in Cells
      BY <2>1, <3>1, CellIn
    <3>3. QED
      BY <1>5, <2>2, <3>2 DEF HoldsCells
  <2>3. CASE i # col + 1 /\ i \in (col + 2) .. (col + hor_span)
    <3>1. i \in (col + 1) .. (col + hor_span)
      BY <2>3
    <3>2. [w.items[i] EXCEPT !.type = "SLAVE"] \in Cells
      BY <2>1, <3>1, CellIn
    <3>3. QED
      BY <1>5, <2>3, <3>2 DEF HoldsCells
  <2>4. CASE i # col + 1 /\ i \notin (col + 2) .. (col + hor_span)
    BY <1>5, <1>6, <2>4
  <2>5. QED
    BY <2>2, <2>3, <2>4
<1>8. DOMAIN s = DOMAIN w.items /\ DOMAIN w.items = 1 .. Len(w.items)
      /\ s = [i \in DOMAIN s |-> s[i]]
  BY <1>4, <1>5
<1>9. s \in Seq(S) /\ Len(s) = Len(w.items)
  <2>1. PICK n \in Nat : n = Len(w.items)
    BY <1>4
  <2>2. s \in [1 .. n -> S]
    BY <1>7, <1>8, <2>1
  <2>3. s \in Seq(S) /\ Len(s) = n
    BY <2>2
  <2>4. QED
    BY <2>1, <2>3
<1>10. row_set_cell_span(row, col, hor_span) = [items |-> s, cap |-> w.cap]
  <2>1. row_set_cell_span(row, col, hor_span) = [w EXCEPT !.items = s]
    BY <1>1, <1>2, <1>5, Zenon DEF row_set_cell_span
  <2>2. QED
    BY <1>4, <2>1, SetItems
<1>11. QED
  BY <1>3, <1>4, <1>9, <1>10, MakeRoomy

\* The rows with at least so many columns behind a position.
Reaching(S, pos, k) == {w \in Roomy(S) : Len(w.items) >= pos + k}

\* The cells of one row, inserted one after the other into another row that
\* reaches the column.
LEMMA InsertRowIn ==
  ASSUME NEW S, HoldsCells(S), NEW cur \in Roomy(S), NEW ins \in Roomy(S), NEW pos \in Nat,
         NEW padded \in Roomy(S), Len(padded.items) >= pos,
         padded = PushTimes(cur, create_cell, Max({0, pos - columns_in_row(cur)}))
  PROVE  insert_row(cur, ins, pos) \in Reaching(S, pos, columns_in_row(ins))
<1> DEFINE n == columns_in_row(ins)
           E == [k \in 0 .. n |-> Reaching(S, pos, k)]
           G == [k \in 1 .. n |->
                     [x \in Reaching(S, pos, k - 1) |-> vector_insert(x, ins.items[k], pos + k - 1)]]
           p == CHOOSE f : f = [k \in 0 .. n |->
                                    IF k = 0 THEN padded
                                    ELSE vector_insert(f[k - 1], ins.items[k], pos + k - 1)]
<1>0. n \in Nat
  BY RoomyParts DEF columns_in_row, vector_size
<1>1. padded \in E[0]
  BY <1>0 DEF Reaching
<1>2. ASSUME NEW k \in 1 .. n, NEW x \in E[k - 1]
      PROVE  vector_insert(x, ins.items[k], pos + k - 1) \in E[k]
             /\ G[k][x] = vector_insert(x, ins.items[k], pos + k - 1)
  <2>1. k - 1 \in Nat /\ (k - 1) + 1 = k /\ k - 1 \in 0 .. n /\ k \in 0 .. n
    BY <1>0
  <2>2. x \in Reaching(S, pos, k - 1)
    BY <2>1
  <2>3. vector_insert(x, ins.items[k], pos + k - 1) \in Reaching(S, pos, k)
    <3>1. PICK l \in Nat : l = pos + k - 1
      BY <2>1
    <3>2. x \in Roomy(S) /\ Len(x.items) >= l
      BY <2>1, <2>2, <3>1 DEF Reaching
    <3>3. ins.items[k] \in S
      BY <1>0, RoomyParts DEF columns_in_row, vector_size
    <3>4. PICK w : w = vector_insert(x, ins.items[k], l)
      OBVIOUS
    <3>5. PICK m \in Nat : m = Len(x.items)
      BY <3>2, RoomyParts
    <3>6. w \in Roomy(S) /\ Len(w.items) = IF l >= m THEN l + 1 ELSE m + 1
      BY <3>2, <3>3, <3>4, <3>5, InsertIn
    <3>7. Len(w.items) >= pos + k
      BY <3>1, <3>2, <3>5, <3>6
    <3>8. QED
      BY <2>1, <3>1, <3>4, <3>6, <3>7 DEF Reaching
  <2>4. QED
    BY <2>1, <2>2, <2>3
<1> HIDE DEF E, G
<1>3. PICK f : Follows(f, n, padded, G, E)
  <2>1. Leads(n, E, G)
    BY <1>2 DEF Leads
  <2> HIDE DEF n
  <2>2. QED
    BY <1>0, <1>1, <2>1, Recursion
<1>4. ASSUME NEW k \in 0 .. n
      PROVE  (IF k = 0 THEN padded ELSE G[k][f[k - 1]])
               = IF k = 0 THEN padded ELSE vector_insert(f[k - 1], ins.items[k], pos + k - 1)
  <2>1. CASE k # 0
    <3> HIDE DEF n
    <3>1. k \in 1 .. n /\ k - 1 \in 0 .. n
      BY <1>0, <2>1
    <3>2. f[k - 1] \in E[k - 1]
      BY <1>3, <3>1 DEF Follows
    <3>3. G[k][f[k - 1]] = vector_insert(f[k - 1], ins.items[k], pos + k - 1)
      BY <1>2, <3>1, <3>2
    <3>4. QED
      BY <3>3, Zenon
  <2>2. QED
    BY <2>1, Zenon
<1>5. f = [k \in 0 .. n |-> IF k = 0 THEN padded ELSE G[k][f[k - 1]]]
  BY <1>3 DEF Follows
<1>6. f = [k \in 0 .. n |->
               IF k = 0 THEN padded ELSE vector_insert(f[k - 1], ins.items[k], pos + k - 1)]
  BY <1>4, <1>5, Zenon
<1>7. p = [k \in 0 .. n |->
               IF k = 0 THEN padded ELSE vector_insert(p[k - 1], ins.items[k], pos + k - 1)]
  BY <1>6, Zenon
<1>8. insert_row(cur, ins, pos) = p[n]
  BY Zenon DEF insert_row
<1> HIDE DEF p
<1>9. p[0] \in E[0]
  <2>1. 0 \in 0 .. n
    BY <1>0
  <2>2. p[0] = padded
    BY <1>7, <2>1
  <2>3. QED
    BY <1>1, <2>2
<1>10. ASSUME NEW k \in 1 .. n, p[k - 1] \in E[k - 1]
       PROVE  p[k] \in E[k]
  <2>1. k \in 0 .. n /\ k # 0
    BY <1>0
  <2>2. p[k] = vector_insert(p[k - 1], ins.items[k], pos + k - 1)
    BY <1>7, <2>1
  <2>3. QED
    BY <1>2, <1>10, <2>2
<1>11. p[n] \in E[n]
  <2> HIDE DEF n
  <2>1. \A k \in 0 .. n : p[k] \in E[k]
    BY <1>0, <1>9, <1>10, Reached
  <2>2. QED
    BY <1>0, <2>1
<1>12. QED
  BY <1>0, <1>8, <1>11 DEF E

\* A row inserted into another one.
LEMMA InsertedRow ==
  ASSUME NEW S, HoldsCells(S), NEW cur \in Roomy(S), NEW ins \in Roomy(S), NEW pos \in Nat
  PROVE  /\ insert_row(cur, ins, pos) \in Roomy(S)
         /\ Len(insert_row(cur, ins, pos).items) >= pos + columns_in_row(ins)
<1>1. PICK n \in Nat : n = columns_in_row(cur) /\ n = Len(cur.items)
  BY RoomyParts DEF columns_in_row, vector_size
<1>2. PICK m \in Nat : m = Max({0, pos - n}) /\ m = IF pos - n > 0 THEN pos - n ELSE 0
  BY Missing
<1>3. PICK padded : padded = PushTimes(cur, create_cell, m)
  OBVIOUS
<1>4. padded \in Longer(S, cur, create_cell, m)
  BY <1>3, PushTimesIn, CellIn DEF HoldsCells
<1>5. padded \in Roomy(S) /\ Len(padded.items) = n + m
  BY <1>1, <1>4 DEF Longer
<1>6. n + m >= pos
  BY <1>2
<1>7. Len(padded.items) >= pos
  BY <1>5, <1>6
<1>8. padded = PushTimes(cur, create_cell, Max({0, pos - columns_in_row(cur)}))
  BY <1>1, <1>2, <1>3
<1>9. insert_row(cur, ins, pos) \in Reaching(S, pos, columns_in_row(ins))
  BY <1>5, <1>7, <1>8, InsertRowIn
<1>10. QED
  BY <1>9 DEF Reaching

\* A row put in the place of a part of another one.
LEMMA SwappedRow ==
  ASSUME NEW S, NEW cur \in Roomy(S), NEW ins \in Roomy(S), NEW pos \in Nat,
         Junk \in S \/ pos <= Len(cur.items)
  PROVE  /\ swap_row(cur, ins, pos).cur \in Roomy(S)
         /\ pos <= Len(cur.items) =>
              Len(swap_row(cur, ins, pos).cur.items) >= pos + columns_in_row(ins)
<1>1. PICK n \in Nat : n = Len(cur.items)
  BY RoomyParts
<1>2. PICK m \in Nat : m = columns_in_row(ins) /\ m = Len(ins.items)
  BY RoomyParts DEF columns_in_row, vector_size
<1>3. CASE n = 0 /\ pos = 0
  <2>1. swap_row(cur, ins, pos).cur = ins
    BY <1>1, <1>3 DEF swap_row, columns_in_row, vector_size
  <2>2. QED
    BY <1>2, <1>3, <2>1
<1>4. CASE ~ (n = 0 /\ pos = 0)
  <2>1. PICK w : w = vector_swap(cur, ins, pos)
    OBVIOUS
  <2>2. swap_row(cur, ins, pos) = w
    BY <1>1, <1>4, <2>1 DEF swap_row, columns_in_row, vector_size
  <2>3. /\ w.cur \in Roomy(S)
        /\ Len(w.cur.items) >= pos + m \/ (m = 0 /\ w.cur = cur)
    BY <1>2, <2>1, SwapIn
  <2>4. pos <= n => Len(w.cur.items) >= pos + m
    BY <1>1, <2>3
  <2>5. QED
    BY <1>1, <1>2, <2>2, <2>3, <2>4
<1>5. QED
  BY <1>3, <1>4

\* A copy of a row is a new row with the same cells.
LEMMA CopiedRow ==
  ASSUME NEW S, NEW row \in Roomy(S)
  PROVE  copy_row(row) \in Roomy(S) /\ copy_row(row).items = row.items
<1>1. row.items \in Seq(S)
  BY RoomyParts
<1>2. QED
  BY <1>1, PushAllIn DEF copy_row, create_row

\* What the row is while its cells are erased one by one: E[k] holds what is
\* possible after k of them.
LEMMA ErasedReaches ==
  ASSUME NEW row, columns_in_row(row) # 0, NEW left, NEW right,
         NEW n \in Nat, n = EraseCount(row, left, right), NEW E, row \in E[0],
         \A k \in 1 .. n : \A x \in E[k - 1] : vector_erase(x, left) \in E[k]
  PROVE  ft_row_erase_range(row, left, right) \in E[n]
<1> DEFINE G == [k \in 1 .. n |-> [x \in E[k - 1] |-> vector_erase(x, left)]]
           p == CHOOSE f : f = [k \in 0 .. n |->
                                    IF k = 0 THEN row ELSE vector_erase(f[k - 1], left)]
<1>1. \A k \in 1 .. n : \A x \in E[k - 1] : G[k][x] = vector_erase(x, left)
  OBVIOUS
<1> HIDE DEF G
<1>2. PICK f : Follows(f, n, row, G, E)
  <2>1. Leads(n, E, G)
    BY <1>1 DEF Leads
  <2>2. QED
    BY <2>1, Recursion
<1>3. ASSUME NEW k \in 0 .. n
      PROVE  (IF k = 0 THEN row ELSE G[k][f[k - 1]])
               = IF k = 0 THEN row ELSE vector_erase(f[k - 1], left)
  <2>1. CASE k # 0
    <3>1. k \in 1 .. n /\ k - 1 \in 0 .. n
      BY <2>1
    <3>2. f[k - 1] \in E[k - 1]
      BY <1>2, <3>1 DEF Follows
    <3>3. G[k][f[k - 1]] = vector_erase(f[k - 1], left)
      BY <1>1, <3>1, <3>2
    <3>4. QED
      BY <3>3, Zenon
  <2>2. QED
    BY <2>1, Zenon
<1>4. f = [k \in 0 .. n |-> IF k = 0 THEN row ELSE G[k][f[k - 1]]]
  BY <1>2 DEF Follows
<1>5. f = [k \in 0 .. n |-> IF k = 0 THEN row ELSE vector_erase(f[k - 1], left)]
  BY <1>3, <1>4, Zenon
<1>6. p = [k \in 0 .. n |-> IF k = 0 THEN row ELSE vector_erase(p[k - 1], left)]
  BY <1>5, Zenon
<1>7. ft_row_erase_range(row, left, right) = p[n]
  BY Zenon DEF ft_row_erase_range
<1> HIDE DEF p
<1>8. p[0] \in E[0]
  BY <1>6
<1>9. ASSUME NEW k \in 1 .. n, p[k - 1] \in E[k - 1]
      PROVE  p[k] \in E[k]
  <2>1. k \in 0 .. n /\ k # 0
    OBVIOUS
  <2>2. p[k] = vector_erase(p[k - 1], left)
    BY <1>6, <2>1
  <2>3. QED
    BY <1>9, <2>2
<1>10. p[n] \in E[n]
  <2>1. \A k \in 0 .. n : p[k] \in E[k]
    BY <1>8, <1>9, Reached
  <2>2. QED
    BY <2>1
<1>11. QED
  BY <1>7, <1>10

\* Cells erased one after the other.
LEMMA ErasedIn ==
  ASSUME NEW S, NEW row \in Roomy(S), columns_in_row(row) > 0, NEW left \in Nat, NEW right,
         EraseCount(row, left, right) \in Nat
  PROVE  ft_row_erase_range(row, left, right) \in Roomy(S)
<1>1. PICK n \in Nat : n = EraseCount(row, left, right)
  OBVIOUS
<1>2. PICK E : E = [k \in 0 .. n |-> Roomy(S)]
  OBVIOUS
<1>3. row \in E[0] /\ E[n] = Roomy(S)
  BY <1>2
<1>4. ASSUME NEW k \in 1 .. n, NEW x \in E[k - 1]
      PROVE  vector_erase(x, left) \in E[k]
  <2>1. E[k - 1] = Roomy(S) /\ E[k] = Roomy(S)
    BY <1>2
  <2>2. QED
    BY <2>1, EraseIn
<1>5. columns_in_row(row) # 0
  BY RoomyParts DEF columns_in_row, vector_size
<1>6. QED
  BY <1>1, <1>3, <1>4, <1>5, ErasedReaches

\* A remainder is a number below the modulus.
LEMMA Remainder ==
  ASSUME NEW a \in Int
  PROVE  a % SIZE_MODULUS \in Nat /\ a % SIZE_MODULUS < SIZE_MODULUS
  BY ModulusAssumption

\* A row after cells were erased.
LEMMA ErasedRow ==
  ASSUME NEW S, NEW row \in Roomy(S), NEW left \in Nat, NEW right \in Nat
  PROVE  ft_row_erase_range(row, left, right) \in Roomy(S)
<1>1. PICK n \in Nat : n = columns_in_row(row)
  BY RoomyParts DEF columns_in_row, vector_size
<1>2. CASE n = 0
  BY <1>1, <1>2 DEF ft_row_erase_range
<1>3. CASE n > 0
  <2>1. PICK m \in Int : m = Min({n - 1, right})
    BY Lesser
  <2>2. EraseCount(row, left, right) = (m - left + 1) % SIZE_MODULUS
    BY <1>1, <2>1 DEF EraseCount
  <2>3. EraseCount(row, left, right) \in Nat
    BY <2>2, Remainder
  <2>4. QED
    BY <1>1, <1>3, <2>3, ErasedIn
<1>4. QED
  BY <1>2, <1>3
-----------------------------------------------------------------------------
(* Tables.                                                                 *)

\* The tables with cells of S, the current row r, and all else but the
\* current column as in t.
Shape(t, S, r) ==
  [rows : Roomy(Roomy(S)), separators : Roomy(BOOLEAN),
   cell_properties : {t.cell_properties}, border_style : {t.border_style},
   tprops : {t.tprops}, defaults : {t.defaults}, conv_buffer : {t.conv_buffer},
   cur_row : {r}, cur_col : Nat]

\* The cursor is not behind the end of its row, nor of its table but in
\* column 0.
CursorIn(t) ==
  IF t.cur_row < Rows(t) THEN t.cur_col <= columns_in_row(RowAt(t, t.cur_row)) ELSE t.cur_col = 0

\* Such tables where the cursor is inside if "in" says so.
Tables(t, S, in, r) == {u \in Shape(t, S, r) : in => CursorIn(u)}

\* Without Junk in S no operation may be behind the end of a row.
Regime(S, in) == HoldsCells(S) /\ in \in BOOLEAN /\ (Junk \in S \/ in)

\* The rows of a table are vectors of cells.
LEMMA RowsAre ==
  ASSUME NEW t, NEW S, NEW r, NEW u \in Shape(t, S, r)
  PROVE  /\ Rows(u) \in Nat /\ Rows(u) = Len(u.rows.items) /\ u.rows \in Roomy(Roomy(S))
         /\ \A i \in Nat : i < Rows(u) => RowAt(u, i) \in Roomy(S)
         /\ \A i \in Nat : i < Rows(u) => columns_in_row(RowAt(u, i)) = Len(RowAt(u, i).items)
<1>1. u.rows \in Roomy(Roomy(S))
  BY DEF Shape
<1>2. PICK n \in Nat : n = Len(u.rows.items)
  BY <1>1, RoomyParts
<1>3. Rows(u) = n
  BY <1>2 DEF Rows, vector_size
<1>4. \A i \in 1 .. n : u.rows.items[i] \in Roomy(S)
  BY <1>1, <1>2, RoomyParts
<1>5. ASSUME NEW i \in Nat, i < n
      PROVE  RowAt(u, i) \in Roomy(S)
  <2>1. i + 1 \in 1 .. n
    BY <1>5
  <2>2. QED
    BY <1>4, <2>1 DEF RowAt, vector_at
<1>6. QED
  BY <1>1, <1>2, <1>3, <1>5 DEF columns_in_row, vector_size

\* Other rows in the same table.
LEMMA ShapeWithRows ==
  ASSUME NEW t, NEW S, NEW r, NEW u \in Shape(t, S, r), NEW rows \in Roomy(Roomy(S))
  PROVE  /\ [u EXCEPT !.rows = rows] \in Shape(t, S, r)
         /\ [u EXCEPT !.rows = rows].rows = rows
         /\ [u EXCEPT !.rows = rows].cur_col = u.cur_col
  BY DEF Shape

\* Another current column.
LEMMA ShapeWithCol ==
  ASSUME NEW t, NEW S, NEW r, NEW u \in Shape(t, S, r), NEW col \in Nat
  PROVE  /\ [u EXCEPT !.cur_col = col] \in Shape(t, S, r)
         /\ [u EXCEPT !.cur_col = col].rows = u.rows
         /\ [u EXCEPT !.cur_col = col].cur_col = col
  BY DEF Shape

\* The fields of a table.
LEMMA ShapeParts ==
  ASSUME NEW t, NEW S, NEW r, NEW u \in Shape(t, S, r)
  PROVE  /\ u.cur_row = r /\ u.cur_col \in Nat /\ u.tprops = t.tprops /\ u.rows \in Roomy(Roomy(S))
         /\ u.separators \in Roomy(BOOLEAN) /\ u.cell_properties = t.cell_properties
         /\ u.defaults = t.defaults /\ u.conv_buffer = t.conv_buffer
  BY DEF Shape

\* One row becomes another one.
LEMMA SetRowIn ==
  ASSUME NEW t, NEW S, NEW r, NEW u \in Shape(t, S, r), NEW i \in Nat, i < Rows(u),
         NEW row \in Roomy(S)
  PROVE  /\ SetRow(u, i, row) \in Shape(t, S, r)
         /\ Rows(SetRow(u, i, row)) = Rows(u)
         /\ \A j \in Nat : j < Rows(u) =>
              RowAt(SetRow(u, i, row), j) = IF j = i THEN row ELSE RowAt(u, j)
         /\ SetRow(u, i, row).cur_col = u.cur_col
<1>1. PICK n \in Nat : n = Rows(u) /\ n = Len(u.rows.items)
  BY RowsAre
<1>2. u.rows \in Roomy(Roomy(S))
  BY RowsAre
<1>3. u.rows.items \in Seq(Roomy(S)) /\ u.rows.cap \in Nat /\ u.rows.cap > 0 /\ n <= u.rows.cap
      /\ u.rows = [items |-> u.rows.items, cap |-> u.rows.cap]
  BY <1>1, <1>2, RoomyParts
<1>4. PICK s : s = [u.rows.items EXCEPT ![i + 1] = row]
  OBVIOUS
<1>5. s \in Seq(Roomy(S)) /\ Len(s) = n
  BY <1>1, <1>3, <1>4
<1>6. PICK rows : rows = [items |-> s, cap |-> u.rows.cap]
  OBVIOUS
<1>7. rows \in Roomy(Roomy(S)) /\ rows.items = s
  BY <1>3, <1>5, <1>6, MakeRoomy
<1>8. SetRow(u, i, row) = [u EXCEPT !.rows = [u.rows EXCEPT !.items = s]]
  BY <1>4, Zenon DEF SetRow
<1>9. [u.rows EXCEPT !.items = s] = rows
  BY <1>3, <1>6, SetItems
<1>10. PICK w : w = [u EXCEPT !.rows = rows]
  OBVIOUS
<1>11. u.cur_col \in Nat
  BY ShapeParts
<1>12. w \in Shape(t, S, r) /\ w.rows = rows /\ w.cur_col = u.cur_col
  BY <1>7, <1>10, ShapeWithRows
<1>13. Rows(w) = n
  BY <1>5, <1>7, <1>12, RowsAre
<1>14. ASSUME NEW j \in Nat, j < n
       PROVE  RowAt(w, j) = IF j = i THEN row ELSE RowAt(u, j)
  <2>1. j + 1 \in 1 .. n /\ (j + 1 = i + 1 <=> j = i)
    BY <1>14
  <2>2. s[j + 1] = IF j = i THEN row ELSE u.rows.items[j + 1]
    BY <1>1, <1>3, <1>4, <2>1
  <2>3. QED
    BY <1>7, <1>12, <2>2 DEF RowAt, vector_at
<1>15. QED
  BY <1>1, <1>8, <1>9, <1>10, <1>12, <1>13, <1>14

\* Rows are created up to one, and the others are as they were.
LEMMA GetRowIn ==
  ASSUME NEW t, NEW S, NEW r, NEW u \in Shape(t, S, r), NEW i \in Nat
  PROVE  /\ get_row_and_create_if_not_exists(u, i) \in Shape(t, S, r)
         /\ Rows(get_row_and_create_if_not_exists(u, i)) > i
         /\ Rows(get_row_and_create_if_not_exists(u, i)) >= Rows(u)
         /\ \A j \in Nat : j < Rows(get_row_and_create_if_not_exists(u, i)) =>
              RowAt(get_row_and_create_if_not_exists(u, i), j) =
                IF j < Rows(u) THEN RowAt(u, j) ELSE create_row
         /\ get_row_and_create_if_not_exists(u, i).cur_col = u.cur_col
<1>1. PICK n \in Nat : n = Rows(u) /\ n = Len(u.rows.items) /\ n = vector_size(u.rows)
  BY RowsAre DEF Rows
<1>2. u.rows \in Roomy(Roomy(S))
  BY RowsAre
<1>3. PICK m \in Nat : m = Max({0, i + 1 - n}) /\ m = IF i + 1 - n > 0 THEN i + 1 - n ELSE 0
  BY Missing
<1>4. PICK rows : rows = PushTimes(u.rows, create_row, m)
  OBVIOUS
<1>5. create_row \in Roomy(S)
  BY CreateIn DEF create_row
<1>6. rows \in Longer(Roomy(S), u.rows, create_row, m)
  BY <1>2, <1>4, <1>5, PushTimesIn
<1>7. /\ rows \in Roomy(Roomy(S)) /\ Len(rows.items) = n + m
      /\ \A j \in 1 .. (n + m) : rows.items[j] = IF j <= n THEN u.rows.items[j] ELSE create_row
  BY <1>1, <1>6 DEF Longer
<1>8. PICK w : w = [u EXCEPT !.rows = rows]
  OBVIOUS
<1>9. get_row_and_create_if_not_exists(u, i) = w
  BY <1>1, <1>3, <1>4, <1>8 DEF get_row_and_create_if_not_exists
<1>10. u.cur_col \in Nat
  BY ShapeParts
<1>11. w \in Shape(t, S, r) /\ w.rows = rows /\ w.cur_col = u.cur_col
  BY <1>7, <1>8, ShapeWithRows
<1>12. Rows(w) = n + m
  BY <1>7, <1>11, RowsAre
<1>13. n + m > i /\ n + m >= n
  BY <1>3
<1>14. ASSUME NEW j \in Nat, j < n + m
       PROVE  RowAt(w, j) = IF j < n THEN RowAt(u, j) ELSE create_row
  <2>1. j + 1 \in 1 .. (n + m) /\ (j + 1 <= n <=> j < n)
    BY <1>14
  <2>2. rows.items[j + 1] = IF j < n THEN u.rows.items[j + 1] ELSE create_row
    BY <1>7, <2>1
  <2>3. QED
    BY <1>11, <2>2 DEF RowAt, vector_at
<1>15. QED
  BY <1>1, <1>9, <1>11, <1>12, <1>13, <1>14

\* The cursor that is inside stays inside when rows are created.
LEMMA GetRowKeepsCursor ==
  ASSUME NEW t, NEW S, NEW in, NEW r \in Nat, NEW u \in Tables(t, S, in, r), NEW i \in Nat
  PROVE  get_row_and_create_if_not_exists(u, i) \in Tables(t, S, in, r)
<1>1. u \in Shape(t, S, r) /\ (in => CursorIn(u))
  BY DEF Tables
<1>2. PICK w : w = get_row_and_create_if_not_exists(u, i)
  OBVIOUS
<1>3. /\ w \in Shape(t, S, r) /\ Rows(w) >= Rows(u) /\ w.cur_col = u.cur_col
      /\ \A j \in Nat : j < Rows(w) => RowAt(w, j) = IF j < Rows(u) THEN RowAt(u, j) ELSE create_row
  BY <1>1, <1>2, GetRowIn
<1>4. u.cur_row = r /\ w.cur_row = r /\ u.cur_col \in Nat
  BY <1>1, <1>3, ShapeParts
<1>5. Rows(u) \in Nat /\ Rows(w) \in Nat
  BY <1>1, <1>3, RowsAre
<1>6. columns_in_row(create_row) = 0
  BY CreateIn DEF columns_in_row, vector_size, create_row
<1>7. ASSUME CursorIn(u)
      PROVE  CursorIn(w)
  <2>1. CASE r < Rows(u)
    <3>1. r < Rows(w) /\ RowAt(w, r) = RowAt(u, r)
      BY <1>3, <1>5, <2>1
    <3>2. u.cur_col <= columns_in_row(RowAt(u, r))
      BY <1>4, <1>7, <2>1 DEF CursorIn
    <3>3. QED
      BY <1>3, <1>4, <3>1, <3>2 DEF CursorIn
  <2>2. CASE ~ (r < Rows(u))
    <3>1. u.cur_col = 0
      BY <1>4, <1>7, <2>2 DEF CursorIn
    <3>2. r < Rows(w) => RowAt(w, r) = create_row
      BY <1>3, <2>2
    <3>3. QED
      BY <1>3, <1>4, <1>6, <3>1, <3>2 DEF CursorIn
  <2>3. QED
    BY <2>1, <2>2
<1>8. QED
  BY <1>1, <1>2, <1>3, <1>7 DEF Tables

\* A row that reaches beyond the cursor takes its place, and the cursor moves
\* on as far as that row goes.
LEMMA PutRow ==
  ASSUME NEW t, NEW S, NEW in, NEW r \in Nat, NEW u \in Tables(t, S, in, r), r < Rows(u),
         NEW row \in Roomy(S), NEW col \in Nat, in => col <= Len(row.items)
  PROVE  [SetRow(u, r, row) EXCEPT !.cur_col = col] \in Tables(t, S, in, r)
<1>1. u \in Shape(t, S, r)
  BY DEF Tables
<1>2. PICK v : v = SetRow(u, r, row)
  OBVIOUS
<1>3. v \in Shape(t, S, r) /\ Rows(v) = Rows(u) /\ RowAt(v, r) = row
  BY <1>1, <1>2, SetRowIn
<1>4. PICK w : w = [v EXCEPT !.cur_col = col]
  OBVIOUS
<1>5. w \in Shape(t, S, r) /\ w.rows = v.rows /\ w.cur_col = col
  BY <1>3, <1>4, ShapeWithCol
<1>6. w.cur_row = r
  BY <1>5, ShapeParts
<1>7. RowAt(w, r) = row /\ Rows(w) = Rows(u)
  BY <1>3, <1>5 DEF RowAt, Rows
<1>8. in => CursorIn(w)
  BY <1>5, <1>6, <1>7 DEF CursorIn, columns_in_row, vector_size
<1>9. QED
  BY <1>2, <1>4, <1>5, <1>8 DEF Tables

\* Where a table holds Junk.
JunkAt(u) ==
  {p \in Nat \X Nat :
     p[1] < Rows(u) /\ HasCell(u, p[1], p[2]) /\ CellAt(u, p[1], p[2]) = Junk}

\* Whether there is Junk at a position, by the row of it.
LEMMA JunkIs ==
  ASSUME NEW t, NEW S, NEW r, NEW u \in Shape(t, S, r), NEW i \in Nat, NEW c \in Nat
  PROVE  <<i, c>> \in JunkAt(u) <=>
           i < Rows(u) /\ c < Len(RowAt(u, i).items) /\ RowAt(u, i).items[c + 1] = Junk
<1>1. <<i, c>>[1] = i /\ <<i, c>>[2] = c /\ <<i, c>> \in Nat \X Nat
  OBVIOUS
<1>2. i < Rows(u) => columns_in_row(RowAt(u, i)) = Len(RowAt(u, i).items)
  BY RowsAre
<1>3. QED
  BY <1>1, <1>2 DEF JunkAt, HasCell, CellAt, vector_at

\* Cells without Junk are not Junk.
LEMMA NoJunk ==
  ASSUME NEW t, NEW r, NEW u \in Shape(t, Cells, r)
  PROVE  JunkAt(u) = {}
<1>1. ASSUME NEW i \in Nat, NEW c \in Nat, <<i, c>> \in JunkAt(u)
      PROVE  FALSE
  <2>1. i < Rows(u) /\ c < Len(RowAt(u, i).items) /\ RowAt(u, i).items[c + 1] = Junk
    BY <1>1, JunkIs
  <2>2. PICK row \in Roomy(Cells) : row = RowAt(u, i)
    BY <2>1, RowsAre
  <2>3. PICK n \in Nat : n = Len(row.items)
    BY <2>2, RoomyParts
  <2>4. c + 1 \in 1 .. n
    BY <2>1, <2>2, <2>3
  <2>5. row.items[c + 1] \in Cells
    BY <2>2, <2>3, <2>4, RoomyParts
  <2>6. QED
    BY <2>1, <2>2, <2>5, JunkAssumption
<1>2. QED
  BY <1>1 DEF JunkAt

\* Rows that are created hold none.
LEMMA GetRowJunk ==
  ASSUME NEW t, NEW S, NEW r, NEW u \in Shape(t, S, r), NEW i \in Nat
  PROVE  JunkAt(get_row_and_create_if_not_exists(u, i)) \subseteq JunkAt(u)
<1>1. PICK w : w = get_row_and_create_if_not_exists(u, i)
  OBVIOUS
<1>2. /\ w \in Shape(t, S, r)
      /\ \A j \in Nat : j < Rows(w) => RowAt(w, j) = IF j < Rows(u) THEN RowAt(u, j) ELSE create_row
  BY <1>1, GetRowIn
<1>3. Len(create_row.items) = 0
  BY CreateIn DEF create_row
<1>4. ASSUME NEW j \in Nat, NEW c \in Nat, <<j, c>> \in JunkAt(w)
      PROVE  <<j, c>> \in JunkAt(u)
  <2>1. j < Rows(w) /\ c < Len(RowAt(w, j).items) /\ RowAt(w, j).items[c + 1] = Junk
    BY <1>2, <1>4, JunkIs
  <2>2. j < Rows(u)
    <3>1. CASE ~ (j < Rows(u))
      <4>1. RowAt(w, j) = create_row
        BY <1>2, <2>1, <3>1
      <4>2. QED
        BY <1>3, <2>1, <4>1
    <3>2. QED
      BY <3>1
  <2>3. RowAt(w, j) = RowAt(u, j)
    BY <1>2, <2>1, <2>2
  <2>4. QED
    BY <2>1, <2>2, <2>3, JunkIs
<1>5. QED
  BY <1>1, <1>4 DEF JunkAt

\* A row takes the place of one that has Junk wherever it has.
LEMMA PutJunk ==
  ASSUME NEW t, NEW S, NEW r, NEW u \in Shape(t, S, r), NEW i \in Nat, i < Rows(u),
         NEW row \in Roomy(S), NEW col \in Nat,
         \A k \in 1 .. Len(row.items) :
           row.items[k] = Junk => k <= Len(RowAt(u, i).items) /\ RowAt(u, i).items[k] = Junk
  PROVE  JunkAt([SetRow(u, i, row) EXCEPT !.cur_col = col]) \subseteq JunkAt(u)
<1>1. PICK v : v = SetRow(u, i, row)
  OBVIOUS
<1>2. /\ v \in Shape(t, S, r) /\ Rows(v) = Rows(u)
      /\ \A j \in Nat : j < Rows(u) => RowAt(v, j) = IF j = i THEN row ELSE RowAt(u, j)
  BY <1>1, SetRowIn
<1>3. PICK w : w = [v EXCEPT !.cur_col = col]
  OBVIOUS
<1>4. w \in Shape(t, S, r) /\ w.rows = v.rows
  BY <1>2, <1>3, ShapeWithCol
<1>5. Rows(w) = Rows(u) /\ \A j \in Nat : RowAt(w, j) = RowAt(v, j)
  BY <1>2, <1>4 DEF RowAt, Rows
<1>6. ASSUME NEW j \in Nat, NEW c \in Nat, <<j, c>> \in JunkAt(w)
      PROVE  <<j, c>> \in JunkAt(u)
  <2>1. j < Rows(u) /\ c < Len(RowAt(v, j).items) /\ RowAt(v, j).items[c + 1] = Junk
    BY <1>4, <1>5, <1>6, JunkIs
  <2>2. c < Len(RowAt(u, j).items) /\ RowAt(u, j).items[c + 1] = Junk
    <3>1. CASE j = i
      <4>1. RowAt(v, j) = row
        BY <1>2, <2>1, <3>1
      <4>2. PICK n \in Nat : n = Len(row.items)
        BY RoomyParts
      <4>3. c + 1 \in 1 .. n
        BY <2>1, <4>1, <4>2
      <4>4. c + 1 <= Len(RowAt(u, i).items) /\ RowAt(u, i).items[c + 1] = Junk
        BY <2>1, <4>1, <4>2, <4>3
      <4>5. PICK m \in Nat : m = Len(RowAt(u, i).items)
        BY RowsAre, RoomyParts
      <4>6. c < m
        BY <4>4, <4>5
      <4>7. QED
        BY <3>1, <4>4, <4>5, <4>6
    <3>2. CASE j # i
      BY <1>2, <2>1, <3>2
    <3>3. QED
      BY <3>1, <3>2
  <2>3. QED
    BY <2>1, <2>2, JunkIs
<1>7. QED
  BY <1>1, <1>3, <1>6 DEF JunkAt

\* One text written.
LEMMA WriteIn ==
  ASSUME NEW t, NEW S, NEW in, Regime(S, in), NEW r \in Nat, NEW u \in Tables(t, S, in, r),
         NEW text \in Words, Strategy(t) # "INSERT" => <<r, u.cur_col>> \notin JunkAt(u)
  PROVE  /\ ft_write_impl(u, text) \in Tables(t, S, in, r)
         /\ ft_write_impl(u, text).cur_col = u.cur_col + 1
         /\ Strategy(t) # "INSERT" => JunkAt(ft_write_impl(u, text)) \subseteq JunkAt(u)
<1>1. u \in Shape(t, S, r)
  BY DEF Tables
<1>2. PICK c \in Nat : c = u.cur_col
  BY <1>1, ShapeParts
<1>3. u.cur_row = r /\ u.tprops = t.tprops
  BY <1>1, ShapeParts
<1>4. PICK v : v = get_row_and_create_if_not_exists(u, r)
  OBVIOUS
<1>5. v \in Tables(t, S, in, r)
  BY <1>4, GetRowKeepsCursor
<1>6. v \in Shape(t, S, r) /\ r < Rows(v) /\ v.cur_col = c /\ v.cur_row = r
  <2>1. v \in Shape(t, S, r) /\ Rows(v) > r /\ v.cur_col = c
    BY <1>1, <1>2, <1>4, GetRowIn
  <2>2. Rows(v) \in Nat /\ v.cur_row = r
    BY <2>1, RowsAre, ShapeParts
  <2>3. QED
    BY <2>1, <2>2
<1>7. PICK row : row = RowAt(v, r)
  OBVIOUS
<1>8. row \in Roomy(S) /\ columns_in_row(row) = Len(row.items)
  BY <1>6, <1>7, RowsAre
<1>9. in => c <= Len(row.items)
  BY <1>5, <1>6, <1>7, <1>8 DEF Tables, CursorIn
<1>10. HoldsCells(S) /\ (Junk \in S \/ in) /\ create_cell \in S
  BY CellIn DEF Regime, HoldsCells
<1>11. PICK new : new = IF Strategy(u) = "INSERT" THEN create_cell_in_position(row, c)
                        ELSE get_cell_and_create_if_not_exists(row, c)
  OBVIOUS
<1>12. new \in Roomy(S) /\ c < Len(new.items) /\ new.items[c + 1] # Junk
  <2>1. CASE Strategy(u) = "INSERT"
    <3>1. new = vector_insert(row, create_cell, c)
      BY <1>11, <2>1 DEF create_cell_in_position
    <3>2. PICK n \in Nat : n = Len(row.items)
      BY <1>8, RoomyParts
    <3>3. new \in Roomy(S) /\ Len(new.items) = IF c >= n THEN c + 1 ELSE n + 1
      BY <1>8, <1>9, <1>10, <3>1, <3>2, InsertIn
    <3>4. (IF c >= n THEN c + 1 ELSE n + 1) > c
      OBVIOUS
    <3>5. new.items[c + 1] = create_cell
      BY <1>8, <1>9, <1>10, <3>1, InsertedAt
    <3>6. QED
      BY <3>3, <3>4, <3>5, CellIn, JunkAssumption
  <2>2. CASE Strategy(u) # "INSERT"
    <3>1. /\ new \in Roomy(S) /\ Len(new.items) > c
          /\ \A i \in 1 .. Len(new.items) :
               new.items[i] = IF i <= Len(row.items) THEN row.items[i] ELSE create_cell
      BY <1>8, <1>10, <1>11, <2>2, GetCellIn
    <3>2. PICK n \in Nat : n = Len(new.items)
      BY <3>1, RoomyParts
    <3>3. PICK m \in Nat : m = Len(row.items)
      BY <1>8, RoomyParts
    <3>4. c + 1 \in 1 .. n
      BY <3>1, <3>2
    <3>5. <<r, c>> \notin JunkAt(v)
      BY <1>1, <1>2, <1>3, <1>4, <2>2, GetRowJunk DEF Strategy
    <3>6. ~ (c < m /\ row.items[c + 1] = Junk)
      BY <1>6, <1>7, <3>3, <3>5, JunkIs
    <3>7. new.items[c + 1] = IF c + 1 <= m THEN row.items[c + 1] ELSE create_cell
      BY <3>1, <3>2, <3>3, <3>4
    <3>8. new.items[c + 1] # Junk
      <4>1. CASE c < m
        <5>1. c + 1 <= m
          BY <4>1
        <5>2. QED
          BY <3>6, <3>7, <4>1, <5>1
      <4>2. CASE ~ (c < m)
        <5>1. ~ (c + 1 <= m)
          BY <4>2
        <5>2. QED
          BY <3>7, <5>1, CellIn, JunkAssumption
      <4>3. QED
        BY <4>1, <4>2
    <3>9. QED
      BY <3>1, <3>2, <3>8
  <2>3. QED
    BY <2>1, <2>2
<1>13. PICK put : put = SetText(new, c, text)
  OBVIOUS
<1>14. /\ put \in Roomy(S) /\ Len(put.items) = Len(new.items)
       /\ \A i \in 1 .. Len(new.items) :
            put.items[i] = Junk => i # c + 1 /\ new.items[i] = Junk
  BY <1>10, <1>12, <1>13, SetTextIn
<1>15. c + 1 <= Len(put.items)
  <2>1. PICK n \in Nat : n = Len(new.items)
    BY <1>12, RoomyParts
  <2>2. QED
    BY <1>12, <1>14, <2>1
<1>16. [SetRow(v, r, put) EXCEPT !.cur_col = c + 1] \in Tables(t, S, in, r)
  <2>1. PICK d \in Nat : d = c + 1
    OBVIOUS
  <2>2. put \in Roomy(S) /\ d <= Len(put.items)
    BY <1>14, <1>15, <2>1
  <2>3. [SetRow(v, r, put) EXCEPT !.cur_col = d] \in Tables(t, S, in, r)
    BY <1>5, <1>6, <2>2, PutRow
  <2>4. QED
    BY <2>1, <2>3
<1>17. ft_write_impl(u, text) = [SetRow(v, r, put) EXCEPT !.cur_col = c + 1]
  <2>1. SetRow(v, r, put).cur_col = c
    BY <1>6, <1>14, SetRowIn
  <2>2. ft_write_impl(u, text) = [SetRow(v, r, put) EXCEPT !.cur_col = @ + 1]
    BY <1>2, <1>3, <1>4, <1>7, <1>11, <1>13, Zenon DEF ft_write_impl
  <2>3. QED
    BY <2>1, <2>2
<1>18. [SetRow(v, r, put) EXCEPT !.cur_col = c + 1].cur_col = c + 1
  <2>1. SetRow(v, r, put) \in Shape(t, S, r)
    BY <1>6, <1>14, SetRowIn
  <2>2. PICK d \in Nat : d = c + 1
    OBVIOUS
  <2>3. QED
    BY <2>1, <2>2, ShapeWithCol
<1>19. ASSUME Strategy(t) # "INSERT"
       PROVE  JunkAt([SetRow(v, r, put) EXCEPT !.cur_col = c + 1]) \subseteq JunkAt(u)
  <2>1. /\ Len(new.items) >= Len(row.items)
        /\ \A i \in 1 .. Len(new.items) :
             new.items[i] = IF i <= Len(row.items) THEN row.items[i] ELSE create_cell
    <3>1. Strategy(u) # "INSERT"
      BY <1>3, <1>19 DEF Strategy
    <3>2. QED
      BY <1>8, <1>10, <1>11, <3>1, GetCellIn
  <2>2. \A k \in 1 .. Len(put.items) :
          put.items[k] = Junk => k <= Len(row.items) /\ row.items[k] = Junk
    BY <1>14, <2>1, CellIn, JunkAssumption
  <2>3. PICK d \in Nat : d = c + 1
    OBVIOUS
  <2>4. JunkAt([SetRow(v, r, put) EXCEPT !.cur_col = d]) \subseteq JunkAt(v)
    BY <1>6, <1>7, <1>14, <2>2, PutJunk
  <2>5. JunkAt(v) \subseteq JunkAt(u)
    BY <1>1, <1>4, GetRowJunk
  <2>6. QED
    BY <2>3, <2>4, <2>5
<1>20. QED
  BY <1>2, <1>16, <1>17, <1>18, <1>19

\* The tables after k texts were written to u.
Writing(t, S, in, r, u, k) ==
  {x \in Tables(t, S, in, r) :
     x.cur_col = u.cur_col + k /\ (Strategy(t) # "INSERT" => JunkAt(x) \subseteq JunkAt(u))}

\* Texts written one after the other.
LEMMA RowWriteIn ==
  ASSUME NEW t, NEW S, NEW in, Regime(S, in), NEW r \in Nat, NEW u \in Tables(t, S, in, r),
         NEW texts \in Seq(Words), Filled(u, texts) \cap JunkAt(u) = {}
  PROVE  /\ ft_row_write(u, texts) \in Tables(t, S, in, r)
         /\ Strategy(t) # "INSERT" => JunkAt(ft_row_write(u, texts)) \subseteq JunkAt(u)
<1> DEFINE n == Len(texts)
           E == [k \in 0 .. n |-> Writing(t, S, in, r, u, k)]
           G == [k \in 1 .. n |-> [x \in Tables(t, S, in, r) |-> ft_write_impl(x, texts[k])]]
           p == CHOOSE f : f = [k \in 0 .. n |->
                                    IF k = 0 THEN u ELSE ft_write_impl(f[k - 1], texts[k])]
<1>0. n \in Nat
  OBVIOUS
<1>1. u \in E[0]
  <2>1. u.cur_col \in Nat
    BY ShapeParts DEF Tables
  <2>2. QED
    BY <1>0, <2>1 DEF Writing
<1>2. ASSUME NEW k \in 1 .. n, NEW x \in E[k - 1]
      PROVE  ft_write_impl(x, texts[k]) \in E[k] /\ G[k][x] = ft_write_impl(x, texts[k])
  <2>1. k - 1 \in Nat /\ (k - 1) + 1 = k /\ k - 1 \in 0 .. n /\ k \in 0 .. n
    BY <1>0
  <2>2. /\ x \in Tables(t, S, in, r) /\ x.cur_col = u.cur_col + (k - 1)
        /\ (Strategy(t) # "INSERT" => JunkAt(x) \subseteq JunkAt(u))
    BY <2>1 DEF Writing
  <2>3. PICK c \in Nat : c = u.cur_col
    BY ShapeParts DEF Tables
  <2>4. Strategy(t) # "INSERT" => <<r, x.cur_col>> \notin JunkAt(x)
    <3>1. ASSUME Strategy(t) # "INSERT"
          PROVE  <<r, c + (k - 1)>> \in Filled(u, texts)
      <4>1. u.cur_row = r /\ u.tprops = t.tprops
        BY ShapeParts DEF Tables
      <4>2. k - 1 \in 0 .. (Len(texts) - 1)
        BY <1>0
      <4>3. QED
        BY <2>3, <3>1, <4>1, <4>2 DEF Filled, Strategy
    <3>2. Strategy(t) # "INSERT" => <<r, c + (k - 1)>> \notin JunkAt(x)
      BY <2>2, <3>1
    <3>3. QED
      BY <2>2, <2>3, <3>2
  <2>5. PICK w : w = ft_write_impl(x, texts[k])
    OBVIOUS
  <2>6. /\ w \in Tables(t, S, in, r) /\ w.cur_col = x.cur_col + 1
        /\ (Strategy(t) # "INSERT" => JunkAt(w) \subseteq JunkAt(x))
    <3>1. texts[k] \in Words
      BY <1>0
    <3>2. PICK text \in Words : text = texts[k]
      BY <3>1
    <3>3. /\ ft_write_impl(x, text) \in Tables(t, S, in, r)
          /\ ft_write_impl(x, text).cur_col = x.cur_col + 1
          /\ Strategy(t) # "INSERT" => JunkAt(ft_write_impl(x, text)) \subseteq JunkAt(x)
      BY <2>2, <2>4, WriteIn
    <3>4. QED
      BY <2>5, <3>2, <3>3
  <2>7. w.cur_col = c + k
    BY <2>1, <2>2, <2>3, <2>6
  <2>8. w \in Writing(t, S, in, r, u, k)
    BY <2>2, <2>3, <2>6, <2>7 DEF Writing
  <2>9. QED
    BY <2>1, <2>2, <2>5, <2>8
<1> HIDE DEF E, G
<1>3. PICK f : Follows(f, n, u, G, E)
  <2>1. Leads(n, E, G)
    BY <1>2 DEF Leads
  <2> HIDE DEF n
  <2>2. QED
    BY <1>0, <1>1, <2>1, Recursion
<1>4. ASSUME NEW k \in 0 .. n
      PROVE  (IF k = 0 THEN u ELSE G[k][f[k - 1]])
               = IF k = 0 THEN u ELSE ft_write_impl(f[k - 1], texts[k])
  <2>1. CASE k # 0
    <3> HIDE DEF n
    <3>1. k \in 1 .. n /\ k - 1 \in 0 .. n
      BY <1>0, <2>1
    <3>2. f[k - 1] \in E[k - 1]
      BY <1>3, <3>1 DEF Follows
    <3>3. G[k][f[k - 1]] = ft_write_impl(f[k - 1], texts[k])
      BY <1>2, <3>1, <3>2
    <3>4. QED
      BY <3>3, Zenon
  <2>2. QED
    BY <2>1, Zenon
<1>5. f = [k \in 0 .. n |-> IF k = 0 THEN u ELSE G[k][f[k - 1]]]
  BY <1>3 DEF Follows
<1>6. f = [k \in 0 .. n |-> IF k = 0 THEN u ELSE ft_write_impl(f[k - 1], texts[k])]
  BY <1>4, <1>5, Zenon
<1>7. p = [k \in 0 .. n |-> IF k = 0 THEN u ELSE ft_write_impl(p[k - 1], texts[k])]
  BY <1>6, Zenon
<1>8. ft_row_write(u, texts) = p[n]
  BY Zenon DEF ft_row_write
<1> HIDE DEF p
<1>9. p[0] \in E[0]
  <2>1. 0 \in 0 .. n
    BY <1>0
  <2>2. p[0] = u
    BY <1>7, <2>1
  <2>3. QED
    BY <1>1, <2>2
<1>10. ASSUME NEW k \in 1 .. n, p[k - 1] \in E[k - 1]
       PROVE  p[k] \in E[k]
  <2>1. k \in 0 .. n /\ k # 0
    BY <1>0
  <2>2. p[k] = ft_write_impl(p[k - 1], texts[k])
    BY <1>7, <2>1
  <2>3. QED
    BY <1>2, <1>10, <2>2
<1>11. p[n] \in E[n]
  <2> HIDE DEF n
  <2>1. \A k \in 0 .. n : p[k] \in E[k]
    BY <1>0, <1>9, <1>10, Reached
  <2>2. QED
    BY <1>0, <2>1
<1>12. p[n] \in Writing(t, S, in, r, u, n)
  BY <1>0, <1>11 DEF E
<1>13. QED
  BY <1>8, <1>12 DEF Writing

\* In column 0 the cursor is always inside.
LEMMA ColumnZero ==
  ASSUME NEW t, NEW S, NEW in, NEW r \in Nat, NEW u \in Shape(t, S, r), u.cur_col = 0
  PROVE  u \in Tables(t, S, in, r)
<1>1. ASSUME r < Rows(u)
      PROVE  0 <= columns_in_row(RowAt(u, r))
  <2>1. PICK row \in Roomy(S) : row = RowAt(u, r)
    BY <1>1, RowsAre
  <2>2. QED
    BY <2>1, RoomyParts DEF columns_in_row, vector_size
<1>2. u.cur_row = r
  BY ShapeParts
<1>3. QED
  BY <1>1, <1>2 DEF Tables, CursorIn

\* A line break, which splits a row only inside.
LEMMA LnIn ==
  ASSUME NEW t, NEW S, NEW in, NEW r \in Nat, NEW u \in Tables(t, S, in, r)
  PROVE  /\ ft_ln(u) \in Tables(t, S, in, r + 1)
         /\ ft_ln(u).cur_col = 0
         /\ Strategy(t) # "INSERT" => JunkAt(ft_ln(u)) = JunkAt(u)
<1>1. u \in Shape(t, S, r)
  BY DEF Tables
<1>2. u.cur_row = r /\ u.rows \in Roomy(Roomy(S))
  BY <1>1, ShapeParts
<1>3. PICK c \in Nat : c = u.cur_col
  BY <1>1, ShapeParts
<1>4. PICK parts : parts = split_row(RowAt(u, r), c)
  OBVIOUS
<1>5. PICK rows : rows = IF SplitsRow(u)
                         THEN vector_insert(SetRow(u, r, parts.head).rows, parts.tail, r + 1)
                         ELSE u.rows
  OBVIOUS
<1>6. rows \in Roomy(Roomy(S))
  <2>1. CASE SplitsRow(u)
    <3>1. PICK row : row = RowAt(u, r)
      OBVIOUS
    <3>2. r < Rows(u) /\ c < columns_in_row(row)
      BY <1>2, <1>3, <2>1, <3>1 DEF SplitsRow
    <3>3. row \in Roomy(S) /\ columns_in_row(row) = Len(row.items)
      BY <1>1, <3>1, <3>2, RowsAre
    <3>4. parts.head \in Roomy(S) /\ parts.tail \in Roomy(S)
      BY <1>4, <3>1, <3>2, <3>3, SplitIn DEF split_row
    <3>5. PICK v : v = SetRow(u, r, parts.head)
      OBVIOUS
    <3>6. v \in Shape(t, S, r) /\ Rows(v) = Rows(u)
      BY <1>1, <3>2, <3>4, <3>5, SetRowIn
    <3>7. v.rows \in Roomy(Roomy(S)) /\ Rows(v) = Len(v.rows.items)
      BY <3>6, RowsAre
    <3>8. PICK n \in Nat : n = Rows(u)
      BY <1>1, RowsAre
    <3>9. r + 1 <= Len(v.rows.items) /\ r + 1 \in Nat
      BY <3>2, <3>6, <3>7, <3>8
    <3>10. vector_insert(v.rows, parts.tail, r + 1) \in Roomy(Roomy(S))
      BY <3>4, <3>7, <3>9, InsertIn
    <3>11. QED
      BY <1>5, <2>1, <3>5, <3>10
  <2>2. CASE ~ SplitsRow(u)
    BY <1>2, <1>5, <2>2
  <2>3. QED
    BY <2>1, <2>2
<1>7. PICK w : w = [u EXCEPT !.rows = rows, !.cur_col = 0, !.cur_row = @ + 1]
  OBVIOUS
<1>8. w \in Shape(t, S, r + 1) /\ w.cur_col = 0
  BY <1>1, <1>6, <1>7 DEF Shape
<1>9. ft_ln(u) = w
  BY <1>2, <1>3, <1>4, <1>5, <1>7, Zenon DEF ft_ln
<1>10. PICK q \in Nat : q = r + 1
  OBVIOUS
<1>11. w \in Tables(t, S, in, q)
  BY <1>8, <1>10, ColumnZero
<1>12. ASSUME Strategy(t) # "INSERT"
       PROVE  JunkAt(w) = JunkAt(u)
  <2>1. ~ SplitsRow(u)
    <3>1. u.tprops = t.tprops
      BY <1>1, ShapeParts
    <3>2. QED
      BY <1>12, <3>1 DEF SplitsRow, Strategy
  <2>2. w.rows = u.rows
    BY <1>1, <1>5, <1>7, <2>1 DEF Shape
  <2>3. QED
    BY <2>2 DEF JunkAt, Rows, HasCell, CellAt, RowAt
<1>13. QED
  BY <1>8, <1>9, <1>10, <1>11, <1>12

\* The tables after the texts of row k, where u was before the first row.
Covering(t, S, in, r, u, k) ==
  {x \in Tables(t, S, in, r + k) : Strategy(t) # "INSERT" => JunkAt(x) \subseteq JunkAt(u)}

\* Rows of texts with line breaks between them.
LEMMA TableWriteIn ==
  ASSUME NEW t, NEW S, NEW in, Regime(S, in), NEW r \in Nat, NEW u \in Tables(t, S, in, r),
         NEW texts \in Seq(Seq(Words)), texts # << >>,
         (Filled(u, Head(texts)) \cup FilledBelow(u, texts)) \cap JunkAt(u) = {}
  PROVE  ft_table_write(u, texts) \in Tables(t, S, in, r + (Len(texts) - 1))
<1> DEFINE n == Len(texts) - 1
           E == [k \in 0 .. n |-> Covering(t, S, in, r, u, k)]
           G == [k \in 1 .. n |->
                     [x \in Tables(t, S, in, r + (k - 1)) |-> ft_row_write(ft_ln(x), texts[k + 1])]]
           p == CHOOSE f : f = [k \in 0 .. n |->
                                    IF k = 0 THEN ft_row_write(u, texts[1])
                                    ELSE ft_row_write(ft_ln(f[k - 1]), texts[k + 1])]
<1>0. n \in Nat
  <2>1. Len(texts) \in Nat /\ Len(texts) # 0
    OBVIOUS
  <2>2. QED
    BY <2>1
<1>1. ft_row_write(u, texts[1]) \in E[0]
  <2>1. texts[1] \in Seq(Words) /\ 0 \in 0 .. n
    BY <1>0
  <2>2. Filled(u, texts[1]) \cap JunkAt(u) = {}
    <3>1. Head(texts) = texts[1]
      OBVIOUS
    <3>2. QED
      BY <3>1
  <2>3. /\ ft_row_write(u, texts[1]) \in Tables(t, S, in, r)
        /\ Strategy(t) # "INSERT" => JunkAt(ft_row_write(u, texts[1])) \subseteq JunkAt(u)
    BY <2>1, <2>2, RowWriteIn
  <2>4. r + 0 = r
    OBVIOUS
  <2>5. ft_row_write(u, texts[1]) \in Covering(t, S, in, r, u, 0)
    BY <2>3, <2>4 DEF Covering
  <2>6. QED
    BY <2>1, <2>5
<1>2. ASSUME NEW k \in 1 .. n, NEW x \in E[k - 1]
      PROVE  ft_row_write(ft_ln(x), texts[k + 1]) \in E[k]
             /\ G[k][x] = ft_row_write(ft_ln(x), texts[k + 1])
  <2>1. k - 1 \in Nat /\ (k - 1) + 1 = k /\ k - 1 \in 0 .. n /\ k \in 0 .. n
    BY <1>0
  <2>2. /\ x \in Tables(t, S, in, r + (k - 1))
        /\ Strategy(t) # "INSERT" => JunkAt(x) \subseteq JunkAt(u)
    BY <2>1 DEF Covering
  <2>3. /\ ft_row_write(ft_ln(x), texts[k + 1]) \in Tables(t, S, in, r + k)
        /\ Strategy(t) # "INSERT" => JunkAt(ft_row_write(ft_ln(x), texts[k + 1])) \subseteq JunkAt(u)
    <3>1. k + 1 \in 1 .. Len(texts)
      BY <1>0
    <3>2. texts[k + 1] \in Seq(Words)
      BY <3>1
    <3>3. PICK i \in Nat : i = r + (k - 1)
      BY <2>1
    <3>4. PICK j \in Nat : j = i + 1
      OBVIOUS
    <3>5. j = r + k
      BY <2>1, <3>3, <3>4
    <3>6. PICK y : y = ft_ln(x)
      OBVIOUS
    <3>7. /\ y \in Tables(t, S, in, j) /\ y.cur_col = 0
          /\ (Strategy(t) # "INSERT" => JunkAt(y) = JunkAt(x))
      <4>1. x \in Tables(t, S, in, i)
        BY <2>2, <3>3
      <4>2. /\ ft_ln(x) \in Tables(t, S, in, i + 1) /\ ft_ln(x).cur_col = 0
            /\ (Strategy(t) # "INSERT" => JunkAt(ft_ln(x)) = JunkAt(x))
        BY <4>1, LnIn
      <4>3. QED
        BY <3>4, <3>6, <4>2
    <3>8. Filled(y, texts[k + 1]) \cap JunkAt(y) = {}
      <4>1. CASE Strategy(t) = "INSERT"
        <5>1. Strategy(y) = "INSERT"
          BY <3>7, <4>1, ShapeParts DEF Tables, Strategy
        <5>2. QED
          BY <5>1 DEF Filled
      <4>2. CASE Strategy(t) # "INSERT"
        <5>1. y.cur_row = j /\ Strategy(y) # "INSERT" /\ u.cur_row = r /\ Strategy(u) # "INSERT"
          BY <3>7, <4>2, ShapeParts DEF Tables, Strategy
        <5>2. Filled(y, texts[k + 1]) = {<<j, 0 + v>> : v \in 0 .. (Len(texts[k + 1]) - 1)}
          BY <3>7, <5>1 DEF Filled
        <5>3. PICK q : q = k + 1
          OBVIOUS
        <5>4. q \in 2 .. Len(texts) /\ r + q - 1 = j
          BY <1>0, <3>1, <3>5, <5>3
        <5>5. ASSUME NEW v \in 0 .. (Len(texts[q]) - 1)
              PROVE  <<j, 0 + v>> \in FilledBelow(u, texts)
          <6>1. 0 + v = v
            OBVIOUS
          <6>2. <<r + q - 1, v>> \in {<<r + q - 1, z>> : z \in 0 .. (Len(texts[q]) - 1)}
            OBVIOUS
          <6>3. <<u.cur_row + q - 1, v>> \in FilledBelow(u, texts)
            <7>1. PICK all : all = {{<<u.cur_row + g - 1, z>> : z \in 0 .. (Len(texts[g]) - 1)} :
                                       g \in 2 .. Len(texts)}
              OBVIOUS
            <7>2. {<<u.cur_row + q - 1, z>> : z \in 0 .. (Len(texts[q]) - 1)} \in all
              BY <5>4, <7>1
            <7>3. FilledBelow(u, texts) = UNION all
              BY <5>1, <7>1 DEF FilledBelow
            <7>4. QED
              BY <5>1, <6>2, <7>2, <7>3
          <6>4. QED
            BY <5>1, <5>4, <6>1, <6>3
        <5>6. JunkAt(y) \subseteq JunkAt(u)
          BY <2>2, <3>7, <4>2
        <5>7. Filled(y, texts[k + 1]) \subseteq FilledBelow(u, texts)
          BY <5>2, <5>3, <5>5
        <5>8. QED
          BY <5>6, <5>7
      <4>3. QED
        BY <4>1, <4>2
    <3>9. /\ ft_row_write(y, texts[k + 1]) \in Tables(t, S, in, j)
          /\ Strategy(t) # "INSERT" => JunkAt(ft_row_write(y, texts[k + 1])) \subseteq JunkAt(y)
      BY <3>2, <3>7, <3>8, RowWriteIn
    <3>10. QED
      BY <2>2, <3>5, <3>6, <3>7, <3>9
  <2>4. ft_row_write(ft_ln(x), texts[k + 1]) \in Covering(t, S, in, r, u, k)
    BY <2>3 DEF Covering
  <2>5. QED
    BY <2>1, <2>2, <2>4
<1> HIDE DEF E, G
<1>3. PICK f : Follows(f, n, ft_row_write(u, texts[1]), G, E)
  <2>1. Leads(n, E, G)
    BY <1>2 DEF Leads
  <2> HIDE DEF n
  <2>2. QED
    BY <1>0, <1>1, <2>1, Recursion
<1>4. ASSUME NEW k \in 0 .. n
      PROVE  (IF k = 0 THEN ft_row_write(u, texts[1]) ELSE G[k][f[k - 1]])
               = IF k = 0 THEN ft_row_write(u, texts[1])
                 ELSE ft_row_write(ft_ln(f[k - 1]), texts[k + 1])
  <2>1. CASE k # 0
    <3> HIDE DEF n
    <3>1. k \in 1 .. n /\ k - 1 \in 0 .. n
      BY <1>0, <2>1
    <3>2. f[k - 1] \in E[k - 1]
      BY <1>3, <3>1 DEF Follows
    <3>3. G[k][f[k - 1]] = ft_row_write(ft_ln(f[k - 1]), texts[k + 1])
      BY <1>2, <3>1, <3>2
    <3>4. QED
      BY <3>3, Zenon
  <2>2. QED
    BY <2>1, Zenon
<1>5. f = [k \in 0 .. n |-> IF k = 0 THEN ft_row_write(u, texts[1]) ELSE G[k][f[k - 1]]]
  BY <1>3 DEF Follows
<1>6. f = [k \in 0 .. n |->
               IF k = 0 THEN ft_row_write(u, texts[1])
               ELSE ft_row_write(ft_ln(f[k - 1]), texts[k + 1])]
  BY <1>4, <1>5, Zenon
<1>7. p = [k \in 0 .. n |->
               IF k = 0 THEN ft_row_write(u, texts[1])
               ELSE ft_row_write(ft_ln(p[k - 1]), texts[k + 1])]
  BY <1>6, Zenon
<1>8. ft_table_write(u, texts) = p[n]
  BY Zenon DEF ft_table_write
<1> HIDE DEF p
<1>9. p[0] \in E[0]
  <2>1. 0 \in 0 .. n
    BY <1>0
  <2>2. p[0] = ft_row_write(u, texts[1])
    BY <1>7, <2>1
  <2>3. QED
    BY <1>1, <2>2
<1>10. ASSUME NEW k \in 1 .. n, p[k - 1] \in E[k - 1]
       PROVE  p[k] \in E[k]
  <2>1. k \in 0 .. n /\ k # 0
    BY <1>0
  <2>2. p[k] = ft_row_write(ft_ln(p[k - 1]), texts[k + 1])
    BY <1>7, <2>1
  <2>3. QED
    BY <1>2, <1>10, <2>2
<1>11. p[n] \in E[n]
  <2> HIDE DEF n
  <2>1. \A k \in 0 .. n : p[k] \in E[k]
    BY <1>0, <1>9, <1>10, Reached
  <2>2. QED
    BY <1>0, <2>1
<1>12. p[n] \in Covering(t, S, in, r, u, n)
  BY <1>0, <1>11 DEF E
<1>13. QED
  BY <1>8, <1>12 DEF Covering

\* A format put in: as many cells as it has are behind the cursor.
LEMMA PrintfIn ==
  ASSUME NEW t, NEW S, NEW in, Regime(S, in), NEW r \in Nat, NEW u \in Tables(t, S, in, r),
         NEW fmt \in Formats
  PROVE  ft_row_printf_impl(u, fmt) \in Tables(t, S, in, r)
<1>1. u \in Shape(t, S, r)
  BY DEF Tables
<1>2. PICK c \in Nat : c = u.cur_col
  BY <1>1, ShapeParts
<1>3. u.cur_row = r
  BY <1>1, ShapeParts
<1>4. PICK v : v = get_row_and_create_if_not_exists(u, r)
  OBVIOUS
<1>5. v \in Tables(t, S, in, r)
  BY <1>4, GetRowKeepsCursor
<1>6. v \in Shape(t, S, r) /\ r < Rows(v) /\ v.cur_col = c /\ v.cur_row = r
  <2>1. v \in Shape(t, S, r) /\ Rows(v) > r /\ v.cur_col = c
    BY <1>1, <1>2, <1>4, GetRowIn
  <2>2. Rows(v) \in Nat /\ v.cur_row = r
    BY <2>1, RowsAre, ShapeParts
  <2>3. QED
    BY <2>1, <2>2
<1>7. PICK cur : cur = RowAt(v, r)
  OBVIOUS
<1>8. cur \in Roomy(S) /\ columns_in_row(cur) = Len(cur.items)
  BY <1>6, <1>7, RowsAre
<1>9. in => c <= Len(cur.items)
  BY <1>5, <1>6, <1>7, <1>8 DEF Tables, CursorIn
<1>10. HoldsCells(S) /\ (Junk \in S \/ in) /\ in \in BOOLEAN
  BY DEF Regime
<1>11. PICK new : new = create_row_from_fmt_string(fmt)
  OBVIOUS
<1>12. new \in Roomy(S)
  BY <1>10, <1>11, FormatRowIn
<1>13. PICK m \in Nat : m = columns_in_row(new)
  BY <1>12, RoomyParts DEF columns_in_row, vector_size
<1>14. PICK row : row = IF Strategy(u) = "INSERT" THEN insert_row(cur, new, c)
                        ELSE swap_row(cur, new, c).cur
  OBVIOUS
<1>15. row \in Roomy(S) /\ (in => c + m <= Len(row.items))
  <2>1. CASE Strategy(u) = "INSERT"
    <3>1. row \in Roomy(S) /\ Len(row.items) >= c + m
      BY <1>8, <1>10, <1>12, <1>13, <1>14, <2>1, InsertedRow
    <3>2. PICK n \in Nat : n = Len(row.items)
      BY <3>1, RoomyParts
    <3>3. QED
      BY <3>1, <3>2
  <2>2. CASE Strategy(u) # "INSERT"
    <3>1. Junk \in S \/ c <= Len(cur.items)
      BY <1>9, <1>10
    <3>2. row \in Roomy(S) /\ (c <= Len(cur.items) => Len(row.items) >= c + m)
      BY <1>8, <1>12, <1>13, <1>14, <2>2, <3>1, SwappedRow
    <3>3. PICK n \in Nat : n = Len(row.items)
      BY <3>2, RoomyParts
    <3>4. QED
      BY <1>9, <3>2, <3>3
  <2>3. QED
    BY <2>1, <2>2
<1>16. [SetRow(v, r, row) EXCEPT !.cur_col = c + m] \in Tables(t, S, in, r)
  <2>1. PICK col \in Nat : col = c + m
    OBVIOUS
  <2>2. QED
    BY <1>5, <1>6, <1>15, <2>1, PutRow
<1>17. ft_row_printf_impl(u, fmt) = [SetRow(v, r, row) EXCEPT !.cur_col = c + m]
  <2>1. SetRow(v, r, row).cur_col = c
    BY <1>6, <1>15, SetRowIn
  <2>2. ft_row_printf_impl(u, fmt) = [SetRow(v, r, row) EXCEPT !.cur_col = @ + m]
    BY <1>2, <1>3, <1>4, <1>7, <1>11, <1>13, <1>14, Zenon DEF ft_row_printf_impl
  <2>3. QED
    BY <2>1, <2>2
<1>18. QED
  BY <1>16, <1>17

\* A table in its own company.
LEMMA OwnCompany ==
  ASSUME NEW t, NEW S, NEW in, NEW r, NEW u \in Tables(t, S, in, r)
  PROVE  u \in Tables(u, S, in, u.cur_row)
<1>1. u \in Shape(t, S, r) /\ (in => CursorIn(u))
  BY DEF Tables
<1>2. u \in Shape(u, S, u.cur_row)
  BY <1>1 DEF Shape
<1>3. QED
  BY <1>1, <1>2 DEF Tables

\* Other separators in the same table.
LEMMA SeparatorsIn ==
  ASSUME NEW t, NEW S, NEW in, NEW r, NEW u \in Tables(t, S, in, r), NEW seps \in Roomy(BOOLEAN),
         NEW w, w = [u EXCEPT !.separators = seps]
  PROVE  w \in Tables(t, S, in, r)
<1>1. u \in Shape(t, S, r) /\ (in => CursorIn(u))
  BY DEF Tables
<1>2. w \in Shape(t, S, r) /\ w.rows = u.rows /\ w.cur_col = u.cur_col /\ w.cur_row = u.cur_row
  BY <1>1 DEF Shape
<1>3. CursorIn(w) = CursorIn(u)
  BY <1>2 DEF CursorIn, Rows, RowAt
<1>4. QED
  BY <1>1, <1>2, <1>3 DEF Tables

\* One item of a sequence becomes another.
LEMMA SetAt ==
  ASSUME NEW S, NEW s \in Seq(S), NEW x \in S, NEW i \in Nat
  PROVE  [s EXCEPT ![i] = x] \in Seq(S) /\ Len([s EXCEPT ![i] = x]) = Len(s)
<1>1. PICK n \in Nat : n = Len(s) /\ s \in [1 .. n -> S]
  OBVIOUS
<1>2. [s EXCEPT ![i] = x] \in [1 .. n -> S]
  BY <1>1
<1>3. QED
  BY <1>1, <1>2

\* A separator at the current row, and disabled ones up to it.
LEMMA AddSeparatorIn ==
  ASSUME NEW t, NEW S, NEW in, NEW r \in Nat, NEW u \in Tables(t, S, in, r)
  PROVE  ft_add_separator(u) \in Tables(t, S, in, r)
<1>1. u \in Shape(t, S, r)
  BY DEF Tables
<1>2. u.separators \in Roomy(BOOLEAN) /\ u.cur_row = r
  BY <1>1, ShapeParts
<1>3. PICK n \in Nat : n = vector_size(u.separators) /\ n = Len(u.separators.items)
  BY <1>2, RoomyParts DEF vector_size
<1>4. PICK m \in Nat : m = Max({0, r + 1 - n}) /\ m = IF r + 1 - n > 0 THEN r + 1 - n ELSE 0
  BY Missing
<1>5. PICK filled : filled = PushTimes(u.separators, FALSE, m)
  OBVIOUS
<1>6. filled \in Longer(BOOLEAN, u.separators, FALSE, m)
  BY <1>2, <1>5, PushTimesIn
<1>7. filled \in Roomy(BOOLEAN) /\ Len(filled.items) = n + m
  BY <1>3, <1>6 DEF Longer
<1>8. filled.items \in Seq(BOOLEAN) /\ filled.cap \in Nat /\ filled.cap > 0
      /\ Len(filled.items) <= filled.cap /\ filled = [items |-> filled.items, cap |-> filled.cap]
  BY <1>7, RoomyParts
<1>9. PICK s : s = [filled.items EXCEPT ![r + 1] = TRUE]
  OBVIOUS
<1>10. s \in Seq(BOOLEAN) /\ Len(s) = Len(filled.items)
  <2>1. r + 1 \in Nat /\ TRUE \in BOOLEAN
    OBVIOUS
  <2>2. QED
    BY <1>8, <1>9, <2>1, SetAt
<1>11. PICK seps : seps = [filled EXCEPT !.items = s]
  OBVIOUS
<1>12. seps = [items |-> s, cap |-> filled.cap]
  BY <1>8, <1>11, SetItems
<1>13. seps \in Roomy(BOOLEAN)
  BY <1>8, <1>10, <1>12, MakeRoomy
<1>14. ft_add_separator(u) = [u EXCEPT !.separators = seps]
  BY <1>2, <1>3, <1>4, <1>5, <1>9, <1>11, Zenon DEF ft_add_separator
<1>15. QED
  BY <1>13, <1>14, SeparatorsIn

\* A span changes one row, which may be created for it.
LEMMA SetSpanIn ==
  ASSUME NEW t, NEW S, NEW in, Regime(S, in), NEW r \in Nat, NEW u \in Tables(t, S, in, r),
         NEW i \in Nat, NEW col \in Nat, NEW hor_span \in Nat, hor_span >= 2,
         {<<i, col + k>> : k \in 0 .. (hor_span - 1)} \cap JunkAt(u) = {}
  PROVE  ft_set_cell_span(u, i, col, hor_span) \in Tables(t, S, in, r)
<1>1. u \in Shape(t, S, r)
  BY DEF Tables
<1>2. PICK v : v = get_row_and_create_if_not_exists(u, i)
  OBVIOUS
<1>3. v \in Tables(t, S, in, r)
  BY <1>2, GetRowKeepsCursor
<1>4. v \in Shape(t, S, r) /\ Rows(v) > i
  BY <1>1, <1>2, GetRowIn
<1>5. Rows(v) \in Nat /\ i < Rows(v) /\ v.cur_row = r
  BY <1>4, RowsAre, ShapeParts
<1>6. PICK old : old = RowAt(v, i)
  OBVIOUS
<1>7. old \in Roomy(S) /\ columns_in_row(old) = Len(old.items)
  BY <1>4, <1>5, <1>6, RowsAre
<1>8. PICK row : row = row_set_cell_span(old, col, hor_span)
  OBVIOUS
<1>9. row \in Roomy(S) /\ Len(row.items) >= Len(old.items)
  <2>1. ASSUME NEW x \in (col + 1) .. (col + hor_span), x <= Len(old.items)
        PROVE  old.items[x] # Junk
    <3>1. PICK k \in 0 .. (hor_span - 1) : k = x - col - 1
      BY <2>1
    <3>2. PICK c \in Nat : c = col + k
      OBVIOUS
    <3>3. <<i, c>> \notin JunkAt(v)
      <4>1. <<i, c>> \in {<<i, col + z>> : z \in 0 .. (hor_span - 1)}
        BY <3>1, <3>2
      <4>2. JunkAt(v) \subseteq JunkAt(u)
        BY <1>1, <1>2, GetRowJunk
      <4>3. QED
        BY <4>1, <4>2
    <3>4. PICK n \in Nat : n = Len(old.items)
      BY <1>7, RoomyParts
    <3>5. c + 1 = x /\ c < n
      BY SMTT(30), <2>1, <3>1, <3>2, <3>4
    <3>6. QED
      BY <1>4, <1>5, <1>6, <3>3, <3>4, <3>5, JunkIs
  <2>2. QED
    BY <1>7, <1>8, <2>1, SpanIn DEF Regime
<1>10. PICK w : w = SetRow(v, i, row)
  OBVIOUS
<1>11. /\ w \in Shape(t, S, r) /\ Rows(w) = Rows(v) /\ w.cur_col = v.cur_col
       /\ \A j \in Nat : j < Rows(v) => RowAt(w, j) = IF j = i THEN row ELSE RowAt(v, j)
  BY <1>4, <1>5, <1>9, <1>10, SetRowIn
<1>12. PICK c \in Nat : c = v.cur_col
  BY <1>4, ShapeParts
<1>13. ASSUME CursorIn(v)
       PROVE  CursorIn(w)
  <2>1. w.cur_row = r
    BY <1>11, ShapeParts
  <2>2. CASE r < Rows(v)
    <3>1. c <= columns_in_row(RowAt(v, r))
      BY <1>5, <1>12, <1>13, <2>2 DEF CursorIn
    <3>2. RowAt(w, r) = IF r = i THEN row ELSE RowAt(v, r)
      BY <1>11, <2>2
    <3>3. c <= columns_in_row(RowAt(w, r))
      <4>1. CASE r = i
        <5>1. PICK n \in Nat : n = Len(old.items)
          BY <1>7, RoomyParts
        <5>2. PICK m \in Nat : m = Len(row.items) /\ m = columns_in_row(row)
          BY <1>9, RoomyParts DEF columns_in_row, vector_size
        <5>3. c <= n /\ n <= m
          BY <1>6, <1>7, <1>9, <3>1, <4>1, <5>1, <5>2
        <5>4. QED
          BY <3>2, <4>1, <5>2, <5>3
      <4>2. CASE r # i
        BY <3>1, <3>2, <4>2
      <4>3. QED
        BY <4>1, <4>2
    <3>4. QED
      BY <1>11, <1>12, <2>1, <2>2, <3>3 DEF CursorIn
  <2>3. CASE ~ (r < Rows(v))
    BY <1>5, <1>11, <1>13, <2>1, <2>3 DEF CursorIn
  <2>4. QED
    BY <2>2, <2>3
<1>14. w \in Tables(t, S, in, r)
  BY <1>3, <1>11, <1>13 DEF Tables
<1>15. QED
  BY <1>2, <1>6, <1>8, <1>10, <1>14 DEF ft_set_cell_span

\* The vectors of anything.
IsRoomy(v) == \E E : v \in Roomy(E)

\* The tables t and u have the same contents: cells, separators, properties,
\* borders and margins, though not the same capacities, cursor or buffer.
Alike(t, u) ==
  /\ Rows(t) \in Nat /\ Rows(u) = Rows(t)
  /\ DOMAIN t.rows.items = 1 .. Rows(t) /\ DOMAIN u.rows.items = 1 .. Rows(t)
  /\ \A i \in 1 .. Rows(t) : u.rows.items[i].items = t.rows.items[i].items
  /\ u.separators.items = t.separators.items
  /\ u.cell_properties.items = t.cell_properties.items
  /\ u.border_style = t.border_style /\ u.tprops = t.tprops /\ u.defaults = t.defaults

\* A copy has the contents of the original, the same cursor and room to grow.
LEMMA CopyIn ==
  ASSUME NEW S, NEW in, NEW r \in Nat, NEW u, u \in Tables(u, S, in, r), IsRoomy(u.cell_properties)
  PROVE  /\ ft_copy_table(u) \in Tables(ft_copy_table(u), S, in, r)
         /\ ft_copy_table(u).cell_properties.items = u.cell_properties.items
         /\ ft_copy_table(u).defaults = u.defaults
         /\ IsRoomy(ft_copy_table(u).cell_properties) /\ ft_copy_table(u).conv_buffer = NULL
         /\ Alike(u, ft_copy_table(u))
<1>1. u \in Shape(u, S, r) /\ (in => CursorIn(u))
  BY DEF Tables
<1>2. u.rows \in Roomy(Roomy(S)) /\ u.separators \in Roomy(BOOLEAN) /\ u.cur_row = r
      /\ u.cur_col \in Nat
  BY <1>1, ShapeParts
<1>3. u.rows.items \in Seq(Roomy(S)) /\ u.separators.items \in Seq(BOOLEAN)
  BY <1>2, RoomyParts
<1>4. PICK new : new = create_vector(DEFAULT_VECTOR_CAPACITY)
  OBVIOUS
<1>5. PICK s : s = [i \in DOMAIN u.rows.items |-> copy_row(u.rows.items[i])]
  OBVIOUS
<1>6. PICK n \in Nat : n = Len(u.rows.items)
  BY <1>2, RoomyParts
<1>7. \A i \in 1 .. n : u.rows.items[i] \in Roomy(S) /\ DOMAIN u.rows.items = 1 .. n
  BY <1>3, <1>6
<1>8. \A i \in 1 .. n : copy_row(u.rows.items[i]) \in Roomy(S)
                         /\ copy_row(u.rows.items[i]).items = u.rows.items[i].items
  BY <1>7, CopiedRow
<1>9. DOMAIN u.rows.items = 1 .. n
  BY <1>3, <1>6
<1>10. s \in [1 .. n -> Roomy(S)]
  BY <1>5, <1>8, <1>9
<1>11. s \in Seq(Roomy(S)) /\ Len(s) = n
  BY <1>10
<1>12. PICK rows : rows = PushAll(new, s)
  OBVIOUS
<1>13. rows \in Roomy(Roomy(S)) /\ rows.items = s
  BY <1>4, <1>11, <1>12, PushAllIn
<1>14. PICK seps : seps = PushAll(new, u.separators.items)
  OBVIOUS
<1>15. seps \in Roomy(BOOLEAN) /\ seps.items = u.separators.items
  BY <1>3, <1>4, <1>14, PushAllIn
<1>16. PICK E : u.cell_properties \in Roomy(E)
  BY DEF IsRoomy
<1>17. u.cell_properties.items \in Seq(E)
  BY <1>16, RoomyParts
<1>18. PICK props : props = copy_cell_properties(u.cell_properties)
  OBVIOUS
<1>19. props \in Roomy(E) /\ props.items = u.cell_properties.items
  BY <1>4, <1>17, <1>18, PushAllIn DEF copy_cell_properties, create_cell_prop_container
<1>20. PICK w : w = [rows |-> rows, separators |-> seps, cell_properties |-> props,
                     border_style |-> u.border_style, tprops |-> u.tprops, defaults |-> u.defaults,
                     conv_buffer |-> NULL, cur_row |-> r, cur_col |-> u.cur_col]
  OBVIOUS
<1>21. ft_copy_table(u) = w
  <2>1. PICK c : c = create_table(u.border_style, u.tprops, u.defaults)
    OBVIOUS
  <2>2. c = [rows |-> new, separators |-> new, cell_properties |-> new,
             border_style |-> u.border_style, tprops |-> u.tprops, defaults |-> u.defaults,
             conv_buffer |-> NULL, cur_row |-> 0, cur_col |-> 0]
    BY <1>4, <2>1 DEF create_table, create_cell_prop_container
  <2>3. ft_copy_table(u) =
          [c EXCEPT !.rows = PushAll(@, s), !.separators = PushAll(@, u.separators.items),
                    !.cell_properties = props, !.cur_row = r, !.cur_col = u.cur_col]
    BY <1>2, <1>5, <1>18, <2>1, Zenon DEF ft_copy_table
  <2>4. [c EXCEPT !.rows = PushAll(@, s), !.separators = PushAll(@, u.separators.items),
                  !.cell_properties = props, !.cur_row = r, !.cur_col = u.cur_col]
        = [c EXCEPT !.rows = rows, !.separators = seps,
                  !.cell_properties = props, !.cur_row = r, !.cur_col = u.cur_col]
    BY <1>12, <1>14, <2>2
  <2>5. [c EXCEPT !.rows = rows, !.separators = seps,
                  !.cell_properties = props, !.cur_row = r, !.cur_col = u.cur_col] = w
    <3>1. c \in [rows : {new}, separators : {new}, cell_properties : {new},
                 border_style : {u.border_style}, tprops : {u.tprops}, defaults : {u.defaults},
                 conv_buffer : {NULL}, cur_row : {0}, cur_col : {0}]
      BY <2>2
    <3> DEFINE d == [c EXCEPT !.rows = rows, !.separators = seps,
                              !.cell_properties = props, !.cur_row = r, !.cur_col = u.cur_col]
    <3>2. d \in [rows : {rows}, separators : {seps}, cell_properties : {props},
                 border_style : {u.border_style}, tprops : {u.tprops}, defaults : {u.defaults},
                 conv_buffer : {NULL}, cur_row : {r}, cur_col : {u.cur_col}]
      BY <3>1
    <3> HIDE DEF d
    <3>3. /\ d.rows = rows /\ d.separators = seps /\ d.cell_properties = props
          /\ d.border_style = u.border_style /\ d.tprops = u.tprops /\ d.defaults = u.defaults
          /\ d.conv_buffer = NULL /\ d.cur_row = r /\ d.cur_col = u.cur_col
      BY <3>2
    <3>4. d = [rows |-> d.rows, separators |-> d.separators, cell_properties |-> d.cell_properties,
               border_style |-> d.border_style, tprops |-> d.tprops, defaults |-> d.defaults,
               conv_buffer |-> d.conv_buffer, cur_row |-> d.cur_row, cur_col |-> d.cur_col]
      BY <3>2
    <3>5. d = w
      BY <1>20, <3>3, <3>4
    <3>6. QED
      BY <3>5 DEF d
  <2>6. QED
    BY <2>3, <2>4, <2>5, Zenon
<1>22. w \in Shape(w, S, r)
  BY <1>2, <1>13, <1>15, <1>20 DEF Shape
<1>23. ASSUME CursorIn(u)
       PROVE  CursorIn(w)
  <2>1. Rows(u) = n /\ Rows(w) = n
    BY <1>6, <1>11, <1>13, <1>20 DEF Rows, vector_size
  <2>2. ASSUME r < n
        PROVE  columns_in_row(RowAt(w, r)) = columns_in_row(RowAt(u, r))
    <3>1. r + 1 \in 1 .. n
      BY <2>2
    <3>2. w.rows.items[r + 1] = copy_row(u.rows.items[r + 1])
      BY <1>5, <1>9, <1>13, <1>20, <3>1
    <3>3. w.rows.items[r + 1].items = u.rows.items[r + 1].items
      BY <1>8, <3>1, <3>2
    <3>4. QED
      BY <3>3 DEF columns_in_row, vector_size, RowAt, vector_at
  <2>3. w.cur_row = r /\ w.cur_col = u.cur_col
    BY <1>20
  <2>4. QED
    BY <1>2, <1>23, <2>1, <2>2, <2>3 DEF CursorIn
<1>24. Alike(u, w)
  <2>1. Rows(u) = n /\ Rows(w) = n /\ DOMAIN w.rows.items = 1 .. n
    BY <1>5, <1>6, <1>9, <1>11, <1>13, <1>20 DEF Rows, vector_size
  <2>2. \A i \in 1 .. n : w.rows.items[i].items = u.rows.items[i].items
    BY <1>5, <1>8, <1>9, <1>13, <1>20
  <2>3. QED
    BY <1>9, <1>15, <1>19, <1>20, <2>1, <2>2 DEF Alike
<1>25. QED
  BY <1>1, <1>19, <1>20, <1>21, <1>22, <1>23, <1>24 DEF Tables, IsRoomy
-----------------------------------------------------------------------------
(* ft_erase_range.                                                         *)

\* The rows in the range lose cells; all stay for now.
LEMMA CellsErasedIn ==
  ASSUME NEW t, NEW S, NEW r, NEW u \in Shape(t, S, r),
         NEW top, NEW left \in Nat, NEW bottom, NEW right \in Nat
  PROVE  /\ CellsErased(u, top, left, bottom, right) \in Shape(t, S, r)
         /\ Rows(CellsErased(u, top, left, bottom, right)) = Rows(u)
<1>1. u.rows \in Roomy(Roomy(S))
  BY ShapeParts
<1>2. PICK n \in Nat : n = Rows(u) /\ n = Len(u.rows.items)
  BY RowsAre
<1>3. /\ u.rows.items \in Seq(Roomy(S)) /\ u.rows.cap \in Nat /\ u.rows.cap > 0 /\ n <= u.rows.cap
      /\ u.rows = [items |-> u.rows.items, cap |-> u.rows.cap]
  BY <1>1, <1>2, RoomyParts
<1>4. DOMAIN u.rows.items = 1 .. n /\ \A i \in 1 .. n : u.rows.items[i] \in Roomy(S)
  BY <1>2, <1>3
<1>5. PICK s : s = [i \in DOMAIN u.rows.items |->
                     IF (i - 1) \in ErasedRows(u, top, bottom)
                     THEN ft_row_erase_range(u.rows.items[i], left, right) ELSE u.rows.items[i]]
  OBVIOUS
<1>6. ASSUME NEW i \in 1 .. n
      PROVE  s[i] \in Roomy(S)
  <2>1. ft_row_erase_range(u.rows.items[i], left, right) \in Roomy(S)
    BY <1>4, ErasedRow
  <2>2. QED
    BY <1>4, <1>5, <2>1
<1>7. s = [i \in 1 .. n |-> s[i]]
  BY <1>4, <1>5
<1>8. s \in [1 .. n -> Roomy(S)]
  BY <1>6, <1>7
<1>9. s \in Seq(Roomy(S)) /\ Len(s) = n
  BY <1>8
<1>10. PICK rows : rows = [u.rows EXCEPT !.items = s]
  OBVIOUS
<1>11. rows = [items |-> s, cap |-> u.rows.cap]
  BY <1>3, <1>10, SetItems
<1>12. rows \in Roomy(Roomy(S)) /\ rows.items = s
  BY <1>3, <1>9, <1>11, MakeRoomy
<1>13. PICK w : w = [u EXCEPT !.rows = rows]
  OBVIOUS
<1>14. w \in Shape(t, S, r) /\ w.rows = rows
  BY <1>12, <1>13, ShapeWithRows
<1>15. CellsErased(u, top, left, bottom, right) = w
  BY <1>5, <1>10, <1>13, Zenon DEF CellsErased
<1>16. Rows(w) = n
  BY <1>9, <1>12, <1>14, RowsAre
<1>17. QED
  BY <1>2, <1>14, <1>15, <1>16

\* The states of the second loop.
LoopStates(t, S, r) == [t : Shape(t, S, r), i : Nat, crashed : BOOLEAN]

\* One round of it.
RoundOf(s) ==
  IF s.crashed \/ s.i >= Rows(s.t) THEN [s EXCEPT !.crashed = TRUE] ELSE EraseRound(s)

\* A round either goes on to the next row or takes one away.
LEMMA EraseRoundIn ==
  ASSUME NEW t, NEW S, NEW r, NEW s \in LoopStates(t, S, r), s.i < Rows(s.t)
  PROVE  /\ EraseRound(s) \in LoopStates(t, S, r)
         /\ EraseRound(s).crashed = s.crashed
         /\ Rows(EraseRound(s).t) - EraseRound(s).i = Rows(s.t) - s.i - 1
<1>1. PICK u \in Shape(t, S, r) : u = s.t
  BY DEF LoopStates
<1>2. PICK i \in Nat : i = s.i
  BY DEF LoopStates
<1>3. s.crashed \in BOOLEAN /\ s = [t |-> u, i |-> i, crashed |-> s.crashed]
  BY <1>1, <1>2 DEF LoopStates
<1>4. PICK n \in Nat : n = Rows(u)
  BY RowsAre
<1>5. CASE columns_in_row(RowAt(s.t, s.i)) > 0
  <2>1. EraseRound(s) = [s EXCEPT !.i = @ + 1]
    BY <1>5 DEF EraseRound
  <2>2. EraseRound(s) = [t |-> u, i |-> i + 1, crashed |-> s.crashed]
    BY <1>3, <2>1
  <2>3. n - (i + 1) = n - i - 1
    OBVIOUS
  <2>4. QED
    BY <1>1, <1>2, <1>3, <1>4, <2>2, <2>3 DEF LoopStates
<1>6. CASE ~ (columns_in_row(RowAt(s.t, s.i)) > 0)
  <2>1. u.rows \in Roomy(Roomy(S)) /\ u.separators \in Roomy(BOOLEAN)
    BY ShapeParts
  <2>2. n = Len(u.rows.items) /\ i < n
    BY <1>1, <1>2, <1>4, RowsAre
  <2>3. PICK rows : rows = vector_erase(u.rows, i)
    OBVIOUS
  <2>4. rows \in Roomy(Roomy(S)) /\ Len(rows.items) = n - 1
    BY <2>1, <2>2, <2>3, EraseIn
  <2>5. PICK seps : seps = vector_erase(u.separators, i)
    OBVIOUS
  <2>6. seps \in Roomy(BOOLEAN)
    BY <2>1, <2>5, EraseIn
  <2>7. PICK w : w = [u EXCEPT !.rows = rows, !.separators = seps]
    OBVIOUS
  <2>8. w \in Shape(t, S, r) /\ w.rows = rows
    BY <2>4, <2>6, <2>7 DEF Shape
  <2>9. Rows(w) = n - 1
    BY <2>4, <2>8, RowsAre
  <2>10. EraseRound(s) = [s EXCEPT !.t.rows = vector_erase(@, s.i),
                                   !.t.separators = vector_erase(@, s.i)]
    BY <1>6 DEF EraseRound
  <2>11. EraseRound(s) = [t |-> w, i |-> i, crashed |-> s.crashed]
    <3>1. [s EXCEPT !.t.rows = vector_erase(@, s.i), !.t.separators = vector_erase(@, s.i)]
          = [s EXCEPT !.t = [u EXCEPT !.rows = rows, !.separators = seps]]
      BY <1>1, <1>2, <1>3, <2>3, <2>5
    <3>2. QED
      BY <1>3, <2>7, <2>10, <3>1
  <2>12. (n - 1) - i = n - i - 1
    OBVIOUS
  <2>13. QED
    BY <1>1, <1>2, <1>3, <1>4, <2>8, <2>9, <2>11, <2>12 DEF LoopStates
<1>7. QED
  BY <1>5, <1>6

\* After k rounds, with b rows from the first one on: all of them found a
\* row, or one of them crashed.
AfterRounds(t, S, r, b, k) ==
  {s \in LoopStates(t, S, r) :
     IF k = 0 \/ k <= b THEN ~ s.crashed /\ Rows(s.t) - s.i = b - k ELSE s.crashed}

\* One round more.
LEMMA RoundIn ==
  ASSUME NEW t, NEW S, NEW r, NEW b \in Int, NEW k \in Nat, NEW s \in AfterRounds(t, S, r, b, k)
  PROVE  RoundOf(s) \in AfterRounds(t, S, r, b, k + 1)
<1>1. s \in LoopStates(t, S, r)
  BY DEF AfterRounds
<1>2. PICK u \in Shape(t, S, r) : u = s.t
  BY <1>1 DEF LoopStates
<1>3. PICK n \in Nat : n = Rows(s.t)
  BY <1>2, RowsAre
<1>4. PICK i \in Nat : i = s.i
  BY <1>1 DEF LoopStates
<1>5. s.crashed \in BOOLEAN
  BY <1>1 DEF LoopStates
<1>6. CASE s.crashed \/ i >= n
  <2>1. RoundOf(s) = [s EXCEPT !.crashed = TRUE]
    BY <1>3, <1>4, <1>6 DEF RoundOf
  <2>2. RoundOf(s) \in LoopStates(t, S, r) /\ RoundOf(s).crashed
    BY <1>1, <2>1 DEF LoopStates
  <2>3. ~ (k + 1 <= b)
    <3>1. CASE k = 0 \/ k <= b
      <4>1. ~ s.crashed /\ n - i = b - k
        BY <1>3, <1>4, <3>1 DEF AfterRounds
      <4>2. n - i <= 0
        BY <1>6, <4>1
      <4>3. QED
        BY <4>1, <4>2
    <3>2. CASE ~ (k = 0 \/ k <= b)
      BY <3>2
    <3>3. QED
      BY <3>1, <3>2
  <2>4. k + 1 # 0
    OBVIOUS
  <2>5. QED
    BY <2>2, <2>3, <2>4 DEF AfterRounds
<1>7. CASE ~ s.crashed /\ i < n
  <2>1. RoundOf(s) = EraseRound(s)
    BY <1>3, <1>4, <1>7 DEF RoundOf
  <2>2. PICK w : w = EraseRound(s)
    OBVIOUS
  <2>3. w \in LoopStates(t, S, r) /\ w.crashed = s.crashed /\ Rows(w.t) - w.i = n - i - 1
    BY <1>1, <1>3, <1>4, <1>7, <2>2, EraseRoundIn
  <2>4. k = 0 \/ k <= b
    BY <1>7 DEF AfterRounds
  <2>5. n - i = b - k
    BY <1>3, <1>4, <2>4 DEF AfterRounds
  <2>6. k + 1 <= b /\ n - i - 1 = b - (k + 1)
    BY <1>7, <2>5
  <2>7. QED
    BY <1>7, <2>1, <2>2, <2>3, <2>6 DEF AfterRounds
<1>8. QED
  BY <1>5, <1>6, <1>7

\* What the second loop makes of a table: E[k] holds what is possible after
\* k rounds.
LEMMA LoopReaches ==
  ASSUME NEW u, NEW top, NEW n \in Nat, NEW E, [t |-> u, i |-> top, crashed |-> FALSE] \in E[0],
         \A k \in 1 .. n : \A x \in E[k - 1] : RoundOf(x) \in E[k]
  PROVE  EraseLoop(u, top, n) \in E[n]
<1>0. PICK a : a = [t |-> u, i |-> top, crashed |-> FALSE]
  OBVIOUS
<1> DEFINE G == [k \in 1 .. n |-> [x \in E[k - 1] |-> RoundOf(x)]]
           p == CHOOSE f : f = [k \in 0 .. n |->
                                    IF k = 0 THEN a ELSE RoundOf(f[k - 1])]
<1>1. \A k \in 1 .. n : \A x \in E[k - 1] : G[k][x] = RoundOf(x)
  OBVIOUS
<1> HIDE DEF G
<1>2. PICK f : Follows(f, n, a, G, E)
  <2>1. Leads(n, E, G)
    BY <1>1 DEF Leads
  <2>2. QED
    BY <1>0, <2>1, Recursion
<1>3. ASSUME NEW k \in 0 .. n
      PROVE  (IF k = 0 THEN a ELSE G[k][f[k - 1]])
               = IF k = 0 THEN a ELSE RoundOf(f[k - 1])
  <2>1. CASE k # 0
    <3>1. k \in 1 .. n /\ k - 1 \in 0 .. n
      BY <2>1
    <3>2. f[k - 1] \in E[k - 1]
      BY <1>2, <3>1 DEF Follows
    <3>3. G[k][f[k - 1]] = RoundOf(f[k - 1])
      BY <1>1, <3>1, <3>2
    <3>4. QED
      BY <3>3, Zenon
  <2>2. QED
    BY <2>1, Zenon
<1>4. f = [k \in 0 .. n |-> IF k = 0 THEN a ELSE G[k][f[k - 1]]]
  BY <1>2 DEF Follows
<1>5. f = [k \in 0 .. n |-> IF k = 0 THEN a ELSE RoundOf(f[k - 1])]
  BY <1>3, <1>4, Zenon
<1>6. p = [k \in 0 .. n |-> IF k = 0 THEN a ELSE RoundOf(p[k - 1])]
  BY <1>5, Zenon
<1>7. EraseLoop(u, top, n) = p[n]
  BY <1>0, Zenon DEF EraseLoop, RoundOf
<1> HIDE DEF p
<1>8. p[0] \in E[0]
  BY <1>0, <1>6
<1>9. ASSUME NEW k \in 1 .. n, p[k - 1] \in E[k - 1]
      PROVE  p[k] \in E[k]
  <2>1. k \in 0 .. n /\ k # 0
    OBVIOUS
  <2>2. p[k] = RoundOf(p[k - 1])
    BY <1>6, <2>1
  <2>3. QED
    BY <1>9, <2>2
<1>10. p[n] \in E[n]
  <2>1. \A k \in 0 .. n : p[k] \in E[k]
    BY <1>8, <1>9, Reached
  <2>2. QED
    BY <2>1
<1>11. QED
  BY <1>7, <1>10

\* The loop crashes if it makes a round more than there are rows.
LEMMA EraseLoopIn ==
  ASSUME NEW t, NEW S, NEW r, NEW u \in Shape(t, S, r), NEW top \in Nat, NEW rounds \in Nat,
         NEW b \in Int, b = Rows(u) - top
  PROVE  EraseLoop(u, top, rounds) \in AfterRounds(t, S, r, b, rounds)
<1>1. PICK E : E = [k \in 0 .. rounds |-> AfterRounds(t, S, r, b, k)]
  OBVIOUS
<1>2. [t |-> u, i |-> top, crashed |-> FALSE] \in E[0] /\ E[rounds] = AfterRounds(t, S, r, b, rounds)
  BY <1>1 DEF AfterRounds, LoopStates
<1>3. ASSUME NEW k \in 1 .. rounds, NEW x \in E[k - 1]
      PROVE  RoundOf(x) \in E[k]
  <2>1. PICK l \in Nat : l = k - 1 /\ k = l + 1
    OBVIOUS
  <2>2. E[k - 1] = AfterRounds(t, S, r, b, l) /\ E[k] = AfterRounds(t, S, r, b, l + 1)
    BY <1>1, <2>1
  <2>3. QED
    BY <2>2, RoundIn
<1>4. QED
  BY <1>2, <1>3, LoopReaches

\* An entry for a key.
IsFor(e, row, col) == e.row = row /\ e.col = col

\* The value of a property in the entry for a key, by what was asked for:
\* the last value accepted, or what a new entry has.
Held(a, d, row, col, p) ==
  IF <<row, col, p>> \in DOMAIN a /\ a[<<row, col, p>>] # Nothing
  THEN a[<<row, col, p>>]
  ELSE IF row = ANY /\ col = ANY THEN d.val[p] ELSE 0

\* The entry e says what was asked for its key: a, with the defaults d.
Faithful(e, a, d) ==
  /\ IsEntry(e)
  /\ \A p \in CellProps :
       p \in e.set <=> \/ <<e.row, e.col, p>> \in DOMAIN a
                       \/ e.row = ANY /\ e.col = ANY /\ p \in d.set
  /\ \A p \in CellProps \ TextStyles : e.val[p] = Held(a, d, e.row, e.col, p)

\* What each entry says, that no two are for the same key, and that there is
\* one for every key asked for.
Agrees(items, a, d) ==
  /\ \A i \in 1 .. Len(items) : Faithful(items[i], a, d)
  /\ \A i, j \in 1 .. Len(items) :
       items[i].row = items[j].row /\ items[i].col = items[j].col => i = j
  /\ \A row, col, p : <<row, col, p>> \in DOMAIN a =>
       \E i \in 1 .. Len(items) : IsFor(items[i], row, col)

IsDefault(d) == IsEntry(d) /\ d.row = ANY /\ d.col = ANY

\* A container of entries.
Container(cp, a, d) == IsRoomy(cp) /\ Agrees(cp.items, a, d)

\* The fields of an entry.
LEMMA EntryIs ==
  ASSUME NEW e, IsEntry(e)
  PROVE  /\ e = [row |-> e.row, col |-> e.col, set |-> e.set, val |-> e.val]
         /\ e.set \subseteq CellProps
         /\ e.val = [p \in CellProps |-> e.val[p]]
  BY DEF IsEntry

\* A new entry, for a key nothing was asked for.
LEMMA NewEntry ==
  ASSUME NEW a, NEW d, IsDefault(d), NEW row, NEW col,
         \A p : <<row, col, p>> \notin DOMAIN a,
         NEW e, e = IF row = ANY /\ col = ANY THEN d ELSE BlankEntry(row, col)
  PROVE  Faithful(e, a, d) /\ IsFor(e, row, col)
<1>1. CASE row = ANY /\ col = ANY
  BY <1>1 DEF Faithful, IsFor, IsDefault, Held
<1>2. CASE ~ (row = ANY /\ col = ANY)
  <2>1. PICK val : val = [p \in CellProps |-> IF p \in TextStyles THEN {} ELSE 0]
    OBVIOUS
  <2>2. e = [row |-> row, col |-> col, set |-> {}, val |-> val]
    BY <1>2, <2>1 DEF BlankEntry
  <2>3. e.row = row /\ e.col = col /\ e.set = {} /\ e.val = val
    BY <2>2
  <2>4. IsEntry(e)
    <3>1. val = [p \in CellProps |-> val[p]]
      BY <2>1
    <3>2. QED
      BY <2>2, <2>3, <3>1 DEF IsEntry
  <2>5. \A p \in CellProps \ TextStyles : e.val[p] = Held(a, d, row, col, p)
    <3>1. \A p \in CellProps \ TextStyles : val[p] = 0
      BY <2>1
    <3>2. \A p : Held(a, d, row, col, p) = 0
      BY <1>2 DEF Held
    <3>3. QED
      BY <2>3, <3>1, <3>2
  <2>6. \A p \in CellProps : p \notin e.set /\ <<e.row, e.col, p>> \notin DOMAIN a
                             /\ ~ (e.row = ANY /\ e.col = ANY)
    BY <1>2, <2>3
  <2>7. QED
    BY <2>3, <2>4, <2>5, <2>6 DEF Faithful, IsFor
<1>3. QED
  BY <1>1, <1>2

\* Where an entry comes from: it was in the container, or is one that is made
\* for a key.
Origin(cp, d, row, col, e) ==
  IsEntry(e) /\ ((\E i \in 1 .. Len(cp.items) : e = cp.items[i]) \/ e \in {d, BlankEntry(row, col)})

\* The look-up of an entry finds it, or makes the only one for its key.
LEMMA EntryFound ==
  ASSUME NEW cp, NEW a, NEW d, IsDefault(d), Container(cp, a, d), NEW row, NEW col,
         NEW found, found = get_cell_prop_and_create_if_not_exists(cp, row, col, d)
  PROVE  /\ Container(found, a, d)
         /\ \E i \in 1 .. Len(found.items) : EntriesFor(found, row, col) = {i}
         /\ \A i \in 1 .. Len(found.items) : Origin(cp, d, row, col, found.items[i])
<1>1. PICK E : cp \in Roomy(E)
  BY DEF Container, IsRoomy
<1>2. cp.items \in Seq(E)
  BY <1>1, RoomyParts
<1>3. PICK n \in Nat : n = Len(cp.items)
  BY <1>1, RoomyParts
<1>4. DOMAIN cp.items = 1 .. n
  BY <1>2, <1>3
<1>5. /\ \A i \in 1 .. n : Faithful(cp.items[i], a, d)
      /\ \A i, j \in 1 .. n :
           cp.items[i].row = cp.items[j].row /\ cp.items[i].col = cp.items[j].col => i = j
      /\ \A r, c, p : <<r, c, p>> \in DOMAIN a => \E i \in 1 .. n : IsFor(cp.items[i], r, c)
  BY <1>3 DEF Container, Agrees
<1>6. EntriesFor(cp, row, col) = {i \in 1 .. n : cp.items[i].row = row /\ cp.items[i].col = col}
  BY <1>4 DEF EntriesFor
<1>7. CASE EntriesFor(cp, row, col) # {}
  <2>1. found = cp
    BY <1>7 DEF get_cell_prop_and_create_if_not_exists
  <2>2. PICK i \in 1 .. n : cp.items[i].row = row /\ cp.items[i].col = col
    BY <1>6, <1>7
  <2>3. \A j \in 1 .. n : cp.items[j].row = row /\ cp.items[j].col = col => j = i
    BY <1>5, <2>2
  <2>4. EntriesFor(cp, row, col) = {i}
    BY <1>6, <2>2, <2>3
  <2>5. \A j \in 1 .. n : Origin(cp, d, row, col, cp.items[j])
    BY <1>3, <1>5 DEF Origin, Faithful
  <2>6. QED
    BY <1>3, <2>1, <2>4, <2>5
<1>8. CASE EntriesFor(cp, row, col) = {}
  <2>1. PICK e : e = IF row = ANY /\ col = ANY THEN d ELSE BlankEntry(row, col)
    OBVIOUS
  <2>2. found = vector_push(cp, e)
    BY <1>8, <2>1 DEF get_cell_prop_and_create_if_not_exists
  <2>3. \A i \in 1 .. n : ~ (cp.items[i].row = row /\ cp.items[i].col = col)
    BY <1>6, <1>8
  <2>4. \A p : <<row, col, p>> \notin DOMAIN a
    BY <1>5, <2>3 DEF IsFor
  <2>5. Faithful(e, a, d) /\ IsFor(e, row, col)
    BY <2>1, <2>4, NewEntry
  <2>6. cp \in Roomy(E \cup {e}) /\ e \in E \cup {e}
    BY <1>1, RoomyGrows
  <2>7. found \in Roomy(E \cup {e}) /\ found.items = Append(cp.items, e)
    BY <2>2, <2>6, PushIn
  <2>8. Len(found.items) = n + 1 /\ found.items[n + 1] = e
        /\ \A i \in 1 .. n : found.items[i] = cp.items[i]
    BY <1>2, <1>3, <2>7
  <2>9. \A i \in 1 .. (n + 1) : i \in 1 .. n \/ i = n + 1
    BY <1>3
  <2>10. \A i \in 1 .. (n + 1) : Faithful(found.items[i], a, d)
    BY <1>5, <2>5, <2>8, <2>9
  <2>11. ASSUME NEW i \in 1 .. (n + 1), NEW j \in 1 .. (n + 1),
                found.items[i].row = found.items[j].row, found.items[i].col = found.items[j].col
         PROVE  i = j
    <3>1. CASE i \in 1 .. n /\ j \in 1 .. n
      BY <1>5, <2>8, <2>11, <3>1
    <3>2. CASE i \in 1 .. n /\ j = n + 1
      BY <2>3, <2>5, <2>8, <2>11, <3>2 DEF IsFor
    <3>3. CASE i = n + 1 /\ j \in 1 .. n
      BY <2>3, <2>5, <2>8, <2>11, <3>3 DEF IsFor
    <3>4. QED
      BY <2>9, <3>1, <3>2, <3>3
  <2>12. ASSUME NEW r, NEW c, NEW p, <<r, c, p>> \in DOMAIN a
         PROVE  \E i \in 1 .. (n + 1) : IsFor(found.items[i], r, c)
    <3>1. PICK i \in 1 .. n : IsFor(cp.items[i], r, c)
      BY <1>5, <2>12
    <3>2. i \in 1 .. (n + 1)
      OBVIOUS
    <3>3. QED
      BY <2>8, <3>1, <3>2
  <2>13. Container(found, a, d)
    <3>1. Agrees(found.items, a, d)
      BY <2>8, <2>10, <2>11, <2>12 DEF Agrees
    <3>2. QED
      BY <2>7, <3>1 DEF Container, IsRoomy
  <2>14. DOMAIN found.items = 1 .. (n + 1)
    <3>1. found.items \in Seq(E \cup {e})
      BY <2>7, RoomyParts
    <3>2. QED
      BY <2>8, <3>1
  <2>15. EntriesFor(found, row, col) = {n + 1}
    <3>1. \A i \in 1 .. (n + 1) :
            found.items[i].row = row /\ found.items[i].col = col <=> i = n + 1
      BY <2>3, <2>5, <2>8, <2>9 DEF IsFor
    <3>2. n + 1 \in 1 .. (n + 1)
      OBVIOUS
    <3>3. QED
      BY <2>14, <3>1, <3>2 DEF EntriesFor
  <2>16. n + 1 \in 1 .. (n + 1)
    OBVIOUS
  <2>17. \A i \in 1 .. (n + 1) : Origin(cp, d, row, col, found.items[i])
    <3>1. \A i \in 1 .. (n + 1) : IsEntry(found.items[i])
      BY <2>10 DEF Faithful
    <3>2. found.items[n + 1] \in {d, BlankEntry(row, col)}
      BY <2>1, <2>8
    <3>3. \A i \in 1 .. n : found.items[i] = cp.items[i]
      BY <2>8
    <3>4. QED
      BY <1>3, <2>9, <3>1, <3>2, <3>3 DEF Origin
  <2>18. QED
    BY <2>8, <2>13, <2>15, <2>16, <2>17
<1>9. QED
  BY <1>7, <1>8

\* The entry a setting was made in.
LEMMA EntrySet ==
  ASSUME NEW e, IsEntry(e), NEW p \in CellProps, NEW value,
         NEW f, f = set_cell_property_impl(e, p, value)
  PROVE  /\ IsEntry(f) /\ f.row = e.row /\ f.col = e.col /\ f.set = e.set \cup {p}
         /\ \A q \in CellProps : q # p => f.val[q] = e.val[q]
         /\ p \notin TextStyles => f.val[p] = IF Refused(p, value) THEN e.val[p] ELSE value
         /\ p \in TextStyles => f.val[p] \in {value, e.val[p] \cup value}
<1>1. /\ e = [row |-> e.row, col |-> e.col, set |-> e.set, val |-> e.val]
      /\ e.set \subseteq CellProps
      /\ e.val = [q \in CellProps |-> e.val[q]]
  BY EntryIs
<1>2. PICK new : new = CASE p \in Measures /\ value < 0 -> e.val[p]
                         [] p \in TextStyles /\ value # {"DEFAULT"} -> e.val[p] \cup value
                         [] OTHER -> value
  OBVIOUS
<1>3. PICK val : val = [e.val EXCEPT ![p] = new]
  OBVIOUS
<1>4. PICK set : set = e.set \cup {p}
  OBVIOUS
<1>5. f = [e EXCEPT !.set = set, !.val[p] = new]
  BY <1>2, <1>4, Zenon DEF set_cell_property_impl
<1>6. f = [row |-> e.row, col |-> e.col, set |-> set, val |-> val]
  <2>1. [e EXCEPT !.set = set, !.val[p] = new] = [e EXCEPT !.set = set, !.val = val]
    BY <1>1, <1>3
  <2>2. QED
    BY <1>1, <1>5, <2>1
<1>7. f.row = e.row /\ f.col = e.col /\ f.set = set /\ f.val = val
  BY <1>6
<1>8. val = [q \in CellProps |-> val[q]] /\ val[p] = new
      /\ \A q \in CellProps : q # p => val[q] = e.val[q]
  BY <1>1, <1>3
<1>9. IsEntry(f)
  BY <1>1, <1>4, <1>6, <1>7, <1>8 DEF IsEntry
<1>10. p \notin TextStyles => new = IF Refused(p, value) THEN e.val[p] ELSE value
  BY <1>2 DEF Refused
<1>11. p \in TextStyles => new \in {value, e.val[p] \cup value}
  <2>1. p \in TextStyles => p \notin Measures
    BY DEF TextStyles, Measures
  <2>2. QED
    BY <1>2, <2>1
<1>12. QED
  BY <1>4, <1>7, <1>8, <1>9, <1>10, <1>11

\* A setting that is made as it was asked for.
LEMMA SettingIn ==
  ASSUME NEW cp, NEW a, NEW d, IsDefault(d), Container(cp, a, d), NEW row, NEW col,
         NEW p \in CellProps, NEW value, value # Nothing,
         NEW old, old = IF <<row, col, p>> \in DOMAIN a THEN a[<<row, col, p>>] ELSE Nothing,
         NEW x, x = IF Refused(p, value) THEN old ELSE value,
         NEW b, b = [k \in DOMAIN a \cup {<<row, col, p>>} |->
                       IF k = <<row, col, p>> THEN x ELSE a[k]]
  PROVE  /\ Container(set_cell_property(cp, row, col, p, value, d), b, d)
         /\ \A j \in 1 .. Len(set_cell_property(cp, row, col, p, value, d).items) :
              \E e : /\ Origin(cp, d, row, col, e)
                     /\ set_cell_property(cp, row, col, p, value, d).items[j]
                          \in {e, set_cell_property_impl(e, p, value)}
<1>1. PICK found : found = get_cell_prop_and_create_if_not_exists(cp, row, col, d)
  OBVIOUS
<1>2. /\ Container(found, a, d) /\ \E i \in 1 .. Len(found.items) : EntriesFor(found, row, col) = {i}
      /\ \A i \in 1 .. Len(found.items) : Origin(cp, d, row, col, found.items[i])
  BY <1>1, EntryFound
<1>3. PICK i \in 1 .. Len(found.items) : EntriesFor(found, row, col) = {i}
  BY <1>2
<1>4. PICK E : found \in Roomy(E)
  BY <1>2 DEF Container, IsRoomy
<1>5. PICK n \in Nat : n = Len(found.items)
  BY <1>4, RoomyParts
<1>6. i \in 1 .. n
  BY <1>3, <1>5
<1>7. Min({i}) = i
  <2>1. i \in Int /\ {i, i} = {i} /\ i <= i
    BY <1>6
  <2>2. QED
    BY <2>1, Lesser
<1>8. PICK e : e = found.items[i]
  OBVIOUS
<1>9. IsFor(e, row, col)
  <2>1. i \in EntriesFor(found, row, col)
    BY <1>3
  <2>2. QED
    BY <1>8, <2>1 DEF EntriesFor, IsFor
<1>10. /\ \A j \in 1 .. n : Faithful(found.items[j], a, d)
       /\ \A j, l \in 1 .. n :
            found.items[j].row = found.items[l].row /\ found.items[j].col = found.items[l].col
              => j = l
       /\ \A r, c, q : <<r, c, q>> \in DOMAIN a => \E j \in 1 .. n : IsFor(found.items[j], r, c)
  BY <1>2, <1>5 DEF Container, Agrees
<1>11. PICK f : f = set_cell_property_impl(e, p, value)
  OBVIOUS
<1>12. Faithful(e, a, d)
  BY <1>6, <1>8, <1>10
<1>13. /\ IsEntry(f) /\ f.row = row /\ f.col = col /\ f.set = e.set \cup {p}
       /\ \A q \in CellProps : q # p => f.val[q] = e.val[q]
       /\ p \notin TextStyles => f.val[p] = IF Refused(p, value) THEN e.val[p] ELSE value
  <2>1. IsEntry(e)
    BY <1>12 DEF Faithful
  <2>2. QED
    BY <1>9, <1>11, <2>1, EntrySet DEF IsFor
<1>14. PICK s : s = [found.items EXCEPT ![i] = f]
  OBVIOUS
<1>15. PICK w : w = set_cell_property(cp, row, col, p, value, d)
  OBVIOUS
<1>16. w = [items |-> s, cap |-> found.cap]
  <2>1. w = [found EXCEPT !.items = s]
    <3>1. w = [found EXCEPT !.items[i] = set_cell_property_impl(@, p, value)]
      BY <1>1, <1>3, <1>7, <1>15, Zenon DEF set_cell_property
    <3>2. [found EXCEPT !.items[i] = set_cell_property_impl(@, p, value)] = [found EXCEPT !.items = s]
      BY <1>8, <1>11, <1>14
    <3>3. QED
      BY <3>1, <3>2
  <2>2. QED
    BY <1>4, <2>1, RoomyParts, SetItems
<1>17. w \in Roomy(E \cup {f}) /\ w.items = s /\ Len(s) = n
  <2>1. found \in Roomy(E \cup {f}) /\ f \in E \cup {f}
    BY <1>4, RoomyGrows
  <2>2. found.items \in Seq(E \cup {f}) /\ found.cap \in Nat /\ found.cap > 0
        /\ Len(found.items) <= found.cap
    BY <2>1, RoomyParts
  <2>3. s \in Seq(E \cup {f}) /\ Len(s) = n
    BY <1>5, <1>6, <1>14, <2>1, <2>2, SetAt
  <2>4. QED
    BY <1>5, <1>16, <2>2, <2>3, MakeRoomy
<1>18. /\ s[i] = f
       /\ \A j \in 1 .. n : j # i => s[j] = found.items[j]
  <2>1. found.items \in Seq(E)
    BY <1>4, RoomyParts
  <2>2. QED
    BY <1>5, <1>6, <1>14, <2>1
<1>19. \A j \in 1 .. n : s[j].row = found.items[j].row /\ s[j].col = found.items[j].col
  BY <1>8, <1>9, <1>13, <1>18 DEF IsFor
<1>20. <<row, col, p>> \in DOMAIN b /\ b[<<row, col, p>>] = x
  OBVIOUS
<1>21. ASSUME NEW r, NEW c, NEW q, <<r, c, q>> # <<row, col, p>>
       PROVE  /\ <<r, c, q>> \in DOMAIN b <=> <<r, c, q>> \in DOMAIN a
              /\ Held(b, d, r, c, q) = Held(a, d, r, c, q)
  <2>1. PICK key : key = <<row, col, p>>
    OBVIOUS
  <2>2. b = [k \in DOMAIN a \cup {key} |-> IF k = key THEN x ELSE a[k]]
    BY <2>1
  <2>3. <<r, c, q>> # key
    BY <1>21, <2>1
  <2>4. <<r, c, q>> \in DOMAIN b <=> <<r, c, q>> \in DOMAIN a
    BY <2>2, <2>3
  <2>5. <<r, c, q>> \in DOMAIN a => b[<<r, c, q>>] = a[<<r, c, q>>]
    BY <2>2, <2>3
  <2>6. QED
    BY <2>4, <2>5 DEF Held
<1>22. Faithful(f, b, d)
  <2>1. \A q \in CellProps :
          q \in e.set <=> \/ <<row, col, q>> \in DOMAIN a
                          \/ row = ANY /\ col = ANY /\ q \in d.set
    <3>1. e.row = row /\ e.col = col
      BY <1>9 DEF IsFor
    <3>2. \A q \in CellProps :
            q \in e.set <=> \/ <<e.row, e.col, q>> \in DOMAIN a
                            \/ e.row = ANY /\ e.col = ANY /\ q \in d.set
      BY <1>12 DEF Faithful
    <3>3. QED
      BY <3>1, <3>2
  <2>2. ASSUME NEW q \in CellProps
        PROVE  q \in f.set <=> \/ <<row, col, q>> \in DOMAIN b
                               \/ row = ANY /\ col = ANY /\ q \in d.set
    <3>1. CASE q = p
      BY <1>13, <1>20, <3>1
    <3>2. CASE q # p
      <4>1. <<row, col, q>> \in DOMAIN b <=> <<row, col, q>> \in DOMAIN a
        BY <1>21, <3>2
      <4>2. q \in f.set <=> q \in e.set
        BY <1>13, <3>2
      <4>3. q \in e.set <=> \/ <<row, col, q>> \in DOMAIN a
                            \/ row = ANY /\ col = ANY /\ q \in d.set
        BY <2>1
      <4>4. QED
        BY <4>1, <4>2, <4>3
    <3>3. QED
      BY <3>1, <3>2
  <2>3. \A q \in CellProps \ TextStyles : e.val[q] = Held(a, d, row, col, q)
    BY <1>9, <1>12 DEF Faithful, IsFor
  <2>4. ASSUME NEW q \in CellProps \ TextStyles
        PROVE  f.val[q] = Held(b, d, row, col, q)
    <3>1. CASE q # p
      <4>1. Held(b, d, row, col, q) = Held(a, d, row, col, q)
        BY <1>21, <3>1
      <4>2. f.val[q] = e.val[q]
        BY <1>13, <3>1
      <4>3. QED
        BY <2>3, <4>1, <4>2
    <3>2. CASE q = p /\ Refused(p, value)
      <4>1. f.val[p] = Held(a, d, row, col, p)
        BY <1>13, <2>3, <3>2
      <4>2. Held(b, d, row, col, p) = Held(a, d, row, col, p)
        BY <1>20, <3>2 DEF Held
      <4>3. QED
        BY <3>2, <4>1, <4>2
    <3>3. CASE q = p /\ ~ Refused(p, value)
      <4>1. f.val[p] = value
        BY <1>13, <3>3
      <4>2. Held(b, d, row, col, p) = value
        BY <1>20, <3>3 DEF Held
      <4>3. QED
        BY <3>3, <4>1, <4>2
    <3>4. QED
      BY <3>1, <3>2, <3>3
  <2>5. QED
    BY <1>13, <2>2, <2>4 DEF Faithful
<1>23. ASSUME NEW j \in 1 .. n, j # i
       PROVE  Faithful(s[j], b, d)
  <2>1. PICK g : g = found.items[j]
    OBVIOUS
  <2>2. Faithful(g, a, d)
    BY <1>10, <2>1
  <2>3. ~ (g.row = row /\ g.col = col)
    BY <1>6, <1>8, <1>9, <1>10, <1>23, <2>1 DEF IsFor
  <2>4. \A q : <<g.row, g.col, q>> # <<row, col, p>>
    BY <2>3
  <2>5. \A q : /\ <<g.row, g.col, q>> \in DOMAIN b <=> <<g.row, g.col, q>> \in DOMAIN a
               /\ Held(b, d, g.row, g.col, q) = Held(a, d, g.row, g.col, q)
    BY <1>21, <2>4
  <2>6. Faithful(g, b, d)
    BY <2>2, <2>5 DEF Faithful
  <2>7. QED
    BY <1>18, <1>23, <2>1, <2>6
<1>24. \A j \in 1 .. n : Faithful(s[j], b, d)
  BY <1>18, <1>22, <1>23
<1>25. \A j, l \in 1 .. n : s[j].row = s[l].row /\ s[j].col = s[l].col => j = l
  BY <1>10, <1>19
<1>26. ASSUME NEW r, NEW c, NEW q, <<r, c, q>> \in DOMAIN b
       PROVE  \E j \in 1 .. n : IsFor(s[j], r, c)
  <2>1. CASE <<r, c, q>> = <<row, col, p>>
    BY <1>6, <1>13, <1>18, <2>1 DEF IsFor
  <2>2. CASE <<r, c, q>> # <<row, col, p>>
    <3>1. <<r, c, q>> \in DOMAIN a
      BY <1>21, <1>26, <2>2
    <3>2. PICK j \in 1 .. n : IsFor(found.items[j], r, c)
      BY <1>10, <3>1
    <3>3. IsFor(s[j], r, c)
      BY <1>19, <3>2 DEF IsFor
    <3>4. QED
      BY <3>3
  <2>3. QED
    BY <2>1, <2>2
<1>27. Agrees(s, b, d)
  BY <1>17, <1>24, <1>25, <1>26 DEF Agrees
<1>28. ASSUME NEW j \in 1 .. n
       PROVE  \E g : Origin(cp, d, row, col, g) /\ s[j] \in {g, set_cell_property_impl(g, p, value)}
  <2>1. Origin(cp, d, row, col, found.items[j])
    BY <1>2, <1>5
  <2>2. s[j] \in {found.items[j], set_cell_property_impl(found.items[j], p, value)}
    BY <1>8, <1>11, <1>18
  <2>3. QED
    BY <2>1, <2>2
<1>29. QED
  BY <1>15, <1>17, <1>27, <1>28 DEF Container, IsRoomy

\* The least number of a set.
LEMMA LeastIs ==
  ASSUME NEW S, S \subseteq Int, NEW x \in S, \A y \in S : x <= y
  PROVE  Min(S) = x
<1>1. \A z \in S : (\A y \in S : z <= y) <=> z = x
  OBVIOUS
<1>2. QED
  BY <1>1 DEF Min

\* The container cp answers for a key as was asked: a, with the defaults d.
Answers(cp, a, d, row, col, p) ==
  /\ <<row, col, p>> \in DOMAIN a => Sets(cp, <<row, col>>, p)
  /\ Sets(cp, <<row, col>>, p) => <<row, col, p>> \in DOMAIN a \/ (row = ANY /\ col = ANY)
  /\ Sets(cp, <<row, col>>, p) => EntryValue(cp, <<row, col>>, p) = Held(a, d, row, col, p)

\* An entry has the properties that were asked for, with their values.
LEMMA SetsIs ==
  ASSUME NEW cp, NEW a, NEW d, Container(cp, a, d), NEW row, NEW col,
         NEW p \in CellProps \ TextStyles
  PROVE  Answers(cp, a, d, row, col, p)
<1>1. PICK E : cp \in Roomy(E)
  BY DEF Container, IsRoomy
<1>2. PICK n \in Nat : n = Len(cp.items)
  BY <1>1, RoomyParts
<1>3. DOMAIN cp.items = 1 .. n
  <2>1. cp.items \in Seq(E)
    BY <1>1, RoomyParts
  <2>2. QED
    BY <1>2, <2>1
<1>4. /\ \A j \in 1 .. n : Faithful(cp.items[j], a, d)
      /\ \A j, l \in 1 .. n :
           cp.items[j].row = cp.items[l].row /\ cp.items[j].col = cp.items[l].col => j = l
      /\ \A r, c, q : <<r, c, q>> \in DOMAIN a => \E j \in 1 .. n : IsFor(cp.items[j], r, c)
  BY <1>2 DEF Container, Agrees
<1>5. PICK I : I = EntriesFor(cp, row, col)
  OBVIOUS
<1>6. I = {j \in 1 .. n : cp.items[j].row = row /\ cp.items[j].col = col}
  BY <1>3, <1>5 DEF EntriesFor
<1>7. \A j \in I : p \in cp.items[j].set <=> \/ <<row, col, p>> \in DOMAIN a
                                             \/ row = ANY /\ col = ANY /\ p \in d.set
  <2>1. ASSUME NEW j \in I
        PROVE  p \in cp.items[j].set <=> \/ <<row, col, p>> \in DOMAIN a
                                         \/ row = ANY /\ col = ANY /\ p \in d.set
    <3>1. j \in 1 .. n /\ cp.items[j].row = row /\ cp.items[j].col = col
      BY <1>6
    <3>2. Faithful(cp.items[j], a, d)
      BY <1>4, <3>1
    <3>3. p \in cp.items[j].set <=>
            \/ <<cp.items[j].row, cp.items[j].col, p>> \in DOMAIN a
            \/ cp.items[j].row = ANY /\ cp.items[j].col = ANY /\ p \in d.set
      BY <3>2 DEF Faithful
    <3>4. QED
      BY <3>1, <3>3
  <2>2. QED
    BY <2>1
<1>8. Sets(cp, <<row, col>>, p) <=> \E j \in I : p \in cp.items[j].set
  BY <1>5 DEF Sets
<1>9. ASSUME <<row, col, p>> \in DOMAIN a
      PROVE  Sets(cp, <<row, col>>, p)
  <2>1. PICK j \in 1 .. n : IsFor(cp.items[j], row, col)
    BY <1>4, <1>9
  <2>2. j \in I
    BY <1>6, <2>1 DEF IsFor
  <2>3. QED
    BY <1>7, <1>8, <1>9, <2>2
<1>10. ASSUME Sets(cp, <<row, col>>, p)
       PROVE  EntryValue(cp, <<row, col>>, p) = Held(a, d, row, col, p)
  <2>1. PICK j \in I : p \in cp.items[j].set
    BY <1>8, <1>10
  <2>2. j \in 1 .. n /\ cp.items[j].row = row /\ cp.items[j].col = col
    BY <1>6
  <2>3. I = {j}
    BY <1>4, <1>6, <2>2
  <2>4. Min(I) = j
    <3>1. I \subseteq Int /\ j \in I /\ \A y \in I : j <= y
      BY <2>2, <2>3
    <3>2. QED
      BY <3>1, LeastIs
  <2>5. Faithful(cp.items[j], a, d)
    BY <1>4, <2>2
  <2>6. cp.items[j].val[p] = Held(a, d, row, col, p)
    BY <2>2, <2>5 DEF Faithful
  <2>7. EntryValue(cp, <<row, col>>, p) = cp.items[Min(I)].val[p]
    BY <1>5 DEF EntryValue
  <2>8. QED
    BY <2>4, <2>6, <2>7
<1>11. ASSUME Sets(cp, <<row, col>>, p)
       PROVE  <<row, col, p>> \in DOMAIN a \/ (row = ANY /\ col = ANY)
  <2>1. PICK j \in I : p \in cp.items[j].set
    BY <1>8, <1>11
  <2>2. p \in cp.items[j].set <=> \/ <<row, col, p>> \in DOMAIN a
                                  \/ row = ANY /\ col = ANY /\ p \in d.set
    BY <1>7
  <2>3. QED
    BY <2>1, <2>2
<1>12. QED
  BY <1>9, <1>10, <1>11, Zenon DEF Answers

\* The search stops at the first key with the property.
LEMMA SearchStops ==
  ASSUME NEW cp, NEW d, NEW r, NEW c, NEW p,
         NEW k \in 1 .. 4, Sets(cp, SearchPath(r, c)[k], p),
         \A j \in 1 .. 4 : j < k => ~ Sets(cp, SearchPath(r, c)[j], p)
  PROVE  get_cell_property_hierarchically(cp, d, r, c, p) = EntryValue(cp, SearchPath(r, c)[k], p)
<1>1. PICK path : path = SearchPath(r, c)
  OBVIOUS
<1>2. DOMAIN path = 1 .. 4
  BY <1>1 DEF SearchPath
<1>3. PICK hits : hits = {j \in DOMAIN path : Sets(cp, path[j], p)}
  OBVIOUS
<1>4. hits \subseteq Int /\ k \in hits
  BY <1>1, <1>2, <1>3
<1>5. \A j \in hits : k <= j
  BY <1>1, <1>2, <1>3
<1>6. Min(hits) = k
  BY <1>4, <1>5, LeastIs
<1>7. get_cell_property_hierarchically(cp, d, r, c, p) =
        IF hits = {} THEN d.val[p] ELSE EntryValue(cp, path[Min(hits)], p)
  BY <1>1, <1>3 DEF get_cell_property_hierarchically
<1>8. QED
  BY <1>1, <1>4, <1>6, <1>7

\* The search that finds no entry ends with the default.
LEMMA SearchFails ==
  ASSUME NEW cp, NEW d, NEW r, NEW c, NEW p,
         \A j \in 1 .. 4 : ~ Sets(cp, SearchPath(r, c)[j], p)
  PROVE  get_cell_property_hierarchically(cp, d, r, c, p) = d.val[p]
<1>1. DOMAIN SearchPath(r, c) = 1 .. 4
  BY DEF SearchPath
<1>2. {j \in DOMAIN SearchPath(r, c) : Sets(cp, SearchPath(r, c)[j], p)} = {}
  BY <1>1
<1>3. QED
  BY <1>2 DEF get_cell_property_hierarchically

\* The keys of the search.
LEMMA PathIs ==
  ASSUME NEW r, NEW c
  PROVE  /\ SearchPath(r, c)[1] = <<r, c>> /\ SearchPath(r, c)[2] = <<ANY, c>>
         /\ SearchPath(r, c)[3] = <<r, ANY>> /\ SearchPath(r, c)[4] = <<ANY, ANY>>
  BY DEF SearchPath

\* How near a key is to a cell.
Near(k) == (IF k[2] = ANY THEN 0 ELSE 2) + (IF k[1] = ANY THEN 0 ELSE 1)

\* The keys that were asked for and hold for a cell.
Matches(r, c, p) == {k \in {r, ANY} \X {c, ANY} : <<k[1], k[2], p>> \in DOMAIN asked}

\* The nearest of them decides.
LEMMA NearestDecides ==
  ASSUME NEW r, NEW c, NEW p, NEW row, NEW col, <<row, col>> \in Matches(r, c, p),
         \A l \in Matches(r, c, p) : Near(<<row, col>>) >= Near(l)
  PROVE  Requested(r, c, p) = Held(asked, table.defaults, row, col, p)
<1>1. PICK hits : hits = Matches(r, c, p)
  OBVIOUS
<1>2. hits \subseteq {r, ANY} \X {c, ANY}
  BY <1>1 DEF Matches
<1>3. \A k, l \in hits : Near(k) >= Near(l) /\ Near(l) >= Near(k) => k = l
  <2>1. ASSUME NEW k \in hits, NEW l \in hits, Near(k) >= Near(l), Near(l) >= Near(k)
        PROVE  k = l
    <3>1. /\ k = <<k[1], k[2]>> /\ k[1] \in {r, ANY} /\ k[2] \in {c, ANY}
          /\ l = <<l[1], l[2]>> /\ l[1] \in {r, ANY} /\ l[2] \in {c, ANY}
      BY <1>2
    <3>2. PICK k1, k2, l1, l2 : k1 = k[1] /\ k2 = k[2] /\ l1 = l[1] /\ l2 = l[2]
      OBVIOUS
    <3>3. /\ Near(k) = (IF k2 = ANY THEN 0 ELSE 2) + (IF k1 = ANY THEN 0 ELSE 1)
          /\ Near(l) = (IF l2 = ANY THEN 0 ELSE 2) + (IF l1 = ANY THEN 0 ELSE 1)
      BY <3>2 DEF Near
    <3>4. (k1 = ANY <=> l1 = ANY) /\ (k2 = ANY <=> l2 = ANY)
      BY <2>1, <3>3
    <3>5. QED
      BY <3>1, <3>2, <3>4
  <2>2. QED
    BY <2>1
<1>4. PICK key : key = CHOOSE k \in hits : \A l \in hits : Near(k) >= Near(l)
  OBVIOUS
<1> DEFINE near(k) == (IF k[2] = ANY THEN 0 ELSE 2) + (IF k[1] = ANY THEN 0 ELSE 1)
<1>11. key = CHOOSE k \in hits : \A l \in hits : near(k) >= near(l)
  BY <1>4, Zenon DEF Near
<1>12. hits = {k \in {r, ANY} \X {c, ANY} : <<k[1], k[2], p>> \in DOMAIN asked}
  BY <1>1 DEF Matches
<1>5. key \in hits /\ \A l \in hits : Near(key) >= Near(l)
  BY <1>1, <1>4
<1>6. key = <<row, col>>
  BY <1>1, <1>3, <1>5
<1>7. <<row, col, p>> \in DOMAIN asked /\ hits # {}
  BY <1>1 DEF Matches
<1>8. Requested(r, c, p) =
        CASE hits = {} -> table.defaults.val[p]
          [] hits # {} /\ asked[<<key[1], key[2], p>>] # Nothing -> asked[<<key[1], key[2], p>>]
          [] OTHER -> IF key = <<ANY, ANY>> THEN table.defaults.val[p] ELSE 0
  <2>1. Requested(r, c, p) =
          LET all == {k \in {r, ANY} \X {c, ANY} : <<k[1], k[2], p>> \in DOMAIN asked}
              best == CHOOSE k \in all : \A l \in all : near(k) >= near(l)
          IN  CASE all = {} -> table.defaults.val[p]
                [] all # {}
                /\ asked[<<best[1], best[2], p>>] # Nothing -> asked[<<best[1], best[2], p>>]
                [] OTHER -> IF best= <<ANY, ANY>> THEN table.defaults.val[p] ELSE 0
    BY SMTT(30) DEF Requested
  <2>2. Requested(r, c, p) =
          LET best == CHOOSE k \in hits : \A l \in hits : near(k) >= near(l)
          IN  CASE hits = {} -> table.defaults.val[p]
                [] hits # {}
                /\ asked[<<best[1], best[2], p>>] # Nothing -> asked[<<best[1], best[2], p>>]
                [] OTHER -> IF best= <<ANY, ANY>> THEN table.defaults.val[p] ELSE 0
    BY <2>1, <1>12
  <2>3. QED
    BY <2>2, <1>11
<1>9. /\ key[1] = row /\ key[2] = col /\ (key = <<ANY, ANY>> <=> row = ANY /\ col = ANY)
  BY SMTT(30), <1>6
<1>10. QED
  BY <1>7, <1>8, <1>9 DEF Held

\* Where nothing was asked for, the default holds.
LEMMA NobodyAsked ==
  ASSUME NEW r, NEW c, NEW p, Matches(r, c, p) = {}
  PROVE  Requested(r, c, p) = table.defaults.val[p]
  BY DEF Requested, Matches

\* The property looked up for a cell is the one asked for.
LEMMA LookUp ==
  ASSUME Container(table.cell_properties, asked, table.defaults), NEW r, NEW c,
         NEW p \in CellProps \ TextStyles
  PROVE  Prop(table, r, c, p) = Requested(r, c, p)
<1> DEFINE cp == table.cell_properties
           d  == table.defaults
           A(row, col) == <<row, col, p>> \in DOMAIN asked
           M  == Matches(r, c, p)
<1>1. \A row, col :
        /\ A(row, col) => Sets(cp, <<row, col>>, p)
        /\ Sets(cp, <<row, col>>, p) => A(row, col) \/ (row = ANY /\ col = ANY)
        /\ Sets(cp, <<row, col>>, p) =>
             EntryValue(cp, <<row, col>>, p) = Held(asked, d, row, col, p)
  <2>1. ASSUME NEW row, NEW col
        PROVE  /\ A(row, col) => Sets(cp, <<row, col>>, p)
               /\ Sets(cp, <<row, col>>, p) => A(row, col) \/ (row = ANY /\ col = ANY)
               /\ Sets(cp, <<row, col>>, p) =>
                    EntryValue(cp, <<row, col>>, p) = Held(asked, d, row, col, p)
    <3>1. Container(cp, asked, d)
      OBVIOUS
    <3>2. Answers(cp, asked, d, row, col, p)
      BY <3>1, SetsIs
    <3>3. QED
      BY <3>2, Zenon DEF Answers
  <2>2. QED
    BY <2>1, Zenon
<1>14. /\ Sets(cp, SearchPath(r, c)[1], p) <=> Sets(cp, <<r, c>>, p)
       /\ Sets(cp, SearchPath(r, c)[2], p) <=> Sets(cp, <<ANY, c>>, p)
       /\ Sets(cp, SearchPath(r, c)[3], p) <=> Sets(cp, <<r, ANY>>, p)
       /\ Sets(cp, SearchPath(r, c)[4], p) <=> Sets(cp, <<ANY, ANY>>, p)
  <2>1. /\ SearchPath(r, c)[1] = <<r, c>> /\ SearchPath(r, c)[2] = <<ANY, c>>
        /\ SearchPath(r, c)[3] = <<r, ANY>> /\ SearchPath(r, c)[4] = <<ANY, ANY>>
    BY PathIs
  <2>2. QED
    BY <2>1, Zenon
<1>15. /\ A(r, c) => Sets(cp, <<r, c>>, p)
       /\ Sets(cp, <<r, c>>, p) => A(r, c) \/ (r = ANY /\ c = ANY)
       /\ A(ANY, c) => Sets(cp, <<ANY, c>>, p)
       /\ Sets(cp, <<ANY, c>>, p) => A(ANY, c) \/ c = ANY
       /\ A(r, ANY) => Sets(cp, <<r, ANY>>, p)
       /\ Sets(cp, <<r, ANY>>, p) => A(r, ANY) \/ r = ANY
       /\ A(ANY, ANY) => Sets(cp, <<ANY, ANY>>, p)
  BY <1>1, Zenon
<1>2. \A row \in {r, ANY}, col \in {c, ANY} : <<row, col>> \in M <=> A(row, col)
  BY DEF Matches
<1>3. \A l \in M : l \in {<<r, c>>, <<ANY, c>>, <<r, ANY>>, <<ANY, ANY>>}
  BY DEF Matches
<1>4. Prop(table, r, c, p) = get_cell_property_hierarchically(cp, d, r, c, p)
  BY DEF Prop
<1>5. /\ r # ANY /\ c # ANY => Near(<<r, c>>) = 3
      /\ r # ANY /\ c = ANY => Near(<<r, c>>) = 1
      /\ r # ANY => Near(<<r, ANY>>) = 1
      /\ c # ANY => Near(<<ANY, c>>) = 2
      /\ Near(<<ANY, ANY>>) = 0
  BY DEF Near
<1>6. \A k : Near(k) \in {0, 1, 2, 3}
  BY DEF Near
<1>7. \A j \in 1 .. 4 : j \in {1, 2, 3, 4}
  OBVIOUS
<1> HIDE DEF M
<1>8. CASE A(r, c)
  <2>1. Sets(cp, SearchPath(r, c)[1], p)
    BY <1>14, <1>15, <1>8
  <2>2. Prop(table, r, c, p) = EntryValue(cp, <<r, c>>, p)
    BY <1>4, <2>1, SearchStops, PathIs
  <2>3. <<r, c>> \in M /\ \A l \in M : Near(<<r, c>>) >= Near(l)
    BY <1>2, <1>3, <1>5, <1>6, <1>8
  <2>4. Requested(r, c, p) = Held(asked, d, r, c, p)
    BY <2>3, NearestDecides DEF M
  <2>5. QED
    BY <1>1, <1>8, <2>2, <2>4
<1>9. CASE ~ A(r, c) /\ A(ANY, c)
  <2>1. r # ANY
    BY <1>9
  <2>2. Sets(cp, SearchPath(r, c)[2], p) /\ ~ Sets(cp, SearchPath(r, c)[1], p)
    BY <1>14, <1>15, <1>9, <2>1
  <2>3. Prop(table, r, c, p) = EntryValue(cp, <<ANY, c>>, p)
    BY <1>4, <1>7, <2>2, SearchStops, PathIs
  <2>4. <<ANY, c>> \in M /\ \A l \in M : Near(<<ANY, c>>) >= Near(l)
    BY <1>2, <1>3, <1>5, <1>6, <1>9, <2>1
  <2>5. Requested(r, c, p) = Held(asked, d, ANY, c, p)
    BY <2>4, NearestDecides DEF M
  <2>6. QED
    BY <1>1, <1>9, <2>3, <2>5
<1>10. CASE ~ A(r, c) /\ ~ A(ANY, c) /\ A(r, ANY)
  <2>1. c # ANY
    BY <1>10
  <2>2. /\ Sets(cp, SearchPath(r, c)[3], p) /\ ~ Sets(cp, SearchPath(r, c)[1], p)
        /\ ~ Sets(cp, SearchPath(r, c)[2], p)
    BY <1>14, <1>15, <1>10, <2>1
  <2>3. Prop(table, r, c, p) = EntryValue(cp, <<r, ANY>>, p)
    BY <1>4, <1>7, <2>2, SearchStops, PathIs
  <2>4. <<r, ANY>> \in M /\ \A l \in M : Near(<<r, ANY>>) >= Near(l)
    BY <1>2, <1>3, <1>5, <1>6, <1>10, <2>1
  <2>5. Requested(r, c, p) = Held(asked, d, r, ANY, p)
    BY <2>4, NearestDecides DEF M
  <2>6. QED
    BY <1>1, <1>10, <2>3, <2>5
<1>11. CASE ~ A(r, c) /\ ~ A(ANY, c) /\ ~ A(r, ANY) /\ A(ANY, ANY)
  <2>1. c # ANY /\ r # ANY
    BY <1>11
  <2>2. /\ Sets(cp, SearchPath(r, c)[4], p) /\ ~ Sets(cp, SearchPath(r, c)[1], p)
        /\ ~ Sets(cp, SearchPath(r, c)[2], p) /\ ~ Sets(cp, SearchPath(r, c)[3], p)
    BY <1>14, <1>15, <1>11, <2>1
  <2>3. Prop(table, r, c, p) = EntryValue(cp, <<ANY, ANY>>, p)
    BY <1>4, <1>7, <2>2, SearchStops, PathIs
  <2>4. <<ANY, ANY>> \in M /\ \A l \in M : Near(<<ANY, ANY>>) >= Near(l)
    BY <1>2, <1>3, <1>5, <1>6, <1>11, <2>1
  <2>5. Requested(r, c, p) = Held(asked, d, ANY, ANY, p)
    BY <2>4, NearestDecides DEF M
  <2>6. QED
    BY <1>1, <1>11, <2>3, <2>5
<1>12. CASE ~ A(r, c) /\ ~ A(ANY, c) /\ ~ A(r, ANY) /\ ~ A(ANY, ANY)
  <2>1. M = {}
    BY <1>2, <1>3, <1>12
  <2>2. Requested(r, c, p) = d.val[p]
    BY <2>1, NobodyAsked DEF M
  <2>3. Held(asked, d, ANY, ANY, p) = d.val[p]
    BY <1>12 DEF Held
  <2>4. CASE \A j \in 1 .. 4 : ~ Sets(cp, SearchPath(r, c)[j], p)
    BY <1>4, <2>2, <2>4, SearchFails
  <2>5. CASE \E j \in 1 .. 4 : Sets(cp, SearchPath(r, c)[j], p)
    <3>1. PICK k \in 1 .. 4 : /\ Sets(cp, SearchPath(r, c)[k], p)
                              /\ \A j \in 1 .. 4 : j < k => ~ Sets(cp, SearchPath(r, c)[j], p)
      <4> DEFINE T == {j \in 1 .. 4 : Sets(cp, SearchPath(r, c)[j], p)}
      <4>1. T \in SUBSET Nat /\ T # {}
        BY <2>5
      <4>2. PICK k \in T : \A j \in T : k <= j
        BY <4>1, Least
      <4>3. k \in 1 .. 4 /\ Sets(cp, SearchPath(r, c)[k], p)
        OBVIOUS
      <4>4. \A j \in 1 .. 4 : j < k => ~ Sets(cp, SearchPath(r, c)[j], p)
        BY <4>2, <4>3
      <4>5. QED
        BY <4>3, <4>4
    <3>2. SearchPath(r, c)[k] = <<ANY, ANY>>
      <4>1. k \in {1, 2, 3, 4}
        BY <1>7
      <4>2. QED
        BY <1>12, <1>14, <1>15, <3>1, <4>1, PathIs
    <3>3. Prop(table, r, c, p) = EntryValue(cp, SearchPath(r, c)[k], p)
      BY <1>4, <3>1, SearchStops
    <3>4. EntryValue(cp, <<ANY, ANY>>, p) = Held(asked, d, ANY, ANY, p)
      BY <1>1, <3>1, <3>2
    <3>5. QED
      BY <2>2, <2>3, <3>2, <3>3, <3>4
  <2>6. QED
    BY <2>4, <2>5
<1>13. QED
  BY <1>8, <1>9, <1>10, <1>11, <1>12
-----------------------------------------------------------------------------
(* The invariant.                                                          *)

\* What cells there are: only after the cursor was set or cells were erased
\* may some hold Junk.
KindOf(m) == IF m THEN AnyCell ELSE Cells

\* A sound table t, when m says that the cursor was moved, a is what was
\* asked for and n the number of calls.
Sound(t, m, a, n) ==
  /\ m \in BOOLEAN /\ n \in Nat /\ n <= MaxCalls
  /\ t.cur_row \in Nat /\ t.cur_row + (MaxCalls - n) + 1 < SIZE_MODULUS
  /\ t \in Tables(t, KindOf(m), ~ m, t.cur_row)
  /\ IsDefault(t.defaults) /\ Container(t.cell_properties, a, t.defaults)
  /\ Small(t)

\* The table is sound.
FortInv == Sound(table, moved, asked, calls)

\* The cells and the cursor of a sound table allow every operation.
LEMMA KindRegime ==
  ASSUME NEW m \in BOOLEAN
  PROVE  Regime(KindOf(m), ~ m)
<1>1. CASE m
  BY <1>1, CellsHold DEF Regime, KindOf
<1>2. CASE ~ m
  BY <1>2, CellsHold DEF Regime, KindOf
<1>3. QED
  BY <1>1, <1>2

\* Fewer demands on the cells and the cursor.
LEMMA KindGrows ==
  ASSUME NEW t, NEW r, NEW m \in BOOLEAN, NEW n \in BOOLEAN, m => n,
         NEW u \in Tables(t, KindOf(m), ~ m, r)
  PROVE  u \in Tables(t, KindOf(n), ~ n, r)
<1>1. KindOf(m) \subseteq KindOf(n)
  BY DEF KindOf, AnyCell
<1>2. Roomy(Roomy(KindOf(m))) \subseteq Roomy(Roomy(KindOf(n)))
  BY <1>1, RoomyGrows
<1>3. Shape(t, KindOf(m), r) \subseteq Shape(t, KindOf(n), r)
  BY <1>2 DEF Shape
<1>4. QED
  BY <1>3 DEF Tables

\* A call that returns no text and leaves all but the rows, the separators and
\* the cursor of the table alone.
Keeps ==
  /\ printed' = Nothing /\ status' \in {status, "undefined", "hung", "crashed"}
  /\ table'.cell_properties = table.cell_properties /\ table'.border_style = table.border_style
  /\ table'.tprops = table.tprops /\ table'.defaults = table.defaults
  /\ table'.conv_buffer = table.conv_buffer

\* A call after which the table is w, or as it was.
LEMMA Called ==
  ASSUME FortInv, Call, NEW w, NEW cells, Becomes(w, cells),
         moved' \in BOOLEAN, moved => moved', AnyJunk(table, cells) => asked' = asked,
         w.cur_row \in Nat, w.cur_row + (MaxCalls - calls) < SIZE_MODULUS,
         w \in Tables(w, KindOf(moved'), ~ moved', w.cur_row),
         IsDefault(w.defaults), Container(w.cell_properties, asked', w.defaults)
  PROVE  /\ FortInv' /\ (table' = w \/ table' = table)
         /\ printed' = Nothing /\ status' \in {status, "undefined"}
<1>1. moved \in BOOLEAN /\ calls \in Nat /\ calls < MaxCalls /\ calls' = calls + 1
  BY DEF FortInv, Sound, Call
<1>2. MaxCalls \in Nat /\ SIZE_MODULUS \in Nat
  BY BoundsAssumption, ModulusAssumption
<1>3. calls' \in Nat /\ calls' <= MaxCalls /\ (MaxCalls - calls') + 1 = MaxCalls - calls
  BY <1>1, <1>2
<1>4. ASSUME AnyJunk(table, cells)
      PROVE  FortInv'
  <2>1. table' = table /\ asked' = asked
    BY <1>4 DEF Becomes
  <2>2. table.cur_row \in Nat /\ table.cur_row + (MaxCalls - calls') + 1 < SIZE_MODULUS
    BY <1>1, <1>2 DEF FortInv, Sound
  <2>3. table \in Tables(table, KindOf(moved'), ~ moved', table.cur_row)
    BY <1>1, KindGrows DEF FortInv, Sound
  <2>4. QED
    BY <1>3, <2>1, <2>2, <2>3 DEF FortInv, Sound
<1>5. ASSUME ~ AnyJunk(table, cells)
      PROVE  FortInv'
  <2>1. table' = w /\ Small(w)
    BY <1>5 DEF Becomes
  <2>2. w.cur_row + (MaxCalls - calls') + 1 < SIZE_MODULUS
    BY <1>2, <1>3
  <2>3. QED
    BY <1>3, <2>1, <2>2 DEF FortInv, Sound
<1>6. (table' = w \/ table' = table) /\ printed' = Nothing /\ status' \in {status, "undefined"}
  <2>1. CASE AnyJunk(table, cells)
    BY <2>1 DEF Becomes
  <2>2. CASE ~ AnyJunk(table, cells)
    BY <2>2 DEF Becomes
  <2>3. QED
    BY <2>1, <2>2
<1>7. QED
  BY <1>4, <1>5, <1>6

\* A call that changes rows, separators or the cursor alone.
LEMMA RowsCalled ==
  ASSUME FortInv, Call, NEW w, NEW cells, Becomes(w, cells),
         moved' \in BOOLEAN, moved => moved', asked' = asked,
         NEW q \in Nat, q + (MaxCalls - calls) < SIZE_MODULUS,
         w \in Tables(table, KindOf(moved'), ~ moved', q)
  PROVE  FortInv' /\ Keeps
<1>1. w \in Shape(table, KindOf(moved'), q)
  BY DEF Tables
<1>2. w.cur_row = q /\ w.cell_properties = table.cell_properties /\ w.defaults = table.defaults
  BY <1>1, ShapeParts
<1>3. w \in Tables(w, KindOf(moved'), ~ moved', w.cur_row)
  BY OwnCompany
<1>4. IsDefault(w.defaults) /\ Container(w.cell_properties, asked', w.defaults)
  BY <1>2 DEF FortInv, Sound
<1>5. /\ FortInv' /\ (table' = w \/ table' = table)
      /\ printed' = Nothing /\ status' \in {status, "undefined"}
  BY <1>2, <1>3, <1>4, Called
<1>6. w.border_style = table.border_style /\ w.tprops = table.tprops
      /\ w.conv_buffer = table.conv_buffer
  BY <1>1 DEF Shape
<1>7. QED
  BY <1>2, <1>5, <1>6 DEF Keeps

\* The cursor is not far down.
LEMMA CursorBound ==
  ASSUME FortInv, Call
  PROVE  /\ table.cur_row \in Nat /\ table.cur_row + 1 \in Nat
         /\ table.cur_row + (MaxCalls - calls) < SIZE_MODULUS
         /\ (table.cur_row + 1) + (MaxCalls - calls) < SIZE_MODULUS
<1>1. PICK r \in Nat : r = table.cur_row
  BY DEF FortInv, Sound
<1>2. calls \in Nat /\ MaxCalls \in Nat /\ SIZE_MODULUS \in Nat
      /\ r + (MaxCalls - calls) + 1 < SIZE_MODULUS
  BY <1>1, BoundsAssumption, ModulusAssumption DEF FortInv, Sound
<1>3. QED
  BY <1>1, <1>2

\* The table the calls start from, in the regime of this state.
LEMMA TableIn ==
  ASSUME FortInv
  PROVE  /\ moved \in BOOLEAN /\ table.cur_row \in Nat
         /\ table \in Tables(table, KindOf(moved), ~ moved, table.cur_row)
         /\ table \in Shape(table, KindOf(moved), table.cur_row)
         /\ Regime(KindOf(moved), ~ moved)
  BY KindRegime DEF FortInv, Sound, Tables

\* Another field, which says nothing of rows and cursor.
LEMMA OtherFields ==
  ASSUME NEW u, NEW S, NEW in, NEW r, u \in Tables(u, S, in, r), NEW x,
         NEW w, \/ w = [u EXCEPT !.cell_properties = x]
                \/ w = [u EXCEPT !.tprops = x]
                \/ w = [u EXCEPT !.border_style = x]
                \/ w = [u EXCEPT !.conv_buffer = x]
  PROVE  /\ w \in Tables(w, S, in, r) /\ w.cur_row = u.cur_row /\ w.rows = u.rows
         /\ w.defaults = u.defaults
         /\ w.cell_properties = u.cell_properties \/ w = [u EXCEPT !.cell_properties = x]
<1>1. u \in Shape(u, S, r) /\ (in => CursorIn(u))
  BY DEF Tables
<1>2. u = [rows |-> u.rows, separators |-> u.separators, cell_properties |-> u.cell_properties,
           border_style |-> u.border_style, tprops |-> u.tprops, defaults |-> u.defaults,
           conv_buffer |-> u.conv_buffer, cur_row |-> u.cur_row, cur_col |-> u.cur_col]
  BY <1>1 DEF Shape
<1>3. /\ u.rows \in Roomy(Roomy(S)) /\ u.separators \in Roomy(BOOLEAN)
      /\ u.cur_row = r /\ u.cur_col \in Nat
  BY <1>1, ShapeParts
<1>4. /\ w = [rows |-> w.rows, separators |-> w.separators, cell_properties |-> w.cell_properties,
              border_style |-> w.border_style, tprops |-> w.tprops, defaults |-> w.defaults,
              conv_buffer |-> w.conv_buffer, cur_row |-> w.cur_row, cur_col |-> w.cur_col]
      /\ w.rows = u.rows /\ w.separators = u.separators /\ w.defaults = u.defaults
      /\ w.cur_row = u.cur_row /\ w.cur_col = u.cur_col
      /\ w.cell_properties = u.cell_properties \/ w = [u EXCEPT !.cell_properties = x]
  BY <1>2
<1>5. w \in Shape(w, S, r)
  BY <1>3, <1>4 DEF Shape
<1>6. in => CursorIn(w)
  BY <1>1, <1>4 DEF CursorIn, Rows, RowAt
<1>7. QED
  BY <1>4, <1>5, <1>6 DEF Tables

\* A table just created has an empty row to write to.
LEMMA FreshIn ==
  ASSUME NEW t \in FreshTables \cup UsedTables
  PROVE  /\ t \in Tables(t, Cells, TRUE, 0) /\ IsDefault(t.defaults)
         /\ Container(t.cell_properties, << >>, t.defaults)
<1>1. t = create_table(t.border_style, t.tprops, t.defaults) /\ IsDefault(t.defaults)
  BY TablesAssumption DEF IsDefault
<1>2. PICK new : new = create_vector(DEFAULT_VECTOR_CAPACITY)
  OBVIOUS
<1>3. t = [rows |-> new, separators |-> new, cell_properties |-> new,
           border_style |-> t.border_style, tprops |-> t.tprops, defaults |-> t.defaults,
           conv_buffer |-> NULL, cur_row |-> 0, cur_col |-> 0]
  BY <1>1, <1>2 DEF create_table, create_cell_prop_container
<1>4. /\ t.rows = new /\ t.separators = new /\ t.cell_properties = new
      /\ t.cur_row = 0 /\ t.cur_col = 0 /\ t.conv_buffer = NULL
  BY <1>3
<1>5. \A S : new \in Roomy(S) /\ new.items = << >>
  BY <1>2, CreateIn
<1>6. t \in Shape(t, Cells, 0)
  BY <1>3, <1>4, <1>5 DEF Shape
<1>7. t \in Tables(t, Cells, TRUE, 0)
  BY <1>4, <1>6, ColumnZero
<1>8. Agrees(<< >>, << >>, t.defaults)
  <2>1. Len(<< >>) = 0 /\ DOMAIN << >> = {}
    OBVIOUS
  <2>2. \A i \in 1 .. Len(<< >>) : FALSE
    BY <2>1
  <2>3. \A k : k \notin DOMAIN << >>
    BY <2>1
  <2>4. QED
    BY <2>2, <2>3 DEF Agrees
<1>9. Container(t.cell_properties, << >>, t.defaults)
  BY <1>4, <1>5, <1>8 DEF Container, IsRoomy
<1>10. QED
  BY <1>1, <1>7, <1>9

\* The first rows are written below each other.
LEMMA BegunIn ==
  ASSUME NEW t \in UsedTables
  PROVE  Begun(t) \in Tables(t, Cells, TRUE, Len(FirstRows) - 1)
<1>1. t \in Tables(t, Cells, TRUE, 0)
  BY FreshIn
<1>2. FirstRows \in Seq(Seq(Words)) /\ FirstRows # << >>
  BY TextsAssumption
<1>3. PICK n \in Nat : n = Len(FirstRows)
  BY <1>2
<1>4. n > 0
  BY <1>2, <1>3
<1>5. Regime(Cells, TRUE)
  BY CellsHold DEF Regime
<1>6. PICK u : u = ft_table_write(t, FirstRows)
  OBVIOUS
<1>7. u \in Tables(t, Cells, TRUE, 0 + (Len(FirstRows) - 1))
  <2>1. JunkAt(t) = {}
    BY <1>1, NoJunk DEF Tables
  <2>2. (Filled(t, Head(FirstRows)) \cup FilledBelow(t, FirstRows)) \cap JunkAt(t) = {}
    BY <2>1
  <2>3. QED
    BY <1>1, <1>2, <1>5, <1>6, <2>2, TableWriteIn
<1>8. n - 1 \in Nat /\ 0 + (Len(FirstRows) - 1) = n - 1
  BY <1>3, <1>4
<1>9. u \in Tables(t, Cells, TRUE, n - 1)
  BY <1>7, <1>8
<1>10. ft_add_separator(u) \in Tables(t, Cells, TRUE, n - 1)
  BY <1>8, <1>9, AddSeparatorIn
<1>11. QED
  BY <1>3, <1>6, <1>10 DEF Begun

\* The tables to start with are sound.
LEMMA InitFort == Init => FortInv
<1> SUFFICES ASSUME Init
             PROVE  FortInv
  OBVIOUS
<1>1. PICK n \in Nat : n = Len(FirstRows)
  BY TextsAssumption
<1>2. n > 0
  BY <1>1, TextsAssumption
<1>3. MaxCalls \in Nat /\ SIZE_MODULUS \in Nat /\ n + MaxCalls < SIZE_MODULUS
  BY <1>1, BoundsAssumption, ModulusAssumption, SizesAssumption
<1>4. moved = FALSE /\ asked = << >> /\ calls = 0 /\ Small(table)
  BY DEF Init
<1>5. KindOf(moved) = Cells /\ ~ moved = TRUE
  BY <1>4 DEF KindOf
<1>6. PICK t \in FreshTables \cup UsedTables :
        table = t \/ (t \in UsedTables /\ table = Begun(t))
  BY DEF Init
<1>7. /\ t \in Tables(t, Cells, TRUE, 0) /\ IsDefault(t.defaults)
      /\ Container(t.cell_properties, << >>, t.defaults)
  BY FreshIn
<1>8. PICK r \in Nat : table \in Tables(t, Cells, TRUE, r) /\ r + MaxCalls + 1 < SIZE_MODULUS
  <2>1. CASE table = t
    <3>1. 0 + MaxCalls + 1 < SIZE_MODULUS
      BY <1>2, <1>3
    <3>2. QED
      BY <1>7, <2>1, <3>1
  <2>2. CASE t \in UsedTables /\ table = Begun(t)
    <3>1. Begun(t) \in Tables(t, Cells, TRUE, n - 1)
      BY <1>1, <2>2, BegunIn
    <3>2. n - 1 \in Nat /\ (n - 1) + MaxCalls + 1 < SIZE_MODULUS
      BY <1>2, <1>3
    <3>3. QED
      BY <2>2, <3>1, <3>2
  <2>3. QED
    BY <1>6, <2>1, <2>2
<1>9. table \in Shape(t, Cells, r)
  BY <1>8 DEF Tables
<1>10. table.cur_row = r /\ table.cell_properties = t.cell_properties /\ table.defaults = t.defaults
  BY <1>9, ShapeParts
<1>11. table \in Tables(table, Cells, TRUE, table.cur_row)
  BY <1>8, OwnCompany
<1>12. table.cur_row + (MaxCalls - calls) + 1 < SIZE_MODULUS
  BY <1>3, <1>4, <1>8, <1>10
<1>13. calls \in Nat /\ calls <= MaxCalls
  BY <1>3, <1>4
<1>14. moved \in BOOLEAN
  BY <1>4
<1>15. QED
  BY <1>4, <1>5, <1>7, <1>10, <1>11, <1>12, <1>13, <1>14 DEF FortInv, Sound
-----------------------------------------------------------------------------
(* What the calls do to it, one by one.                                    *)

\* A call that fails leaves the table as it was.
LEMMA FailsIn ==
  ASSUME FortInv, Call, NEW how \in {"undefined", "hung", "crashed"}, Fails(how),
         moved' \in BOOLEAN, moved => moved', asked' = asked
  PROVE  FortInv' /\ Keeps
<1>1. moved \in BOOLEAN /\ calls \in Nat /\ calls < MaxCalls /\ calls' = calls + 1 /\ table' = table
  BY DEF FortInv, Sound, Call, Fails
<1>2. MaxCalls \in Nat
  BY BoundsAssumption
<1>3. calls' \in Nat /\ calls' <= MaxCalls /\ (MaxCalls - calls') + 1 = MaxCalls - calls
  BY <1>1, <1>2
<1>4. PICK r \in Nat : r = table.cur_row
  BY DEF FortInv, Sound
<1>5. r + (MaxCalls - calls') + 1 < SIZE_MODULUS
  <2>1. r + (MaxCalls - calls) < SIZE_MODULUS
    BY <1>4, CursorBound
  <2>2. SIZE_MODULUS \in Nat
    BY ModulusAssumption
  <2>3. QED
    BY <1>1, <1>2, <1>3, <2>1, <2>2
<1>6. table \in Tables(table, KindOf(moved'), ~ moved', table.cur_row)
  BY TableIn, KindGrows
<1>7. FortInv'
  BY <1>1, <1>3, <1>4, <1>5, <1>6 DEF FortInv, Sound
<1>8. Keeps
  BY <1>1 DEF Fails, Keeps
<1>9. QED
  BY <1>7, <1>8

\* A call that looks into Junk fails.
LEMMA Refuses ==
  ASSUME NEW w, NEW cells, Becomes(w, cells), AnyJunk(table, cells)
  PROVE  Fails("undefined")
  BY DEF Becomes, Fails

\* A call that does not look into Junk stays clear of it.
LEMMA Clear ==
  ASSUME NEW cells, ~ AnyJunk(table, cells)
  PROVE  cells \cap JunkAt(table) = {}
  BY DEF AnyJunk, JunkAt

\* ft_write.
LEMMA WriteRowStep ==
  ASSUME FortInv, NEW x \in Texts, WriteRow(<<x>>)
  PROVE  FortInv' /\ Keeps
<1>1. Call /\ Becomes(ft_row_write(table, <<x>>), Filled(table, <<x>>)) /\ moved' = moved
      /\ asked' = asked
  BY DEF WriteRow
<1>2. <<x>> \in Seq(Words)
  BY TextsAssumption
<1>3. CASE AnyJunk(table, Filled(table, <<x>>))
  BY <1>1, <1>3, TableIn, Refuses, FailsIn
<1>4. CASE ~ AnyJunk(table, Filled(table, <<x>>))
  <2>1. ft_row_write(table, <<x>>) \in Tables(table, KindOf(moved), ~ moved, table.cur_row)
    BY <1>2, <1>4, TableIn, Clear, RowWriteIn
  <2>2. QED
    BY <1>1, <2>1, TableIn, CursorBound, RowsCalled
<1>5. QED
  BY <1>3, <1>4

\* ft_write_ln.
LEMMA WriteRowLnStep ==
  ASSUME FortInv, NEW x \in Texts, WriteRowLn(<<x>>)
  PROVE  FortInv' /\ Keeps
<1>1. /\ Call /\ Becomes(ft_ln(ft_row_write(table, <<x>>)), Filled(table, <<x>>))
      /\ moved' = moved /\ asked' = asked
  BY DEF WriteRowLn
<1>2. <<x>> \in Seq(Words)
  BY TextsAssumption
<1>3. CASE AnyJunk(table, Filled(table, <<x>>))
  BY <1>1, <1>3, TableIn, Refuses, FailsIn
<1>4. CASE ~ AnyJunk(table, Filled(table, <<x>>))
  <2>1. ft_row_write(table, <<x>>) \in Tables(table, KindOf(moved), ~ moved, table.cur_row)
    BY <1>2, <1>4, TableIn, Clear, RowWriteIn
  <2>2. ft_ln(ft_row_write(table, <<x>>))
          \in Tables(table, KindOf(moved), ~ moved, table.cur_row + 1)
    BY <2>1, TableIn, LnIn
  <2>3. QED
    BY <1>1, <2>2, TableIn, CursorBound, RowsCalled
<1>5. QED
  BY <1>3, <1>4

\* ft_table_write, of two rows.
LEMMA WriteTableStep ==
  ASSUME FortInv, NEW x \in Texts, NEW y \in Texts, WriteTable(<< <<x, y>>, <<y>> >>)
  PROVE  FortInv' /\ Keeps
<1>1. PICK texts : texts = << <<x, y>>, <<y>> >>
  OBVIOUS
<1>2. PICK cells : cells = Filled(table, Head(texts)) \cup FilledBelow(table, texts)
  OBVIOUS
<1>3. Call /\ Becomes(ft_table_write(table, texts), cells) /\ moved' = moved /\ asked' = asked
  BY <1>1, <1>2 DEF WriteTable
<1>4. <<x, y>> \in Seq(Words) /\ <<y>> \in Seq(Words)
  BY TextsAssumption
<1>5. texts \in Seq(Seq(Words)) /\ texts # << >> /\ Len(texts) - 1 = 1
  BY <1>1, <1>4
<1>6. CASE AnyJunk(table, cells)
  BY <1>3, <1>6, TableIn, Refuses, FailsIn
<1>7. CASE ~ AnyJunk(table, cells)
  <2>1. (Filled(table, Head(texts)) \cup FilledBelow(table, texts)) \cap JunkAt(table) = {}
    BY <1>2, <1>7, Clear
  <2>2. ft_table_write(table, texts)
          \in Tables(table, KindOf(moved), ~ moved, table.cur_row + (Len(texts) - 1))
    BY <1>5, <2>1, TableIn, TableWriteIn
  <2>3. ft_table_write(table, texts) \in Tables(table, KindOf(moved), ~ moved, table.cur_row + 1)
    BY <1>5, <2>2
  <2>4. QED
    BY <1>3, <2>3, TableIn, CursorBound, RowsCalled
<1>8. QED
  BY <1>6, <1>7

\* ft_ln.
LEMMA LnStep ==
  ASSUME FortInv, Ln
  PROVE  FortInv' /\ Keeps
<1>1. Call /\ Becomes(ft_ln(table), {}) /\ moved' = moved /\ asked' = asked
  BY DEF Ln
<1>2. ft_ln(table) \in Tables(table, KindOf(moved), ~ moved, table.cur_row + 1)
  BY TableIn, LnIn
<1>3. QED
  BY <1>1, <1>2, TableIn, CursorBound, RowsCalled

\* A call that leaves the table alone.
LEMMA StaysIn ==
  ASSUME FortInv, Call, Becomes(table, {}), moved' \in BOOLEAN, moved => moved', asked' = asked
  PROVE  FortInv' /\ Keeps
<1>1. table \in Tables(table, KindOf(moved'), ~ moved', table.cur_row)
  BY TableIn, KindGrows
<1>2. QED
  BY <1>1, TableIn, CursorBound, RowsCalled

\* ft_printf.
LEMMA PrintfStep ==
  ASSUME FortInv, NEW f \in Formats, Printf(f)
  PROVE  FortInv' /\ Keeps
<1>1. Call /\ moved' = moved /\ asked' = asked
  BY DEF Printf
<1>2. CASE ~ RowCanBeMade(f)
  <2>1. Becomes(table, {})
    BY <1>2 DEF Printf
  <2>2. QED
    BY <1>1, <2>1, TableIn, StaysIn
<1>3. CASE RowCanBeMade(f)
  <2>1. Becomes(ft_row_printf_impl(table, f), Displaced(table, f))
    BY <1>3 DEF Printf
  <2>2. ft_row_printf_impl(table, f) \in Tables(table, KindOf(moved), ~ moved, table.cur_row)
    BY TableIn, PrintfIn
  <2>3. QED
    BY <1>1, <2>1, <2>2, TableIn, CursorBound, RowsCalled
<1>4. QED
  BY <1>2, <1>3

\* ft_printf_ln.
LEMMA PrintfLnStep ==
  ASSUME FortInv, NEW f \in Formats, PrintfLn(f)
  PROVE  FortInv' /\ Keeps
<1>1. Call /\ moved' = moved /\ asked' = asked
  BY DEF PrintfLn
<1>2. CASE ~ RowCanBeMade(f)
  <2>1. Becomes(table, {})
    BY <1>2 DEF PrintfLn
  <2>2. QED
    BY <1>1, <2>1, TableIn, StaysIn
<1>3. CASE RowCanBeMade(f)
  <2>1. Becomes(ft_ln(ft_row_printf_impl(table, f)), Displaced(table, f))
    BY <1>3 DEF PrintfLn
  <2>2. ft_row_printf_impl(table, f) \in Tables(table, KindOf(moved), ~ moved, table.cur_row)
    BY TableIn, PrintfIn
  <2>3. ft_ln(ft_row_printf_impl(table, f)) \in Tables(table, KindOf(moved), ~ moved, table.cur_row + 1)
    BY <2>2, TableIn, LnIn
  <2>4. QED
    BY <1>1, <2>1, <2>3, TableIn, CursorBound, RowsCalled
<1>4. QED
  BY <1>2, <1>3

\* ft_set_cur_cell, after which the cursor may be anywhere.
LEMMA SetCurCellStep ==
  ASSUME FortInv, NEW p \in Positions, SetCurCell(p[1], p[2])
  PROVE  FortInv' /\ Keeps
<1>1. PICK w : w = [table EXCEPT !.cur_row = p[1], !.cur_col = p[2]]
  OBVIOUS
<1>2. Call /\ Becomes(w, {}) /\ moved' = TRUE /\ asked' = asked
  BY <1>1 DEF SetCurCell
<1>3. PICK row \in Nat, col \in Nat : row = p[1] /\ col = p[2]
  BY ArgumentsAssumption
<1>4. row + (MaxCalls - calls) < SIZE_MODULUS
  <2>1. row + MaxCalls + 1 < SIZE_MODULUS
    BY <1>3, SizesAssumption
  <2>2. calls \in Nat /\ MaxCalls \in Nat /\ SIZE_MODULUS \in Nat
    BY BoundsAssumption, ModulusAssumption DEF FortInv, Sound
  <2>3. QED
    BY <2>1, <2>2
<1>5. table \in Tables(table, KindOf(moved'), ~ moved', table.cur_row)
  BY <1>2, TableIn, KindGrows
<1>6. table \in Shape(table, KindOf(moved'), table.cur_row)
  BY <1>5 DEF Tables
<1>7. w \in Shape(w, KindOf(moved'), row) /\ w.cur_row = row
      /\ w.cell_properties = table.cell_properties /\ w.defaults = table.defaults
  BY <1>1, <1>3, <1>6 DEF Shape
<1>8. w \in Tables(w, KindOf(moved'), ~ moved', w.cur_row)
  BY <1>2, <1>7 DEF Tables
<1>9. IsDefault(w.defaults) /\ Container(w.cell_properties, asked', w.defaults)
  BY <1>2, <1>7 DEF FortInv, Sound
<1>10. /\ FortInv' /\ (table' = w \/ table' = table)
       /\ printed' = Nothing /\ status' \in {status, "undefined"}
  BY <1>2, <1>4, <1>7, <1>8, <1>9, Called
<1>11. w.border_style = table.border_style /\ w.tprops = table.tprops
       /\ w.conv_buffer = table.conv_buffer
  BY <1>1, <1>6 DEF Shape
<1>12. QED
  BY <1>7, <1>10, <1>11 DEF Keeps

\* ft_add_separator.
LEMMA AddSeparatorStep ==
  ASSUME FortInv, AddSeparator
  PROVE  FortInv' /\ Keeps
<1>1. Call /\ Becomes(ft_add_separator(table), {}) /\ moved' = moved /\ asked' = asked
  BY DEF AddSeparator
<1>2. ft_add_separator(table) \in Tables(table, KindOf(moved), ~ moved, table.cur_row)
  BY TableIn, AddSeparatorIn
<1>3. QED
  BY <1>1, <1>2, TableIn, CursorBound, RowsCalled

\* ft_set_cell_prop, whose key is found the same way as it is asked for.
LEMMA SetCellPropStep ==
  ASSUME FortInv, NEW s \in Settings, SetCellProp(s)
  PROVE  FortInv'
<1>1. PICK row : row = IF s.row = CUR THEN table.cur_row ELSE s.row
  OBVIOUS
<1>2. PICK col : col = IF s.col = CUR THEN table.cur_col ELSE s.col
  OBVIOUS
<1>3. PICK cp : cp = set_cell_property(table.cell_properties, row, col, s.prop, s.value, table.defaults)
  OBVIOUS
<1>4. PICK w : w = [table EXCEPT !.cell_properties = cp]
  OBVIOUS
<1>5. ft_set_cell_prop(table, s) = w
  BY <1>1, <1>2, <1>3, <1>4, Zenon DEF ft_set_cell_prop
<1>6. PICK old : old = IF <<row, col, s.prop>> \in DOMAIN asked THEN asked[<<row, col, s.prop>>] ELSE Nothing
  OBVIOUS
<1>7. PICK x : x = IF Refused(s.prop, s.value) THEN old ELSE s.value
  OBVIOUS
<1>8. /\ Call /\ Becomes(w, {}) /\ moved' = moved
      /\ asked' = [k \in DOMAIN asked \cup {<<row, col, s.prop>>} |->
                     IF k = <<row, col, s.prop>> THEN x ELSE asked[k]]
  BY <1>1, <1>2, <1>5, <1>6, <1>7, Zenon DEF SetCellProp
<1>9. s.prop \in CellProps /\ s.value # Nothing
  BY ArgumentsAssumption
<1>10. IsDefault(table.defaults) /\ Container(table.cell_properties, asked, table.defaults)
  BY DEF FortInv, Sound
<1>11. Container(cp, asked', table.defaults)
  BY SMTT(30), <1>3, <1>6, <1>7, <1>8, <1>9, <1>10, SettingIn
<1>12. w \in Tables(w, KindOf(moved), ~ moved, table.cur_row) /\ w.cur_row = table.cur_row
       /\ w.defaults = table.defaults
  BY <1>4, TableIn, OtherFields
<1>13. w.cell_properties = cp
  BY <1>4, TableIn DEF Shape
<1>14. ~ AnyJunk(table, {})
  BY DEF AnyJunk
<1>15. QED
  BY <1>8, <1>10, <1>11, <1>12, <1>13, <1>14, TableIn, CursorBound, Called

\* A call that sets another field.
LEMMA FieldCalled ==
  ASSUME FortInv, Call, NEW w, Becomes(w, {}), moved' = moved, asked' = asked, NEW x,
         w = [table EXCEPT !.tprops = x] \/ w = [table EXCEPT !.border_style = x]
  PROVE  FortInv'
<1>1. /\ w \in Tables(w, KindOf(moved), ~ moved, table.cur_row) /\ w.cur_row = table.cur_row
      /\ w.defaults = table.defaults
  BY TableIn, OtherFields
<1>2. w.cell_properties = table.cell_properties
  BY TableIn DEF Shape
<1>3. IsDefault(w.defaults) /\ Container(w.cell_properties, asked', w.defaults)
  BY <1>1, <1>2 DEF FortInv, Sound
<1>4. QED
  BY <1>1, <1>3, TableIn, CursorBound, Called

\* ft_set_tbl_prop.
LEMMA SetTablePropStep ==
  ASSUME FortInv, NEW s \in TableSettings, SetTableProp(s)
  PROVE  FortInv'
<1>1. PICK x : x = set_entire_table_property_internal(table.tprops, s.prop, s.value)
  OBVIOUS
<1>2. Call /\ Becomes([table EXCEPT !.tprops = x], {}) /\ moved' = moved /\ asked' = asked
  BY <1>1, Zenon DEF SetTableProp
<1>3. QED
  BY <1>2, FieldCalled

\* ft_set_border_style.
LEMMA SetBorderStyleStep ==
  ASSUME FortInv, NEW style \in Styles, SetBorderStyle(style)
  PROVE  FortInv'
<1>1. Call /\ Becomes([table EXCEPT !.border_style = style], {}) /\ moved' = moved /\ asked' = asked
  BY DEF SetBorderStyle
<1>2. QED
  BY <1>1, FieldCalled

\* CUR is the current row.
LEMMA ResolveIn ==
  ASSUME FortInv, NEW x \in Nat \cup {CUR}
  PROVE  Resolve(table, x) \in Nat
  BY TableIn DEF Resolve

\* ft_set_cell_span.
LEMMA SetCellSpanStep ==
  ASSUME FortInv, NEW s \in Spans, SetCellSpan(s)
  PROVE  FortInv' /\ Keeps
<1>1. Call /\ moved' = moved /\ asked' = asked
  BY DEF SetCellSpan
<1>2. s.row \in Nat \cup {CUR} /\ s.col \in Nat \cup {CUR} /\ s.cols \in Nat
  BY ArgumentsAssumption
<1>3. PICK row \in Nat : row = Resolve(table, s.row)
  BY <1>2, ResolveIn
<1>4. CASE s.cols < 2
  <2>1. Becomes(table, {})
    BY <1>2, <1>4 DEF SetCellSpan
  <2>2. QED
    BY <1>1, <2>1, TableIn, StaysIn
<1>5. CASE s.cols >= 2 /\ s.col = CUR
  <2>1. Fails("hung")
    BY <1>2, <1>5 DEF SetCellSpan
  <2>2. QED
    BY <1>1, <2>1, TableIn, FailsIn
<1>6. CASE s.cols >= 2 /\ s.col # CUR
  <2>1. PICK cells : cells = {<<row, s.col + k>> : k \in 0 .. (s.cols - 1)}
    OBVIOUS
  <2>2. Becomes(ft_set_cell_span(table, row, s.col, s.cols), cells)
    BY <1>2, <1>3, <1>6, <2>1 DEF SetCellSpan
  <2>3. CASE AnyJunk(table, cells)
    BY <1>1, <2>2, <2>3, TableIn, Refuses, FailsIn
  <2>4. CASE ~ AnyJunk(table, cells)
    <3>1. {<<row, s.col + k>> : k \in 0 .. (s.cols - 1)} \cap JunkAt(table) = {}
      BY <2>1, <2>4, Clear
    <3>2. ft_set_cell_span(table, row, s.col, s.cols)
            \in Tables(table, KindOf(moved), ~ moved, table.cur_row)
      BY <1>2, <1>6, <3>1, TableIn, SetSpanIn
    <3>3. QED
      BY <1>1, <2>2, <3>2, TableIn, CursorBound, RowsCalled
  <2>5. QED
    BY <2>3, <2>4
<1>7. QED
  BY <1>2, <1>4, <1>5, <1>6

\* The four numbers of a range.
LEMMA RangeIn ==
  ASSUME FortInv, NEW e \in Ranges
  PROVE  /\ Resolve(table, e.top) \in Nat /\ Resolve(table, e.left) \in Nat
         /\ Resolve(table, e.bottom) \in Nat /\ Resolve(table, e.right) \in Nat
<1>1. /\ e.top \in Nat \cup {CUR} /\ e.left \in Nat \cup {CUR}
      /\ e.bottom \in Nat \cup {CUR} /\ e.right \in Nat \cup {CUR}
  BY ArgumentsAssumption
<1>2. QED
  BY <1>1, ResolveIn

\* The number of rounds is a number.
LEMMA RoundsIn ==
  ASSUME NEW t, NEW S, NEW r, NEW u \in Shape(t, S, r), NEW top \in Nat, NEW bottom \in Nat
  PROVE  /\ EraseRounds(u, top, bottom) \in Nat
         /\ EraseRounds(u, top, bottom) < SIZE_MODULUS
<1>1. PICK n \in Nat : n = Rows(u)
  BY RowsAre
<1>2. PICK last \in Nat : last = (n - 1) % SIZE_MODULUS
  BY <1>1, Remainder
<1>3. PICK a \in Int : a = (IF last < bottom THEN last ELSE bottom) - top + 1
  <2>1. (IF last < bottom THEN last ELSE bottom) \in Nat
    OBVIOUS
  <2>2. QED
    BY <2>1
<1>4. EraseRounds(u, top, bottom) = a % SIZE_MODULUS
  BY <1>1, <1>2, <1>3 DEF EraseRounds
<1>5. QED
  BY <1>3, <1>4, Remainder

\* ft_erase_range, which leaves no more rows than there were, wherever the cursor is.
LEMMA EraseRangeStep ==
  ASSUME FortInv, NEW e \in Ranges, EraseRange(e)
  PROVE  FortInv' /\ Keeps
<1>1. PICK top \in Nat, left \in Nat, bottom \in Nat, right \in Nat :
        /\ top = Resolve(table, e.top) /\ left = Resolve(table, e.left)
        /\ bottom = Resolve(table, e.bottom) /\ right = Resolve(table, e.right)
  BY RangeIn
<1>2. Call /\ moved' = TRUE /\ asked' = asked
  BY DEF EraseRange
<1>3. PICK u : u = CellsErased(table, top, left, bottom, right)
  OBVIOUS
<1>4. PICK end : end = EraseLoop(u, top, EraseRounds(table, top, bottom))
  OBVIOUS
<1>5. PICK cells : cells = ErasedRows(table, top, bottom) \X (left .. right)
  OBVIOUS
<1>6. Becomes(table, {}) \/ Fails("hung") \/ Fails("crashed") \/ Becomes(end.t, cells)
  BY <1>1, <1>3, <1>4, <1>5 DEF EraseRange
<1>7. CASE Becomes(table, {})
  BY <1>2, <1>7, StaysIn
<1>8. CASE Fails("hung") \/ Fails("crashed")
  BY <1>2, <1>8, FailsIn
<1>9. CASE Becomes(end.t, cells)
  <2>1. table \in Tables(table, KindOf(moved'), ~ moved', table.cur_row)
    BY <1>2, TableIn, KindGrows
  <2>2. table \in Shape(table, KindOf(moved'), table.cur_row)
    BY <2>1 DEF Tables
  <2>3. u \in Shape(table, KindOf(moved'), table.cur_row)
    BY <1>3, <2>2, CellsErasedIn
  <2>4. PICK rounds \in Nat : rounds = EraseRounds(table, top, bottom)
    BY <2>2, RoundsIn
  <2>5. PICK b \in Int : b = Rows(u) - top
    BY <2>3, RowsAre
  <2>6. end \in AfterRounds(table, KindOf(moved'), table.cur_row, b, rounds)
    BY <1>4, <2>3, <2>4, <2>5, EraseLoopIn
  <2>7. end.t \in Shape(table, KindOf(moved'), table.cur_row)
    BY <2>6 DEF AfterRounds, LoopStates
  <2>8. end.t \in Tables(table, KindOf(moved'), ~ moved', table.cur_row)
    BY <1>2, <2>7 DEF Tables
  <2>9. QED
    BY <1>2, <1>9, <2>8, TableIn, CursorBound, RowsCalled
<1>10. QED
  BY <1>6, <1>7, <1>8, <1>9

\* ft_copy_table.
LEMMA CopyStep ==
  ASSUME FortInv, Copy
  PROVE  FortInv'
<1>1. PICK w : w = ft_copy_table(table)
  OBVIOUS
<1>2. Call /\ Becomes(w, AllCells(table)) /\ moved' = moved /\ asked' = asked
  BY <1>1 DEF Copy
<1>3. IsDefault(table.defaults) /\ Container(table.cell_properties, asked, table.defaults)
  BY DEF FortInv, Sound
<1>4. /\ w \in Tables(w, KindOf(moved), ~ moved, table.cur_row)
      /\ w.cell_properties.items = table.cell_properties.items
      /\ w.defaults = table.defaults /\ IsRoomy(w.cell_properties)
  BY <1>1, <1>3, TableIn, CopyIn DEF Container
<1>5. w.cur_row = table.cur_row
  BY <1>4 DEF Tables, Shape
<1>6. IsDefault(w.defaults) /\ Container(w.cell_properties, asked', w.defaults)
  BY <1>2, <1>3, <1>4 DEF Container
<1>7. QED
  BY <1>2, <1>4, <1>5, <1>6, TableIn, CursorBound, Called

\* ft_to_string, which changes the buffer alone.
LEMMA ConvertStep ==
  ASSUME FortInv, Convert
  PROVE  FortInv'
<1>1. Call /\ moved' = moved /\ asked' = asked
  BY DEF Convert
<1>2. CASE AnyJunk(table, AllCells(table))
  <2>1. Fails("undefined")
    BY <1>2 DEF Convert
  <2>2. QED
    BY <1>1, <2>1, TableIn, FailsIn
<1>3. CASE ~ AnyJunk(table, AllCells(table))
  <2>1. PICK x : table' = [table EXCEPT !.conv_buffer = x]
    BY <1>3 DEF Convert
  <2>2. PICK w : w = [table EXCEPT !.conv_buffer = x]
    OBVIOUS
  <2>3. /\ w \in Tables(w, KindOf(moved), ~ moved, table.cur_row) /\ w.cur_row = table.cur_row
        /\ w.defaults = table.defaults /\ w.rows = table.rows
    BY <2>2, TableIn, OtherFields
  <2>4. w.cell_properties = table.cell_properties
    BY <2>2, TableIn DEF Shape
  <2>5. Small(w)
    BY <2>3 DEF FortInv, Sound, Small, Rows, Cols
  <2>6. moved \in BOOLEAN /\ calls \in Nat /\ calls < MaxCalls /\ calls' = calls + 1
        /\ MaxCalls \in Nat
    BY <1>1, BoundsAssumption DEF FortInv, Sound, Call
  <2>7. calls' \in Nat /\ calls' <= MaxCalls /\ (MaxCalls - calls') + 1 = MaxCalls - calls
    BY <2>6
  <2>8. PICK r \in Nat : r = table.cur_row
    BY DEF FortInv, Sound
  <2>9. r + (MaxCalls - calls') + 1 < SIZE_MODULUS
    <3>1. r + (MaxCalls - calls) < SIZE_MODULUS
      BY <1>1, <2>8, CursorBound
    <3>2. SIZE_MODULUS \in Nat
      BY ModulusAssumption
    <3>3. QED
      BY <2>6, <2>7, <3>1, <3>2
  <2>10. table' = w
    BY <2>1, <2>2
  <2>11. IsDefault(w.defaults) /\ Container(w.cell_properties, asked', w.defaults)
    BY <1>1, <2>3, <2>4 DEF FortInv, Sound
  <2>12. QED
    BY <1>1, <2>3, <2>5, <2>6, <2>7, <2>8, <2>9, <2>10, <2>11 DEF FortInv, Sound
<1>4. QED
  BY <1>2, <1>3

\* Every call keeps the table sound.
LEMMA NextFort == FortInv /\ [Next]_vars => FortInv'
<1> SUFFICES ASSUME FortInv, [Next]_vars
             PROVE  FortInv'
  OBVIOUS
<1>1. CASE Next
  <2>1. CASE \E x \in Texts : WriteRow(<<x>>) \/ WriteRowLn(<<x>>)
    BY <2>1, WriteRowStep, WriteRowLnStep
  <2>2. CASE \E x, y \in Texts : WriteTable(<< <<x, y>>, <<y>> >>)
    BY <2>2, WriteTableStep
  <2>3. CASE \E f \in Formats : Printf(f) \/ PrintfLn(f)
    BY <2>3, PrintfStep, PrintfLnStep
  <2>4. CASE \E p \in Positions : SetCurCell(p[1], p[2])
    BY <2>4, SetCurCellStep
  <2>5. CASE \E s \in Settings : SetCellProp(s)
    BY <2>5, SetCellPropStep
  <2>6. CASE \E s \in TableSettings : SetTableProp(s)
    BY <2>6, SetTablePropStep
  <2>7. CASE \E s \in Styles : SetBorderStyle(s)
    BY <2>7, SetBorderStyleStep
  <2>8. CASE \E s \in Spans : SetCellSpan(s)
    BY <2>8, SetCellSpanStep
  <2>9. CASE \E e \in Ranges : EraseRange(e)
    BY <2>9, EraseRangeStep
  <2>10. CASE Ln \/ AddSeparator \/ Copy \/ Convert
    BY <2>10, LnStep, AddSeparatorStep, CopyStep, ConvertStep
  <2>11. QED
    BY <1>1, <2>1, <2>2, <2>3, <2>4, <2>5, <2>6, <2>7, <2>8, <2>9, <2>10 DEF Next
<1>2. CASE UNCHANGED vars
  BY <1>2 DEF vars, FortInv, Sound
<1>3. QED
  BY <1>1, <1>2

\* The table is sound in every reachable state.
THEOREM FortInvariant == Spec => []FortInv
<1>1. QED
  BY InitFort, NextFort, PTL DEF Spec
-----------------------------------------------------------------------------
(* Vectors, gaps and settings.                                             *)

\* No vector of a table is without capacity or holds more than it has room
\* for, however vectors are pushed to, inserted into, split, swapped, erased
\* from and copied.
THEOREM RowsCanGrow == Spec => []RoomToGrow
<1>1. ASSUME FortInv
      PROVE  RoomToGrow
  <2>1. PICK S : table \in Shape(table, S, table.cur_row)
    BY <1>1, TableIn
  <2>2. table.rows \in Roomy(Roomy(S)) /\ table.separators \in Roomy(BOOLEAN)
    BY <2>1, ShapeParts
  <2>3. \A T, v : v \in Roomy(T) => HasRoom(v)
    BY DEF Roomy
  <2>4. HasRoom(table.cell_properties)
    BY <1>1, <2>3 DEF FortInv, Sound, Container, IsRoomy
  <2>5. \A i \in DOMAIN table.rows.items : HasRoom(table.rows.items[i])
    <3>1. table.rows.items \in Seq(Roomy(S))
      BY <2>2, RoomyParts
    <3>2. \A i \in DOMAIN table.rows.items : table.rows.items[i] \in Roomy(S)
      BY <3>1
    <3>3. QED
      BY <2>3, <3>2
  <2>6. QED
    BY <2>2, <2>3, <2>4, <2>5 DEF RoomToGrow
<1>2. QED
  BY <1>1, FortInvariant, PTL

\* As long as the cursor was never set and nothing erased, no row has a gap.
THEOREM GapsOnlyAfterJumps == Spec => []GapsNeedJump
<1>1. ASSUME FortInv
      PROVE  GapsNeedJump
  <2>1. SUFFICES ASSUME AnyJunk(table, AllCells(table)), ~ moved
                 PROVE  FALSE
    BY DEF GapsNeedJump
  <2>2. table \in Shape(table, Cells, table.cur_row)
    BY <2>1, <1>1, TableIn DEF KindOf
  <2>3. PICK p \in AllCells(table) :
          p[1] < Rows(table) /\ HasCell(table, p[1], p[2]) /\ CellAt(table, p[1], p[2]) = Junk
    BY <2>1 DEF AnyJunk
  <2>4. PICK n \in Nat : n = Rows(table)
    BY <2>2, RowsAre
  <2>5. p[1] \in 0 .. (n - 1) /\ p[2] \in 0 .. (Cols(table) - 1)
    BY <2>4 DEF AllCells
  <2>6. PICK r \in Nat : r = p[1] /\ r < n
    BY <2>4, <2>5
  <2>7. PICK row : row = RowAt(table, r)
    OBVIOUS
  <2>8. row \in Roomy(Cells) /\ columns_in_row(row) = Len(row.items)
    BY <2>2, <2>4, <2>6, <2>7, RowsAre
  <2>9. PICK c \in Int : c = p[2] /\ 0 <= c
    BY <2>5
  <2>10. PICK m \in Nat : m = Len(row.items)
    BY <2>8, RoomyParts
  <2>11. c + 1 \in 1 .. m
    <3>1. c < columns_in_row(row)
      BY <2>3, <2>6, <2>7, <2>9 DEF HasCell
    <3>2. QED
      BY <2>8, <2>9, <2>10, <3>1
  <2>12. row.items[c + 1] \in Cells
    BY <2>8, <2>10, <2>11, RoomyParts
  <2>13. row.items[c + 1] = Junk
    BY <2>3, <2>6, <2>7, <2>9 DEF CellAt, vector_at
  <2>14. QED
    BY <2>12, <2>13, JunkAssumption
<1>2. QED
  BY <1>1, FortInvariant, PTL

\* A cell always has the property that was asked for it, for its column, its
\* row or the table, whichever is nearest, after any calls and in copies.
THEOREM SettingsApply == Spec => []NearestSetting
<1>1. ASSUME FortInv
      PROVE  NearestSetting
  <2>1. Container(table.cell_properties, asked, table.defaults)
    BY <1>1 DEF FortInv, Sound
  <2>2. ASSUME NEW p \in {s.prop : s \in Settings} \ TextStyles,
               NEW r \in (0 .. 2) \cup {ANY}, NEW c \in (0 .. 2) \cup {ANY}
        PROVE  Prop(table, r, c, p) = Requested(r, c, p)
    <3>1. p \in CellProps \ TextStyles
      BY ArgumentsAssumption
    <3>2. QED
      BY <2>1, <3>1, LookUp
  <2>3. QED
    BY <2>2 DEF NearestSetting
<1>2. QED
  BY <1>1, FortInvariant, PTL
-----------------------------------------------------------------------------
(* The end of ft_erase_range.                                              *)

\* Numbers have a greatest one among them, or 0.
LEMMA GreatestExists ==
  ASSUME NEW n \in Nat, NEW f, \A i \in 1 .. n : f[i] \in Nat
  PROVE  \E m \in {0} \cup {f[i] : i \in 1 .. n} : \A i \in 1 .. n : f[i] <= m
<1> DEFINE T == {k \in Nat : k <= n => \E m \in {0} \cup {f[i] : i \in 1 .. k} :
                                          m \in Nat /\ \A i \in 1 .. k : f[i] <= m}
<1>1. 0 \in T
  OBVIOUS
<1>2. ASSUME NEW k \in Nat, k \in T
      PROVE  k + 1 \in T
  <2>1. SUFFICES ASSUME k + 1 <= n
                 PROVE  \E m \in {0} \cup {f[i] : i \in 1 .. (k + 1)} :
                          m \in Nat /\ \A i \in 1 .. (k + 1) : f[i] <= m
    OBVIOUS
  <2>2. PICK m \in {0} \cup {f[i] : i \in 1 .. k} : m \in Nat /\ \A i \in 1 .. k : f[i] <= m
    BY <1>2, <2>1
  <2>3. k + 1 \in 1 .. n /\ k + 1 \in 1 .. (k + 1) /\ f[k + 1] \in Nat
    BY <2>1
  <2>4. \A i \in 1 .. (k + 1) : i \in 1 .. k \/ i = k + 1
    OBVIOUS
  <2>5. CASE f[k + 1] <= m
    <3>1. m \in {0} \cup {f[i] : i \in 1 .. (k + 1)}
      BY <2>2
    <3>2. QED
      BY <2>2, <2>4, <2>5, <3>1
  <2>6. CASE ~ (f[k + 1] <= m)
    <3>1. \A i \in 1 .. k : f[i] \in Nat
      BY <2>1
    <3>2. \A i \in 1 .. (k + 1) : f[i] <= f[k + 1]
      BY <2>2, <2>3, <2>4, <2>6, <3>1
    <3>3. f[k + 1] \in {0} \cup {f[i] : i \in 1 .. (k + 1)}
      BY <2>3
    <3>4. QED
      BY <2>3, <3>2, <3>3
  <2>7. QED
    BY <2>5, <2>6
<1>3. n \in T
  <2>1. T \in SUBSET Nat /\ \A k \in Nat : k \in T => k + 1 \in T
    BY <1>2
  <2> HIDE DEF T
  <2>2. T = Nat
    BY <1>1, <2>1, Induct
  <2>3. QED
    BY <2>2
<1>4. QED
  BY <1>3

\* No row has more columns than the table.
LEMMA ColumnsBound ==
  ASSUME NEW t, NEW S, NEW r, NEW u \in Shape(t, S, r), NEW i \in Nat, i < Rows(u)
  PROVE  /\ columns_in_row(RowAt(u, i)) \in Nat /\ columns_in_row(RowAt(u, i)) <= Cols(u)
         /\ Cols(u) \in Nat
<1>1. PICK n \in Nat : n = Rows(u) /\ n = Len(u.rows.items)
  BY RowsAre
<1>2. u.rows \in Roomy(Roomy(S))
  BY RowsAre
<1>3. u.rows.items \in Seq(Roomy(S)) /\ DOMAIN u.rows.items = 1 .. n
  BY <1>1, <1>2, RoomyParts
<1>4. \A j \in 1 .. n : columns_in_row(u.rows.items[j]) \in Nat
  <2>1. \A j \in 1 .. n : u.rows.items[j] \in Roomy(S)
    BY <1>3
  <2>2. QED
    BY <2>1, RoomyParts DEF columns_in_row, vector_size
<1>5. PICK f : f = [j \in 1 .. n |-> columns_in_row(u.rows.items[j])]
  OBVIOUS
<1>6. \A j \in 1 .. n : f[j] = columns_in_row(u.rows.items[j]) /\ f[j] \in Nat
  BY <1>4, <1>5
<1>7. PICK m \in {0} \cup {f[j] : j \in 1 .. n} : \A j \in 1 .. n : f[j] <= m
  BY <1>6, GreatestExists
<1>8. PICK W : W = {0} \cup {f[j] : j \in 1 .. n}
  OBVIOUS
<1>9. m \in W /\ W \subseteq Nat
  BY <1>6, <1>7, <1>8
<1>10. \A y \in W : m >= y
  BY <1>6, <1>7, <1>8, <1>9
<1>11. Max(W) \in W /\ \A y \in W : Max(W) >= y
  BY <1>9, <1>10 DEF Max
<1>12. Cols(u) = Max(W)
  <2>1. W = {0} \cup {columns_in_row(u.rows.items[j]) : j \in DOMAIN u.rows.items}
    BY <1>3, <1>6, <1>8
  <2>2. QED
    BY <2>1 DEF Cols
<1>13. i + 1 \in 1 .. n /\ RowAt(u, i) = u.rows.items[i + 1]
  BY <1>1 DEF RowAt, vector_at
<1>14. f[i + 1] \in W
  BY <1>8, <1>13
<1>15. Max(W) >= f[i + 1]
  BY <1>11, <1>14
<1>16. Max(W) \in Nat /\ f[i + 1] \in Nat
  BY <1>6, <1>9, <1>11, <1>13
<1>17. f[i + 1] <= Max(W)
  BY <1>15, <1>16
<1>18. QED
  BY <1>6, <1>12, <1>13, <1>16, <1>17

\* What a size_t makes of a number that is out of its range by less than it
\* counts.
LEMMA Wraps ==
  ASSUME NEW a \in Int
  PROVE  /\ 0 <= a /\ a < SIZE_MODULUS => a % SIZE_MODULUS = a
         /\ a < 0 /\ 0 <= a + SIZE_MODULUS => a % SIZE_MODULUS = a + SIZE_MODULUS
  BY ModulusAssumption

\* A row that has columns gives all in the range and ends, unless the range
\* starts more than one column behind its last one.
LEMMA RowEnds ==
  ASSUME NEW row, NEW n \in Nat, columns_in_row(row) = n, n < SIZE_MODULUS,
         NEW left \in Nat, left < SIZE_MODULUS, NEW right \in Nat, left <= right
  PROVE  EraseEnds(row, left, right) <=> ~ (n \in 1 .. (left - 1))
<1>1. SIZE_MODULUS \in Nat
  BY ModulusAssumption
<1>2. CASE n = 0
  BY <1>2 DEF EraseEnds
<1>3. CASE n > 0
  <2>1. PICK a \in Int : a = (IF n - 1 <= right THEN n - 1 ELSE right) - left + 1
    <3>1. (IF n - 1 <= right THEN n - 1 ELSE right) \in Int
      OBVIOUS
    <3>2. QED
      BY <3>1
  <2>2. Min({n - 1, right}) = IF n - 1 <= right THEN n - 1 ELSE right
    BY Lesser
  <2>3. EraseCount(row, left, right) = a % SIZE_MODULUS
    BY <2>1, <2>2 DEF EraseCount
  <2>4. PICK k : k = a % SIZE_MODULUS
    OBVIOUS
  <2>5. CASE n >= left
    <3>1. 0 <= a /\ a <= n
      BY <1>3, <2>1, <2>5
    <3>2. a < SIZE_MODULUS
      BY <1>1, <3>1
    <3>3. k = a
      BY <2>4, <3>1, <3>2, Wraps
    <3>4. EraseEnds(row, left, right)
      BY <2>3, <2>4, <3>1, <3>3 DEF EraseEnds
    <3>5. ~ (n \in 1 .. (left - 1))
      BY <2>5
    <3>6. QED
      BY <3>4, <3>5
  <2>6. CASE n < left
    <3>1. a = n - left
      BY <2>1, <2>6
    <3>2. a < 0 /\ 0 <= a + SIZE_MODULUS
      BY <1>1, <2>6, <3>1
    <3>3. k = a + SIZE_MODULUS
      BY <2>4, <3>2, Wraps
    <3>4. ~ (k <= n)
      BY <1>1, <3>1, <3>3
    <3>5. ~ EraseEnds(row, left, right)
      BY <1>3, <2>3, <2>4, <3>4 DEF EraseEnds
    <3>6. n \in 1 .. (left - 1)
      BY <1>3, <2>6
    <3>7. QED
      BY <3>5, <3>6
  <2>7. QED
    BY <2>5, <2>6
<1>4. QED
  BY <1>2, <1>3

\* With n rows, and b of them from "top" on, more rounds than these are made
\* just when there are no rows or "top" is more than one row below them.
LEMMA RoundsFit ==
  ASSUME NEW t, NEW n \in Nat, Rows(t) = n, n < SIZE_MODULUS,
         NEW top \in Nat, NEW bottom \in Nat, top <= bottom, bottom + 1 < SIZE_MODULUS,
         NEW rounds, rounds = EraseRounds(t, top, bottom)
  PROVE  /\ n = 0 \/ top > n => rounds > 0 /\ rounds > n - top
         /\ ~ (n = 0 \/ top > n) => rounds = 0 \/ rounds <= n - top
<1>1. SIZE_MODULUS \in Nat
  BY ModulusAssumption
<1>2. PICK last : last = (n - 1) % SIZE_MODULUS
  OBVIOUS
<1>3. PICK a : a = (IF last < bottom THEN last ELSE bottom) - top + 1
  OBVIOUS
<1>4. rounds = a % SIZE_MODULUS
  BY <1>2, <1>3 DEF EraseRounds
<1>5. CASE n = 0
  <2>1. last = SIZE_MODULUS - 1
    <3>1. n - 1 < 0 /\ 0 <= (n - 1) + SIZE_MODULUS /\ n - 1 \in Int
      BY <1>1, <1>5
    <3>2. last = (n - 1) + SIZE_MODULUS
      BY <1>2, <3>1, Wraps
    <3>3. QED
      BY <1>1, <1>5, <3>2
  <2>2. a = bottom - top + 1
    BY <1>1, <1>3, <2>1
  <2>3. a \in Int /\ 0 < a /\ a < SIZE_MODULUS
    BY <1>1, <2>2
  <2>4. rounds = a
    BY <1>4, <2>3, Wraps
  <2>5. QED
    BY <1>5, <2>3, <2>4
<1>6. CASE n > 0
  <2>1. last = n - 1
    <3>1. 0 <= n - 1 /\ n - 1 < SIZE_MODULUS /\ n - 1 \in Int
      BY <1>1, <1>6
    <3>2. QED
      BY <1>2, <3>1, Wraps
  <2>2. CASE top > n
    <3>1. a = n - top
      BY <1>3, <2>1, <2>2
    <3>2. a \in Int /\ a < 0 /\ 0 <= a + SIZE_MODULUS
      BY <1>1, <2>2, <3>1
    <3>3. rounds = a + SIZE_MODULUS
      BY <1>4, <3>2, Wraps
    <3>4. rounds > 0 /\ rounds > n - top
      BY <1>1, <2>2, <3>1, <3>3
    <3>5. QED
      BY <2>2, <3>4
  <2>3. CASE ~ (top > n)
    <3>1. a \in Int /\ 0 <= a /\ a <= n - top
      BY <1>3, <2>1, <2>3
    <3>2. a < SIZE_MODULUS
      BY <1>1, <2>3, <3>1
    <3>3. rounds = a
      BY <1>4, <3>1, <3>2, Wraps
    <3>4. QED
      BY <1>6, <2>3, <3>1, <3>3
  <2>4. QED
    BY <2>2, <2>3
<1>7. QED
  BY <1>5, <1>6

\* The numbers of a range, CUR included, fit into a size_t.
LEMMA RangeFits ==
  ASSUME FortInv, Call, NEW e \in Ranges
  PROVE  /\ Resolve(table, e.left) < SIZE_MODULUS
         /\ Resolve(table, e.bottom) + 1 < SIZE_MODULUS
<1>1. PICK r \in Nat : r = table.cur_row
  BY TableIn
<1>2. calls \in Nat /\ MaxCalls \in Nat /\ SIZE_MODULUS \in Nat /\ calls < MaxCalls
      /\ r + (MaxCalls - calls) + 1 < SIZE_MODULUS
  BY <1>1, BoundsAssumption, ModulusAssumption DEF FortInv, Sound, Call
<1>3. r + 1 < SIZE_MODULUS
  BY <1>1, <1>2
<1>4. ASSUME NEW x \in {e.top, e.left, e.bottom, e.right}
      PROVE  Resolve(table, x) + 1 < SIZE_MODULUS
  <2>1. CASE x = CUR
    BY <1>1, <1>3, <2>1 DEF Resolve
  <2>2. CASE x # CUR
    BY <2>2, SizesAssumption DEF Resolve
  <2>3. QED
    BY <2>1, <2>2
<1>5. PICK left \in Nat : left = Resolve(table, e.left)
  BY RangeIn
<1>6. left + 1 < SIZE_MODULUS
  BY <1>4, <1>5
<1>7. left < SIZE_MODULUS
  BY <1>2, <1>6
<1>8. QED
  BY <1>4, <1>5, <1>7

\* A call ends well or without a defined meaning, and not otherwise.
LEMMA EndsWell ==
  ASSUME Call, NEW t, NEW cells, Becomes(t, cells)
  PROVE  status' \notin {"crashed", "hung"}
  BY DEF Becomes, Call

\* How ft_erase_range ends.
LEMMA EraseOutcome ==
  ASSUME FortInv, NEW e \in Ranges, EraseRange(e)
  PROVE  status' \in {"crashed", "hung"}
           <=> OutOfRange(Resolve(table, e.top), Resolve(table, e.left),
                          Resolve(table, e.bottom), Resolve(table, e.right))
<1>1. PICK top \in Nat, left \in Nat, bottom \in Nat, right \in Nat :
        /\ top = Resolve(table, e.top) /\ left = Resolve(table, e.left)
        /\ bottom = Resolve(table, e.bottom) /\ right = Resolve(table, e.right)
  BY RangeIn
<1>2. Call
  BY DEF EraseRange
<1>3. left < SIZE_MODULUS /\ bottom + 1 < SIZE_MODULUS
  BY <1>1, <1>2, RangeFits
<1>4. PICK S, r : table \in Shape(table, S, r)
  BY TableIn
<1>5. PICK n \in Nat : n = Rows(table)
  BY <1>4, RowsAre
<1>6. MaxSize \in Nat /\ MaxSize < SIZE_MODULUS /\ SIZE_MODULUS \in Nat
  BY BoundsAssumption, SizesAssumption, ModulusAssumption
<1>7. n < SIZE_MODULUS
  <2>1. n <= MaxSize
    BY <1>5 DEF FortInv, Sound, Small
  <2>2. QED
    BY <1>6, <2>1
<1>8. PICK rows : rows = ErasedRows(table, top, bottom)
  OBVIOUS
<1>9. \A q \in rows : q \in Nat /\ q < n
  BY <1>5, <1>8 DEF ErasedRows
<1>10. ASSUME NEW q \in rows, left <= right
       PROVE  EraseEnds(RowAt(table, q), left, right)
                <=> ~ (columns_in_row(RowAt(table, q)) \in 1 .. (left - 1))
  <2>1. q \in Nat /\ q < n
    BY <1>9
  <2>2. PICK m \in Nat :
            m = columns_in_row(RowAt(table, q)) /\ m <= Cols(table) /\ Cols(table) \in Nat
    BY <1>4, <1>5, <2>1, ColumnsBound
  <2>3. m < SIZE_MODULUS
    <3>1. PICK c : c = Cols(table)
      OBVIOUS
    <3>2. c <= MaxSize /\ m <= c
      BY <2>2, <3>1 DEF FortInv, Sound, Small
    <3>3. c \in Nat
      BY <2>2, <3>1
    <3>4. QED
      BY <1>6, <3>2, <3>3
  <2>4. QED
    BY <1>3, <1>10, <2>2, <2>3, RowEnds
<1>11. PICK u : u = CellsErased(table, top, left, bottom, right)
  OBVIOUS
<1>12. PICK rounds \in Nat : rounds = EraseRounds(table, top, bottom)
  BY <1>4, RoundsIn
<1>13. PICK end : end = EraseLoop(u, top, rounds)
  OBVIOUS
<1>14. ASSUME top <= bottom
       PROVE  end.crashed <=> (n = 0 \/ top > n)
  <2>1. u \in Shape(table, S, r) /\ Rows(u) = n
    BY <1>4, <1>5, <1>11, CellsErasedIn
  <2>2. PICK b \in Int : b = n - top
    OBVIOUS
  <2>3. end \in AfterRounds(table, S, r, b, rounds)
    BY <1>13, <2>1, <2>2, EraseLoopIn
  <2>4. end.crashed \in BOOLEAN
    BY <2>3 DEF AfterRounds, LoopStates
  <2>5. IF rounds = 0 \/ rounds <= b THEN ~ end.crashed ELSE end.crashed
    BY <2>3 DEF AfterRounds
  <2>6. /\ n = 0 \/ top > n => rounds > 0 /\ rounds > b
        /\ ~ (n = 0 \/ top > n) => rounds = 0 \/ rounds <= b
    BY <1>3, <1>5, <1>7, <1>12, <1>14, <2>2, RoundsFit
  <2>7. QED
    BY <2>4, <2>5, <2>6
<1>15. PICK cells : cells = rows \X (left .. right)
  OBVIOUS
<1>16. CASE top > bottom \/ left > right
  <2>1. Becomes(table, {})
    BY <1>1, <1>16 DEF EraseRange
  <2>2. status' \notin {"crashed", "hung"}
    BY <1>2, <2>1, EndsWell
  <2>3. ~ OutOfRange(top, left, bottom, right)
    BY <1>16 DEF OutOfRange
  <2>4. QED
    BY <1>1, <2>2, <2>3
<1>17. CASE /\ top <= bottom /\ left <= right
            /\ \E q \in rows : ~ EraseEnds(RowAt(table, q), left, right)
  <2>1. Fails("hung")
    BY <1>1, <1>8, <1>17 DEF EraseRange
  <2>2. status' = "hung"
    BY <2>1 DEF Fails
  <2>3. \E q \in rows : columns_in_row(RowAt(table, q)) \in 1 .. (left - 1)
    BY <1>10, <1>17
  <2>4. OutOfRange(top, left, bottom, right)
    BY <1>8, <1>17, <2>3 DEF OutOfRange
  <2>5. QED
    BY <1>1, <2>2, <2>4
<1>18. CASE /\ top <= bottom /\ left <= right
            /\ \A q \in rows : EraseEnds(RowAt(table, q), left, right)
  <2>1. IF end.crashed THEN Fails("crashed") ELSE Becomes(end.t, cells)
    BY <1>1, <1>8, <1>11, <1>12, <1>13, <1>15, <1>18 DEF EraseRange
  <2>2. status' \in {"crashed", "hung"} <=> end.crashed
    <3>1. CASE end.crashed
      BY <2>1, <3>1 DEF Fails
    <3>2. CASE ~ end.crashed
      BY <1>2, <2>1, <3>2, EndsWell
    <3>3. QED
      BY <3>1, <3>2
  <2>3. end.crashed <=> (n = 0 \/ top > n)
    BY <1>14, <1>18
  <2>4. ~ \E q \in rows : columns_in_row(RowAt(table, q)) \in 1 .. (left - 1)
    BY <1>10, <1>18
  <2>5. OutOfRange(top, left, bottom, right) <=> (n = 0 \/ top > n)
    BY <1>5, <1>8, <1>18, <2>4 DEF OutOfRange
  <2>6. QED
    BY <1>1, <2>2, <2>3, <2>5
<1>19. QED
  BY <1>16, <1>17, <1>18

\* ft_erase_range comes back from every range within the table, however
\* ragged its rows, and from no other.
THEOREM ErasesWithinTable == Spec => ErasesInRange
<1>1. ASSUME FortInv, Next
      PROVE  \A e \in Ranges :
               EraseRange(e) =>
                 (status' \in {"crashed", "hung"}
                    <=> OutOfRange(Resolve(table, e.top), Resolve(table, e.left),
                                   Resolve(table, e.bottom), Resolve(table, e.right)))
  BY <1>1, EraseOutcome
<1>2. QED
  BY <1>1, FortInvariant, PTL DEF Spec, ErasesInRange
-----------------------------------------------------------------------------
(* Which rows and separators ft_erase_range keeps.                         *)

\* How many of the rows in "gone" are above each row.
Above(gone) == [r \in Nat |-> Cardinality({g \in gone : g < r})]

\* d counts the members of "gone" below each number, one by one, so that it
\* never grows faster than the numbers do.
Counts(d, gone) ==
  /\ d[0] = 0
  /\ \A q \in Nat : d[q] \in Nat
  /\ \A q \in Nat : d[q + 1] = IF q \in gone THEN d[q] + 1 ELSE d[q]
  /\ \A q \in Nat : \A r \in Nat : r <= q => d[r] <= d[q] /\ d[q] - d[r] <= q - r

\* Above is such a count.
LEMMA AboveCounts ==
  ASSUME NEW gone, NEW n \in Nat, gone \subseteq 0 .. n
  PROVE  Counts(Above(gone), gone)
<1> DEFINE d == Above(gone)
           below(r) == {g \in gone : g < r}
<1>0. \A g \in gone : g \in Nat
  OBVIOUS
<1>1. IsFiniteSet(gone)
  <2>1. IsFiniteSet(0 .. n)
    BY FS_Interval, 0 \in Int, n \in Int
  <2>2. gone \in SUBSET (0 .. n)
    OBVIOUS
  <2>3. QED
    BY <2>1, <2>2, FS_Subset
<1>2. ASSUME NEW r \in Nat
      PROVE  IsFiniteSet(below(r)) /\ Cardinality(below(r)) \in Nat /\ d[r] = Cardinality(below(r))
  <2>1. below(r) \in SUBSET gone
    OBVIOUS
  <2>2. IsFiniteSet(below(r))
    BY <1>1, <2>1, FS_Subset
  <2>3. QED
    BY <2>2, FS_CardinalityType DEF Above
<1>3. d[0] = 0
  <2>1. below(0) = {}
    <3>1. \A g \in gone : ~ (g < 0)
      BY <1>0
    <3>2. QED
      BY <3>1, Zenon
  <2>2. QED
    BY <1>2, <2>1, FS_EmptySet
<1>4. ASSUME NEW q \in Nat
      PROVE  d[q + 1] = IF q \in gone THEN d[q] + 1 ELSE d[q]
  <2>1. CASE q \in gone
    <3>1. \A g \in gone : g < q + 1 <=> (g < q \/ g = q)
      BY <1>0
    <3>2. below(q + 1) = below(q) \cup {q} /\ q \notin below(q)
      <4>1. below(q + 1) = {g \in gone : g < q \/ g = q}
        BY <3>1, Zenon
      <4>2. {g \in gone : g < q \/ g = q} = {g \in gone : g < q} \cup {q}
        BY <2>1, Zenon
      <4>3. ~ (q < q)
        OBVIOUS
      <4>4. QED
        BY <4>1, <4>2, <4>3, Zenon
    <3>3. PICK B : B = below(q)
      OBVIOUS
    <3>4. IsFiniteSet(B) /\ q \notin B
      BY <1>2, <3>2, <3>3
    <3>5. Cardinality(B \cup {q}) = Cardinality(B) + 1
      BY <3>4, FS_AddElement
    <3>6. d[q + 1] = Cardinality(below(q + 1)) /\ d[q] = Cardinality(B)
      BY <1>2, <3>3
    <3>7. QED
      BY <2>1, <3>2, <3>3, <3>5, <3>6
  <2>2. CASE q \notin gone
    <3>1. \A g \in gone : g < q + 1 <=> g < q
      BY <1>0, <2>2
    <3>2. below(q + 1) = below(q)
      BY <3>1
    <3>3. d[q + 1] = Cardinality(below(q + 1)) /\ d[q] = Cardinality(below(q))
      BY <1>2
    <3>4. QED
      BY <2>2, <3>2, <3>3
  <2>3. QED
    BY <2>1, <2>2
<1>5. \A q \in Nat : d[q] \in Nat
  BY <1>2
<1> HIDE DEF d, below
<1> DEFINE T == {q \in Nat : \A r \in Nat : r <= q => d[r] <= d[q] /\ d[q] - d[r] <= q - r}
<1>6. 0 \in T
  BY <1>5
<1>7. ASSUME NEW q \in Nat, q \in T
      PROVE  q + 1 \in T
  <2>1. ASSUME NEW r \in Nat, r <= q + 1
        PROVE  d[r] <= d[q + 1] /\ d[q + 1] - d[r] <= (q + 1) - r
    <3>1. PICK a \in Nat, b \in Nat, c \in Nat : a = d[q] /\ b = d[q + 1] /\ c = d[r]
      BY <1>5
    <3>2. b = a \/ b = a + 1
      BY <1>4, <3>1
    <3>3. CASE r = q + 1
      BY <3>1, <3>3
    <3>4. CASE r <= q
      <4>1. c <= a /\ a - c <= q - r
        BY <1>7, <3>1, <3>4
      <4>2. QED
        BY <3>1, <3>2, <4>1
    <3>5. QED
      BY <2>1, <3>3, <3>4
  <2>2. QED
    BY <2>1
<1>8. T = Nat
  <2>1. T \in SUBSET Nat
    OBVIOUS
  <2> HIDE DEF T
  <2>2. QED
    BY <1>6, <1>7, <2>1, Induct
<1>9. QED
  BY <1>3, <1>4, <1>5, <1>8 DEF Counts, d

\* Where the items are when one is erased.
LEMMA ErasedItems ==
  ASSUME NEW S, NEW v \in Roomy(S), NEW i \in Nat, i < Len(v.items)
  PROVE  /\ Len(vector_erase(v, i).items) = Len(v.items) - 1
         /\ \A j \in 1 .. (Len(v.items) - 1) :
              vector_erase(v, i).items[j] = IF j <= i THEN v.items[j] ELSE v.items[j + 1]
<1>1. PICK n \in Nat : n = Len(v.items)
  BY RoomyParts
<1>2. v.items \in Seq(S) /\ v = [items |-> v.items, cap |-> v.cap]
  BY RoomyParts
<1>3. PICK a : a = SubSeq(v.items, 1, i)
  OBVIOUS
<1>4. a \in Seq(S) /\ Len(a) = i /\ \A j \in 1 .. i : a[j] = v.items[j]
  BY <1>1, <1>2, <1>3
<1>5. PICK b : b = SubSeq(v.items, i + 2, n)
  OBVIOUS
<1>6. b \in Seq(S) /\ Len(b) = n - i - 1 /\ \A j \in 1 .. (n - i - 1) : b[j] = v.items[i + 1 + j]
  BY <1>1, <1>2, <1>5
<1>7. RemoveAt(v.items, i + 1) = a \o b
  <2>1. (i + 1) - 1 = i /\ (i + 1) + 1 = i + 2
    OBVIOUS
  <2>2. QED
    BY <1>1, <1>3, <1>5, <2>1 DEF RemoveAt
<1>8. vector_erase(v, i).items = a \o b
  BY <1>1, <1>2, <1>7 DEF vector_erase, vector_size
<1>9. Len(a \o b) = n - 1
  <2>0. i < n
    BY <1>1
  <2>1. PICK k \in Nat : k = n - i - 1
    BY <2>0
  <2>2. Len(b) = k
    BY <1>6, <2>1
  <2>3. Len(a \o b) = i + k
    BY <1>4, <1>6, <2>2, Concat
  <2>4. QED
    BY <2>1, <2>3
<1>10. ASSUME NEW j \in 1 .. (n - 1)
       PROVE  (a \o b)[j] = IF j <= i THEN v.items[j] ELSE v.items[j + 1]
  <2>1. CASE j <= i
    <3>1. (a \o b)[j] = a[j] /\ j \in 1 .. i
      BY <1>4, <1>6, <2>1
    <3>2. QED
      BY <1>4, <2>1, <3>1
  <2>2. CASE ~ (j <= i)
    <3>1. PICK k \in 1 .. (n - i - 1) : k = j - i
      BY <1>1, <2>2
    <3>2. (a \o b)[j] = b[k] /\ i + 1 + k = j + 1
      BY <1>4, <1>6, <2>2, <3>1
    <3>3. QED
      BY <1>6, <2>2, <3>1, <3>2
  <2>3. QED
    BY <2>1, <2>2
<1>11. QED
  BY <1>1, <1>8, <1>9, <1>10

\* The flags behind an erased separator move up.
LEMMA ErasedFlags ==
  ASSUME NEW t, NEW w, NEW i \in Nat, t.separators \in Roomy(BOOLEAN),
         w.separators = vector_erase(t.separators, i), NEW p \in Nat
  PROVE  SepEnabled(w, p) <=> SepEnabled(t, IF p < i THEN p ELSE p + 1)
<1>1. PICK v \in Roomy(BOOLEAN) : v = t.separators
  OBVIOUS
<1>2. PICK n \in Nat : n = Len(v.items)
  BY RoomyParts
<1>3. \A q \in Nat : SepEnabled(t, q) <=> q < n /\ v.items[q + 1]
  BY <1>1, <1>2 DEF SepEnabled, vector_size, vector_at
<1>4. CASE i < n
  <2>1. PICK x : x = vector_erase(v, i)
    OBVIOUS
  <2>2. Len(x.items) = n - 1
        /\ \A j \in 1 .. (n - 1) : x.items[j] = IF j <= i THEN v.items[j] ELSE v.items[j + 1]
    BY <1>2, <1>4, <2>1, ErasedItems
  <2>3. SepEnabled(w, p) <=> p < n - 1 /\ x.items[p + 1]
    BY <1>1, <2>1, <2>2 DEF SepEnabled, vector_size, vector_at
  <2>4. CASE p < i
    <3>1. p < n - 1 /\ p < n /\ p + 1 \in 1 .. (n - 1) /\ p + 1 <= i
      BY <1>4, <2>4
    <3>2. x.items[p + 1] = v.items[p + 1]
      BY <2>2, <3>1
    <3>3. QED
      BY <1>3, <2>3, <2>4, <3>1, <3>2
  <2>5. CASE ~ (p < i)
    <3>1. p < n - 1 <=> p + 1 < n
      OBVIOUS
    <3>2. ASSUME p < n - 1
          PROVE  x.items[p + 1] = v.items[(p + 1) + 1]
      <4>1. p + 1 \in 1 .. (n - 1) /\ ~ (p + 1 <= i)
        BY <2>5, <3>2
      <4>2. QED
        BY <2>2, <4>1
    <3>3. p + 1 \in Nat
      OBVIOUS
    <3>4. QED
      BY <1>3, <2>3, <2>5, <3>1, <3>2, <3>3
  <2>6. QED
    BY <2>4, <2>5
<1>5. CASE ~ (i < n)
  <2>1. vector_erase(v, i) = v
    BY <1>2, <1>5 DEF vector_erase, vector_size
  <2>2. SepEnabled(w, p) <=> SepEnabled(t, p)
    BY <1>1, <2>1 DEF SepEnabled
  <2>3. CASE p < i
    BY <2>2, <2>3
  <2>4. CASE ~ (p < i)
    <3>1. ~ SepEnabled(t, p) /\ ~ SepEnabled(t, p + 1)
      BY <1>3, <1>5, <2>4
    <3>2. QED
      BY <2>2, <2>4, <3>1
  <2>5. QED
    BY <2>3, <2>4
<1>6. QED
  BY <1>4, <1>5

\* A row without k cells from "left" on.
Fewer(S, row, left, k) ==
  {w \in Roomy(S) : /\ Len(w.items) = Len(row.items) - k
                    /\ \A j \in 1 .. (Len(row.items) - k) :
                         w.items[j] = IF j <= left THEN row.items[j] ELSE row.items[j + k]}

\* One cell less.
LEMMA FewerStep ==
  ASSUME NEW S, NEW row \in Roomy(S), NEW left \in Nat, NEW k \in Nat,
         left + k < Len(row.items), NEW w \in Fewer(S, row, left, k)
  PROVE  vector_erase(w, left) \in Fewer(S, row, left, k + 1)
<1>1. PICK m \in Nat : m = Len(row.items) /\ left + k < m
  BY RoomyParts
<1>2. w \in Roomy(S) /\ Len(w.items) = m - k
      /\ \A j \in 1 .. (m - k) : w.items[j] = IF j <= left THEN row.items[j] ELSE row.items[j + k]
  BY <1>1 DEF Fewer
<1>3. left < Len(w.items)
  BY <1>1, <1>2
<1>4. PICK x : x = vector_erase(w, left)
  OBVIOUS
<1>5. x \in Roomy(S)
  BY <1>2, <1>4, EraseIn
<1>6. Len(x.items) = m - k - 1
      /\ \A j \in 1 .. (m - k - 1) : x.items[j] = IF j <= left THEN w.items[j] ELSE w.items[j + 1]
  BY <1>2, <1>3, <1>4, ErasedItems
<1>7. m - k - 1 = m - (k + 1)
  OBVIOUS
<1>8. ASSUME NEW j \in 1 .. (m - (k + 1))
      PROVE  x.items[j] = IF j <= left THEN row.items[j] ELSE row.items[j + (k + 1)]
  <2>1. j \in 1 .. (m - k - 1) /\ j \in 1 .. (m - k) /\ j + 1 \in 1 .. (m - k)
    BY <1>1
  <2>2. CASE j <= left
    BY <1>2, <1>6, <2>1, <2>2
  <2>3. CASE ~ (j <= left)
    <3>1. x.items[j] = w.items[j + 1]
      BY <1>6, <2>1, <2>3
    <3>2. ~ (j + 1 <= left) /\ (j + 1) + k = j + (k + 1)
      BY <2>3
    <3>3. w.items[j + 1] = row.items[(j + 1) + k]
      BY <1>2, <2>1, <3>2
    <3>4. QED
      BY <2>3, <3>1, <3>2, <3>3
  <2>4. QED
    BY <2>2, <2>3
<1>9. QED
  BY <1>1, <1>4, <1>5, <1>6, <1>7, <1>8 DEF Fewer

\* ft_row_erase_range takes away the cells in the range and no other.
LEMMA ErasedCells ==
  ASSUME NEW S, NEW row \in Roomy(S), NEW m \in Nat, m = columns_in_row(row), m < SIZE_MODULUS,
         m > 0, NEW left \in Nat, left <= m, NEW right \in Nat, left <= right
  PROVE  /\ ft_row_erase_range(row, left, right).items = Remaining(row, left, right)
         /\ columns_in_row(ft_row_erase_range(row, left, right)) =
              left + IF m - 1 <= right THEN 0 ELSE m - 1 - right
<1>1. m = Len(row.items) /\ row.items \in Seq(S)
  BY RoomyParts DEF columns_in_row, vector_size
<1>2. PICK v \in Nat : v = (IF m - 1 <= right THEN m - 1 ELSE right) - left + 1
  <2>1. CASE m - 1 <= right
    <3>1. (m - 1) - left + 1 \in Nat
      OBVIOUS
    <3>2. QED
      BY <2>1, <3>1
  <2>2. CASE ~ (m - 1 <= right)
    <3>1. right - left + 1 \in Nat
      OBVIOUS
    <3>2. QED
      BY <2>2, <3>1
  <2>3. QED
    BY <2>1, <2>2
<1>3. left + v <= m
  BY <1>2
<1>4. v = EraseCount(row, left, right)
  <2>1. Min({m - 1, right}) = IF m - 1 <= right THEN m - 1 ELSE right
    BY Lesser
  <2>2. EraseCount(row, left, right) = v % SIZE_MODULUS
    BY <1>2, <2>1 DEF EraseCount
  <2>3. v \in Int /\ 0 <= v /\ v < SIZE_MODULUS
    BY <1>3, ModulusAssumption
  <2>4. QED
    BY <2>2, <2>3, Wraps
<1>5. PICK E : E = [k \in 0 .. v |-> Fewer(S, row, left, k)]
  OBVIOUS
<1>6. row \in E[0]
  <2>1. row \in Fewer(S, row, left, 0)
    BY <1>1 DEF Fewer
  <2>2. QED
    BY <1>5, <2>1
<1>7. ASSUME NEW k \in 1 .. v, NEW x \in E[k - 1]
      PROVE  vector_erase(x, left) \in E[k]
  <2>1. PICK l \in Nat : l = k - 1 /\ k = l + 1 /\ left + l < m
    BY <1>3
  <2>2. E[k - 1] = Fewer(S, row, left, l) /\ E[k] = Fewer(S, row, left, l + 1)
    BY <1>5, <2>1
  <2>3. QED
    BY <1>1, <2>1, <2>2, FewerStep
<1>8. PICK w : w = ft_row_erase_range(row, left, right)
  OBVIOUS
<1>9. w \in Fewer(S, row, left, v)
  <2>1. w \in E[v]
    BY <1>4, <1>6, <1>7, <1>8, ErasedReaches
  <2>2. QED
    BY <1>5, <2>1
<1>10. w \in Roomy(S) /\ Len(w.items) = m - v
       /\ \A j \in 1 .. (m - v) : w.items[j] = IF j <= left THEN row.items[j] ELSE row.items[j + v]
  BY <1>1, <1>9 DEF Fewer
<1>11. w.items \in Seq(S)
  BY <1>10, RoomyParts
<1>12. PICK a : a = SubSeq(row.items, 1, left)
  OBVIOUS
<1>13. a \in Seq(S) /\ Len(a) = left /\ \A j \in 1 .. left : a[j] = row.items[j]
  BY <1>1, <1>12
<1>14. PICK b : b = SubSeq(row.items, right + 2, m)
  OBVIOUS
<1>15. PICK l \in Nat : l = m - v - left
  BY <1>3
<1>16. /\ b \in Seq(S) /\ Len(b) = l
       /\ \A j \in 1 .. l : b[j] = row.items[right + 1 + j]
  <2>1. CASE m - 1 <= right
    <3>1. l = 0
      BY <1>2, <1>15, <2>1
    <3>2. b = << >>
      BY <1>1, <1>14, <2>1
    <3>3. QED
      BY <3>1, <3>2
  <2>2. CASE ~ (m - 1 <= right)
    <3>1. l = m - 1 - right /\ right + 2 <= m
      BY <1>2, <1>15, <2>2
    <3>2. QED
      BY <1>1, <1>14, <3>1
  <2>3. QED
    BY <2>1, <2>2
<1>17. PICK h : h = a \o b
  OBVIOUS
<1>18. h \in Seq(S) /\ Len(h) = m - v
  <2>1. h \in Seq(S) /\ Len(h) = left + l
    BY <1>13, <1>16, <1>17, Concat
  <2>2. QED
    BY <1>15, <2>1
<1>19. ASSUME NEW j \in 1 .. (m - v)
       PROVE  h[j] = w.items[j]
  <2>1. CASE j <= left
    <3>1. h[j] = a[j]
      BY <1>13, <1>16, <1>17, <2>1
    <3>2. QED
      BY SMTT(30), <1>10, <1>13, <2>1, <3>1
  <2>2. CASE ~ (j <= left)
    <3>1. PICK i \in 1 .. l : i = j - left
      BY <1>15, <2>2
    <3>2. h[j] = b[i]
      BY <1>13, <1>16, <1>17, <2>2, <3>1
    <3>3. right + 1 + i = j + v
      BY <1>2, <1>15, <3>1
    <3>4. QED
      BY <1>10, <1>16, <2>2, <3>1, <3>2, <3>3
  <2>3. QED
    BY <2>1, <2>2
<1>20. h = w.items
  BY <1>10, <1>11, <1>18, <1>19, SameSequence
<1>21. h = Remaining(row, left, right)
  BY <1>12, <1>14, <1>17 DEF Remaining
<1>22. columns_in_row(w) = m - v
  BY <1>10 DEF columns_in_row, vector_size
<1>23. m - v = left + IF m - 1 <= right THEN 0 ELSE m - 1 - right
  BY <1>2
<1>24. QED
  BY <1>8, <1>20, <1>21, <1>22, <1>23

\* By how much row r has moved up when the second loop is at what was row q.
Shift(d, q, r) == IF r < q THEN d[r] ELSE d[q]

\* The loop is at what was row q of u: the rows in "gone" above it are away,
\* the others have closed ranks, each with its separator.
At(t, S, r0, u, d, gone, q) ==
  {s \in LoopStates(t, S, r0) :
     /\ ~ s.crashed
     /\ s.i = q - d[q]
     /\ Rows(s.t) = Rows(u) - d[q]
     /\ \A r \in Nat : r \notin gone \/ r >= q =>
          /\ r < Rows(u) => RowAt(s.t, r - Shift(d, q, r)) = RowAt(u, r)
          /\ SepEnabled(s.t, r - Shift(d, q, r)) <=> SepEnabled(u, r)}

\* A round that finds an empty row takes it and a separator away.
LEMMA RowDropped ==
  ASSUME NEW t, NEW S, NEW r0, NEW s \in LoopStates(t, S, r0), s.i < Rows(s.t),
         columns_in_row(RowAt(s.t, s.i)) = 0
  PROVE  /\ EraseRound(s).i = s.i /\ EraseRound(s).crashed = s.crashed
         /\ EraseRound(s).t.rows = vector_erase(s.t.rows, s.i)
         /\ EraseRound(s).t.separators = vector_erase(s.t.separators, s.i)
<1>1. PICK u \in Shape(t, S, r0) : u = s.t
  BY DEF LoopStates
<1>2. s = [t |-> u, i |-> s.i, crashed |-> s.crashed]
  BY <1>1 DEF LoopStates
<1>3. EraseRound(s) = [s EXCEPT !.t.rows = vector_erase(@, s.i),
                                !.t.separators = vector_erase(@, s.i)]
  BY DEF EraseRound
<1>4. PICK rows, seps : rows = vector_erase(u.rows, s.i) /\ seps = vector_erase(u.separators, s.i)
  OBVIOUS
<1>5. PICK w : w = [u EXCEPT !.rows = rows, !.separators = seps]
  OBVIOUS
<1>6. w.rows = rows /\ w.separators = seps
  BY <1>1, <1>5 DEF Shape
<1>7. EraseRound(s) = [t |-> w, i |-> s.i, crashed |-> s.crashed]
  <2>1. EraseRound(s) = [s EXCEPT !.t = [u EXCEPT !.rows = rows, !.separators = seps]]
    BY <1>1, <1>2, <1>3, <1>4
  <2>2. QED
    BY <1>2, <1>5, <2>1
<1>8. QED
  BY <1>1, <1>4, <1>6, <1>7

\* Where a row is when the empty row q is about to go: before and after.
LEMMA Closing ==
  ASSUME NEW gone, NEW d, Counts(d, gone), NEW q \in Nat, q \in gone,
         NEW r \in Nat, r \notin gone \/ r >= q + 1
  PROVE  /\ r - Shift(d, q + 1, r) \in Nat
         /\ r - Shift(d, q, r) = IF r - Shift(d, q + 1, r) < q - d[q]
                                 THEN r - Shift(d, q + 1, r) ELSE r - Shift(d, q + 1, r) + 1
<1>1. PICK a \in Nat, b \in Nat, c \in Nat : a = d[q] /\ b = d[r] /\ c = d[r + 1]
  <2>1. r + 1 \in Nat
    OBVIOUS
  <2>2. d[q] \in Nat /\ d[r] \in Nat /\ d[r + 1] \in Nat
    BY <2>1 DEF Counts
  <2>3. QED
    BY <2>2
<1>2. d[0] = 0 /\ d[q + 1] = a + 1
  BY <1>1 DEF Counts
<1>3. a <= q
  <2>1. d[q] - d[0] <= q - 0
    BY DEF Counts
  <2>2. QED
    BY <1>1, <1>2, <2>1
<1>4. CASE r < q
  <2>1. c = b
    BY <1>1, <1>4 DEF Counts
  <2>2. a - c <= q - (r + 1)
    <3>1. r + 1 \in Nat /\ r + 1 <= q
      BY <1>4
    <3>2. d[q] - d[r + 1] <= q - (r + 1)
      BY <3>1 DEF Counts
    <3>3. QED
      BY <1>1, <3>2
  <2>3. b <= r
    <3>1. d[r] - d[0] <= r - 0
      BY DEF Counts
    <3>2. QED
      BY <1>1, <1>2, <3>1
  <2>4. Shift(d, q + 1, r) = b /\ Shift(d, q, r) = b
    BY <1>1, <1>4 DEF Shift
  <2>5. r - b < q - a
    BY <2>1, <2>2
  <2>6. QED
    BY <1>1, <2>3, <2>4, <2>5
<1>5. CASE r > q
  <2>1. Shift(d, q + 1, r) = a + 1 /\ Shift(d, q, r) = a
    BY <1>1, <1>2, <1>5 DEF Shift
  <2>2. r - (a + 1) \in Nat /\ ~ (r - (a + 1) < q - a) /\ r - (a + 1) + 1 = r - a
    BY <1>3, <1>5
  <2>3. QED
    BY <1>1, <2>1, <2>2
<1>6. QED
  BY <1>4, <1>5

\* One round of the second loop.
LEMMA RowPassed ==
  ASSUME NEW t, NEW S, NEW r0, NEW u \in Shape(t, S, r0), NEW gone, NEW d, Counts(d, gone),
         NEW q \in Nat, q < Rows(u), q \in gone <=> columns_in_row(RowAt(u, q)) = 0,
         NEW s \in At(t, S, r0, u, d, gone, q)
  PROVE  RoundOf(s) \in At(t, S, r0, u, d, gone, q + 1)
<1>1. s \in LoopStates(t, S, r0) /\ ~ s.crashed
  BY DEF At
<1>2. PICK n \in Nat : n = Rows(u) /\ q < n
  BY RowsAre
<1>3. PICK a \in Nat : a = d[q]
  BY DEF Counts
<1>4. a <= q
  <2>1. d[q] - d[0] <= q - 0 /\ d[0] = 0
    BY DEF Counts
  <2>2. QED
    BY <1>3, <2>1
<1>5. PICK i \in Nat : i = q - a
  BY <1>4
<1>6. s.i = i /\ Rows(s.t) = n - a
  BY <1>2, <1>3, <1>5 DEF At
<1>7. \A r \in Nat : r \notin gone \/ r >= q =>
        /\ r < n => RowAt(s.t, r - Shift(d, q, r)) = RowAt(u, r)
        /\ SepEnabled(s.t, r - Shift(d, q, r)) <=> SepEnabled(u, r)
  BY <1>2 DEF At
<1>8. RowAt(s.t, i) = RowAt(u, q)
  <2>1. Shift(d, q, q) = a
    BY <1>3 DEF Shift
  <2>2. q >= q
    OBVIOUS
  <2>3. RowAt(s.t, q - Shift(d, q, q)) = RowAt(u, q)
    BY <1>2, <1>7, <2>2
  <2>4. QED
    BY <1>5, <2>1, <2>3
<1>9. i < n - a
  BY <1>2, <1>5
<1>10. PICK w : w = RoundOf(s)
  OBVIOUS
<1>11. w = EraseRound(s)
  BY <1>1, <1>6, <1>9, <1>10 DEF RoundOf
<1>12. w \in LoopStates(t, S, r0) /\ ~ w.crashed /\ Rows(w.t) - w.i = n - a - i - 1
  BY <1>1, <1>6, <1>9, <1>11, EraseRoundIn
<1>13. PICK v \in Shape(t, S, r0) : v = s.t
  BY <1>1 DEF LoopStates
<1>14. CASE q \notin gone
  <2>1. columns_in_row(RowAt(u, q)) \in Nat /\ columns_in_row(RowAt(u, q)) # 0
    <3>1. columns_in_row(RowAt(u, q)) \in Nat
      BY <1>2, ColumnsBound
    <3>2. QED
      BY <1>14, <3>1
  <2>2. columns_in_row(RowAt(s.t, s.i)) > 0
    BY <1>6, <1>8, <2>1
  <2>3. w = [s EXCEPT !.i = @ + 1]
    BY <1>11, <2>2 DEF EraseRound
  <2>4. w.i = i + 1 /\ w.t = s.t
    BY <1>1, <1>6, <2>3 DEF LoopStates
  <2>5. d[q + 1] = a
    BY <1>3, <1>14 DEF Counts
  <2>6. i + 1 = (q + 1) - a
    BY <1>5
  <2>7. ASSUME NEW r \in Nat, r \notin gone \/ r >= q + 1
        PROVE  /\ r < n => RowAt(w.t, r - Shift(d, q + 1, r)) = RowAt(u, r)
               /\ SepEnabled(w.t, r - Shift(d, q + 1, r)) <=> SepEnabled(u, r)
    <3>1. r \notin gone \/ r >= q
      BY <2>7
    <3>2. Shift(d, q + 1, r) = Shift(d, q, r)
      <4>1. CASE r < q
        BY <4>1 DEF Shift
      <4>2. CASE r = q
        BY <4>2, <1>3, <2>5 DEF Shift
      <4>3. CASE r > q
        BY <4>3, <1>3, <2>5 DEF Shift
      <4>4. QED
        BY <4>1, <4>2, <4>3
    <3>3. QED
      BY <1>7, <2>4, <3>1, <3>2
  <2>8. QED
    BY <1>2, <1>6, <1>10, <1>12, <2>4, <2>5, <2>6, <2>7 DEF At
<1>15. CASE q \in gone
  <2>1. columns_in_row(RowAt(s.t, s.i)) = 0
    BY <1>6, <1>8, <1>15
  <2>2. w.i = i /\ w.t.rows = vector_erase(v.rows, i)
        /\ w.t.separators = vector_erase(v.separators, i)
    BY <1>1, <1>6, <1>9, <1>11, <1>13, <2>1, RowDropped
  <2>3. d[q + 1] = a + 1
    BY <1>3, <1>15 DEF Counts
  <2>4. i = (q + 1) - (a + 1)
    BY <1>5
  <2>5. PICK x \in Shape(t, S, r0) : x = w.t
    BY <1>12 DEF LoopStates
  <2>6. Rows(x) = n - (a + 1)
    <3>1. PICK m \in Nat : m = Rows(x)
      BY RowsAre
    <3>2. m - i = n - a - i - 1
      BY <1>12, <2>2, <2>5, <3>1
    <3>3. QED
      BY <3>1, <3>2
  <2>7. PICK l \in Nat : l = n - a
    BY <1>9
  <2>8. v.rows \in Roomy(Roomy(S)) /\ Len(v.rows.items) = l /\ v.separators \in Roomy(BOOLEAN)
    <3>1. Rows(v) = Len(v.rows.items) /\ v.rows \in Roomy(Roomy(S))
      BY RowsAre
    <3>2. v.separators \in Roomy(BOOLEAN)
      BY ShapeParts
    <3>3. QED
      BY <1>6, <1>13, <2>7, <3>1, <3>2
  <2>9. \A j \in 1 .. (l - 1) :
          x.rows.items[j] = IF j <= i THEN v.rows.items[j] ELSE v.rows.items[j + 1]
    <3>1. i < Len(v.rows.items)
      BY <1>9, <2>7, <2>8
    <3>2. \A j \in 1 .. (Len(v.rows.items) - 1) :
            vector_erase(v.rows, i).items[j] =
              IF j <= i THEN v.rows.items[j] ELSE v.rows.items[j + 1]
      BY <2>8, <3>1, ErasedItems
    <3>3. QED
      BY <2>2, <2>5, <2>8, <3>2
  <2>10. ASSUME NEW p \in Nat, p < l - 1
         PROVE  RowAt(x, p) = RowAt(v, IF p < i THEN p ELSE p + 1)
    <3>1. p + 1 \in 1 .. (l - 1)
      BY <2>10
    <3>2. x.rows.items[p + 1] =
            IF p + 1 <= i THEN v.rows.items[p + 1] ELSE v.rows.items[(p + 1) + 1]
      BY <2>9, <3>1
    <3>3. p + 1 <= i <=> p < i
      OBVIOUS
    <3>4. QED
      BY <3>2, <3>3 DEF RowAt, vector_at
  <2>11. \A p \in Nat : SepEnabled(x, p) <=> SepEnabled(v, IF p < i THEN p ELSE p + 1)
    BY <2>2, <2>5, <2>8, ErasedFlags
  <2>12. ASSUME NEW r \in Nat, r \notin gone \/ r >= q + 1
         PROVE  /\ r < n => RowAt(x, r - Shift(d, q + 1, r)) = RowAt(u, r)
                /\ SepEnabled(x, r - Shift(d, q + 1, r)) <=> SepEnabled(u, r)
    <3>1. r \notin gone \/ r >= q
      BY <2>12
    <3>2. PICK p \in Nat : p = r - Shift(d, q + 1, r)
      BY <1>15, <2>12, Closing
    <3>3. r - Shift(d, q, r) = IF p < i THEN p ELSE p + 1
      <4>1. r - Shift(d, q, r) = IF r - Shift(d, q + 1, r) < q - d[q]
                                 THEN r - Shift(d, q + 1, r) ELSE r - Shift(d, q + 1, r) + 1
        BY <1>15, <2>12, Closing
      <4>2. QED
        BY <1>3, <1>5, <3>2, <4>1
    <3>4. SepEnabled(x, p) <=> SepEnabled(u, r)
      BY <1>7, <1>13, <2>11, <3>1, <3>3
    <3>5. ASSUME r < n
          PROVE  RowAt(x, p) = RowAt(u, r)
      <4>1. p < l - 1
        <5>1. PICK b \in Nat : b = d[r]
          BY DEF Counts
        <5>2. CASE r < q
          <6>1. d[q] - d[r] <= q - r /\ d[r] <= d[q]
            BY <5>2 DEF Counts
          <6>2. Shift(d, q + 1, r) = b
            BY <5>1, <5>2 DEF Shift
          <6>3. a - b <= q - r /\ p = r - b
            BY <1>3, <3>2, <5>1, <6>1, <6>2
          <6>4. d[r + 1] = b /\ r + 1 \in Nat /\ r + 1 <= q
            BY <3>1, <5>1, <5>2 DEF Counts
          <6>5. d[q] - d[r + 1] <= q - (r + 1)
            BY <6>4 DEF Counts
          <6>6. a - b <= q - (r + 1)
            BY <1>3, <6>4, <6>5
          <6>7. QED
            BY <1>2, <2>7, <6>3, <6>6
        <5>3. CASE r > q
          <6>1. Shift(d, q + 1, r) = a + 1
            BY <2>3, <5>3 DEF Shift
          <6>2. QED
            BY <2>7, <3>2, <3>5, <6>1
        <5>4. r # q
          BY <1>15, <2>12
        <5>5. QED
          BY <5>2, <5>3, <5>4
      <4>2. RowAt(x, p) = RowAt(v, r - Shift(d, q, r))
        BY <2>10, <3>3, <4>1
      <4>3. QED
        BY <1>7, <1>13, <3>1, <3>5, <4>2
    <3>6. QED
      BY <3>2, <3>4, <3>5
  <2>13. QED
    BY <1>2, <1>10, <1>12, <2>2, <2>3, <2>4, <2>5, <2>6, <2>12 DEF At
<1>16. QED
  BY <1>14, <1>15

\* The empty rows among those of the second loop.
Passed(u, top, rounds) ==
  {r \in 0 .. (Rows(u) - 1) : top <= r /\ r < top + rounds /\ columns_in_row(RowAt(u, r)) = 0}

\* What the second loop leaves: the empty rows it passed are away with their
\* separators, and the rest is in its place.
LEMMA LoopCloses ==
  ASSUME NEW t, NEW S, NEW r0, NEW u \in Shape(t, S, r0), NEW top \in Nat, NEW rounds \in Nat,
         top + rounds <= Rows(u), NEW gone, gone = Passed(u, top, rounds),
         NEW end, end = EraseLoop(u, top, rounds)
  PROVE  /\ Rows(end.t) = Rows(u) - Cardinality(gone)
         /\ \A r \in Nat : r \notin gone =>
              /\ r < Rows(u) => RowAt(end.t, Place(r, gone)) = RowAt(u, r)
              /\ SepEnabled(end.t, Place(r, gone)) <=> SepEnabled(u, r)
<1>1. PICK n \in Nat : n = Rows(u)
  BY RowsAre
<1>2. PICK last \in Nat : last = top + rounds
  OBVIOUS
<1>3. last <= n /\ gone = {r \in 0 .. (n - 1) :
                             top <= r /\ r < last /\ columns_in_row(RowAt(u, r)) = 0}
  BY <1>1, <1>2 DEF Passed
<1>4. PICK d : d = Above(gone)
  OBVIOUS
<1>5. Counts(d, gone)
  <2>1. gone \subseteq 0 .. n
    BY <1>3
  <2>2. QED
    BY <1>4, <2>1, AboveCounts
<1>6. \A r \in Nat : d[r] = Cardinality({g \in gone : g < r})
  BY <1>4 DEF Above
<1>7. d[top] = 0
  <2>1. \A g \in gone : ~ (g < top)
    BY <1>3
  <2>2. {g \in gone : g < top} = {}
    BY <2>1, Zenon
  <2>3. QED
    BY <1>6, <2>2, FS_EmptySet
<1>8. ASSUME NEW r \in Nat, r >= last
      PROVE  d[r] = Cardinality(gone)
  <2>1. \A g \in gone : g < r
    BY <1>3, <1>8
  <2>2. {g \in gone : g < r} = gone
    BY <2>1, Zenon
  <2>3. QED
    BY <1>6, <2>2
<1>9. d[last] = Cardinality(gone)
  BY <1>8
<1>10. PICK E : E = [k \in 0 .. rounds |-> At(t, S, r0, u, d, gone, top + k)]
  OBVIOUS
<1>11. [t |-> u, i |-> top, crashed |-> FALSE] \in E[0]
  <2>1. PICK s : s = [t |-> u, i |-> top, crashed |-> FALSE]
    OBVIOUS
  <2>2. s \in LoopStates(t, S, r0) /\ ~ s.crashed /\ s.i = top - d[top]
        /\ Rows(s.t) = Rows(u) - d[top]
    BY <1>1, <1>7, <2>1 DEF LoopStates
  <2>3. ASSUME NEW r \in Nat
        PROVE  r - Shift(d, top, r) = r
    <3>1. CASE r < top
      <4>1. d[r] \in Nat /\ d[r] <= d[top]
        BY <1>5, <3>1 DEF Counts
      <4>2. d[r] = 0
        BY <1>7, <4>1
      <4>3. QED
        BY <3>1, <4>2 DEF Shift
    <3>2. CASE ~ (r < top)
      BY <1>7, <3>2 DEF Shift
    <3>3. QED
      BY <3>1, <3>2
  <2>4. s \in At(t, S, r0, u, d, gone, top)
    BY <2>1, <2>2, <2>3 DEF At
  <2>5. E[0] = At(t, S, r0, u, d, gone, top)
    BY <1>10
  <2>6. QED
    BY <2>1, <2>4, <2>5
<1>12. ASSUME NEW k \in 1 .. rounds, NEW x \in E[k - 1]
       PROVE  RoundOf(x) \in E[k]
  <2>1. PICK q \in Nat : q = top + (k - 1) /\ q + 1 = top + k
    OBVIOUS
  <2>2. E[k - 1] = At(t, S, r0, u, d, gone, q) /\ E[k] = At(t, S, r0, u, d, gone, q + 1)
    BY <1>10, <2>1
  <2>3. q < n /\ top <= q /\ q < last /\ q \in 0 .. (n - 1)
    BY <1>2, <1>3, <2>1
  <2>4. q \in gone <=> columns_in_row(RowAt(u, q)) = 0
    BY <1>3, <2>3
  <2>5. QED
    BY <1>1, <1>5, <2>2, <2>3, <2>4, RowPassed
<1>13. end \in At(t, S, r0, u, d, gone, last)
  <2>1. end \in E[rounds]
    BY <1>11, <1>12, LoopReaches
  <2>2. QED
    BY <1>2, <1>10, <2>1
<1>14. Rows(end.t) = Rows(u) - Cardinality(gone)
  BY <1>9, <1>13 DEF At
<1>15. ASSUME NEW r \in Nat, r \notin gone
       PROVE  /\ r < Rows(u) => RowAt(end.t, Place(r, gone)) = RowAt(u, r)
              /\ SepEnabled(end.t, Place(r, gone)) <=> SepEnabled(u, r)
  <2>1. Shift(d, last, r) = d[r]
    <3>1. CASE r < last
      BY <3>1 DEF Shift
    <3>2. CASE ~ (r < last)
      <4>1. r >= last
        BY <3>2
      <4>2. d[r] = d[last]
        BY <1>8, <1>9, <4>1
      <4>3. QED
        BY <3>2, <4>2 DEF Shift
    <3>3. QED
      BY <3>1, <3>2
  <2>2. Place(r, gone) = r - Shift(d, last, r)
    BY <1>6, <2>1 DEF Place
  <2>3. QED
    BY <1>13, <1>15, <2>2 DEF At
<1>16. QED
  BY <1>14, <1>15

\* The rounds of a range that starts in the table, or right below it.
LEMMA RoundsAre ==
  ASSUME NEW t, NEW n \in Nat, Rows(t) = n, n > 0, n < SIZE_MODULUS,
         NEW top \in Nat, top <= n, NEW bottom \in Nat, top <= bottom,
         NEW rounds \in Nat, rounds = EraseRounds(t, top, bottom)
  PROVE  /\ top + rounds <= n
         /\ \A r \in 0 .. (n - 1) : top <= r /\ r < top + rounds <=> r \in top .. bottom
<1>1. SIZE_MODULUS \in Nat
  BY ModulusAssumption
<1>2. (n - 1) % SIZE_MODULUS = n - 1
  <2>1. n - 1 \in Int /\ 0 <= n - 1 /\ n - 1 < SIZE_MODULUS
    BY <1>1
  <2>2. QED
    BY <2>1, Wraps
<1>3. PICK low \in Nat : low = IF n - 1 < bottom THEN n - 1 ELSE bottom
  OBVIOUS
<1>4. rounds = (low - top + 1) % SIZE_MODULUS
  BY <1>2, <1>3 DEF EraseRounds
<1>5. low - top + 1 \in Int /\ 0 <= low - top + 1 /\ low - top + 1 <= n
  BY <1>3
<1>6. low - top + 1 < SIZE_MODULUS
  BY <1>1, <1>5
<1>7. rounds = low - top + 1
  BY <1>4, <1>5, <1>6, Wraps
<1>8. top + rounds = low + 1
  BY <1>7
<1>9. \A r \in 0 .. (n - 1) : r < low + 1 <=> r <= bottom
  BY <1>3
<1>10. low + 1 <= n
  BY <1>3
<1>11. QED
  BY <1>8, <1>9, <1>10

\* The rows after the first loop.
LEMMA CellsTaken ==
  ASSUME NEW t, NEW S, NEW r0, NEW u \in Shape(t, S, r0),
         NEW top \in Nat, NEW left \in Nat, NEW bottom \in Nat, NEW right \in Nat,
         NEW r \in Nat, r < Rows(u)
  PROVE  RowAt(CellsErased(u, top, left, bottom, right), r) =
           IF r \in top .. bottom THEN ft_row_erase_range(RowAt(u, r), left, right) ELSE RowAt(u, r)
<1>1. PICK n \in Nat : n = Rows(u) /\ n = Len(u.rows.items) /\ r < n
  BY RowsAre
<1>2. u.rows.items \in Seq(Roomy(S)) /\ u.rows = [items |-> u.rows.items, cap |-> u.rows.cap]
  BY RowsAre, RoomyParts
<1>3. DOMAIN u.rows.items = 1 .. n
  BY <1>1, <1>2
<1>4. PICK s : s = [i \in DOMAIN u.rows.items |->
                     IF (i - 1) \in ErasedRows(u, top, bottom)
                     THEN ft_row_erase_range(u.rows.items[i], left, right) ELSE u.rows.items[i]]
  OBVIOUS
<1>5. PICK rows : rows = [u.rows EXCEPT !.items = s]
  OBVIOUS
<1>6. rows.items = s
  BY <1>2, <1>5
<1>7. PICK w : w = [u EXCEPT !.rows = rows]
  OBVIOUS
<1>8. CellsErased(u, top, left, bottom, right) = w
  BY <1>4, <1>5, <1>7, Zenon DEF CellsErased
<1>9. w.rows = rows
  BY <1>7 DEF Shape
<1>10. r + 1 \in 1 .. n /\ (r + 1) - 1 = r
  BY <1>1
<1>11. r \in ErasedRows(u, top, bottom) <=> r \in top .. bottom
  BY <1>1 DEF ErasedRows
<1>12. s[r + 1] = IF r \in top .. bottom
                  THEN ft_row_erase_range(u.rows.items[r + 1], left, right) ELSE u.rows.items[r + 1]
  BY <1>3, <1>4, <1>10, <1>11
<1>13. RowAt(w, r) = s[r + 1] /\ RowAt(u, r) = u.rows.items[r + 1]
  BY <1>6, <1>9 DEF RowAt, vector_at
<1>14. QED
  BY <1>8, <1>12, <1>13

\* The first loop leaves the separators alone.
LEMMA SeparatorsLeft ==
  ASSUME NEW t, NEW S, NEW r0, NEW u \in Shape(t, S, r0), NEW top, NEW left, NEW bottom, NEW right
  PROVE  CellsErased(u, top, left, bottom, right).separators = u.separators
  BY DEF CellsErased, Shape

\* All of m columns are in the range.
Within(m, left, right) == \A c \in 0 .. (m - 1) : c \in left .. right

\* A row before and after the first loop: what is left of it, and when
\* nothing is.
LEMMA RowTaken ==
  ASSUME NEW S, NEW row \in Roomy(S), NEW m \in Nat, m = columns_in_row(row), m < SIZE_MODULUS,
         NEW left \in Nat, NEW right \in Nat, left <= right, ~ (m \in 1 .. (left - 1)),
         NEW x, x = ft_row_erase_range(row, left, right)
  PROVE  /\ columns_in_row(x) = 0 <=> Within(m, left, right)
         /\ m > 0 => x.items = Remaining(row, left, right)
<1>1. CASE m = 0
  <2>1. x = row
    BY <1>1 DEF ft_row_erase_range
  <2>2. \A c \in 0 .. (m - 1) : FALSE
    BY <1>1
  <2>3. Within(m, left, right) /\ ~ (m > 0)
    BY <1>1, <2>2 DEF Within
  <2>4. QED
    BY <1>1, <2>1, <2>3
<1>2. CASE m > 0
  <2>1. left <= m
    BY <1>2
  <2>2. /\ x.items = Remaining(row, left, right)
        /\ columns_in_row(x) = left + IF m - 1 <= right THEN 0 ELSE m - 1 - right
    BY <1>2, <2>1, ErasedCells
  <2>3. columns_in_row(x) = 0 <=> left = 0 /\ m - 1 <= right
    BY <2>2
  <2>4. Within(m, left, right) <=> left = 0 /\ m - 1 <= right
    <3>1. 0 \in 0 .. (m - 1) /\ m - 1 \in 0 .. (m - 1)
      BY <1>2
    <3>2. ASSUME Within(m, left, right)
          PROVE  left = 0 /\ m - 1 <= right
      <4>1. 0 \in left .. right /\ m - 1 \in left .. right
        BY <3>1, <3>2 DEF Within
      <4>2. QED
        BY <4>1
    <3>3. ASSUME left = 0, m - 1 <= right
          PROVE  Within(m, left, right)
      BY <3>3 DEF Within
    <3>4. QED
      BY <3>2, <3>3
  <2>5. QED
    BY <2>2, <2>3, <2>4
<1>3. QED
  BY <1>1, <1>2

\* A range that was erased without fault leaves the end of the second loop.
LEMMA EraseEffect ==
  ASSUME FortInv, NEW e \in Ranges, EraseRange(e), status' = "fine",
         NEW top, NEW left, NEW bottom, NEW right,
         top = Resolve(table, e.top), left = Resolve(table, e.left),
         bottom = Resolve(table, e.bottom), right = Resolve(table, e.right),
         top <= bottom, left <= right, top \in Nat, bottom \in Nat, left \in Nat, right \in Nat
  PROVE  table' = EraseLoop(CellsErased(table, top, left, bottom, right), top,
                            EraseRounds(table, top, bottom)).t
<1>1. PICK end : end = EraseLoop(CellsErased(table, top, left, bottom, right), top,
                                 EraseRounds(table, top, bottom))
  OBVIOUS
<1>2. PICK rows : rows = ErasedRows(table, top, bottom)
  OBVIOUS
<1>3. PICK cells : cells = rows \X (left .. right)
  OBVIOUS
<1>4. ~ (top > bottom \/ left > right)
  OBVIOUS
<1>5. CASE \E q \in rows : ~ EraseEnds(RowAt(table, q), left, right)
  <2>1. Fails("hung")
    BY <1>2, <1>5 DEF EraseRange
  <2>2. QED
    BY <2>1 DEF Fails
<1>6. CASE ~ \E q \in rows : ~ EraseEnds(RowAt(table, q), left, right)
  <2>1. IF end.crashed THEN Fails("crashed") ELSE Becomes(end.t, cells)
    BY <1>1, <1>2, <1>3, <1>4, <1>6 DEF EraseRange
  <2>2. ~ Fails("crashed")
    BY DEF Fails
  <2>3. Becomes(end.t, cells)
    BY <2>1, <2>2
  <2>4. table' = end.t
    BY <2>3 DEF Becomes
  <2>5. QED
    BY <1>1, <2>4
<1>7. QED
  BY <1>5, <1>6

\* What ft_erase_range does to rows, cells and separators.
LEMMA EraseKeeps ==
  ASSUME FortInv, NEW e \in Ranges, EraseRange(e), status' = "fine",
         NEW top \in Nat, NEW left \in Nat, NEW bottom \in Nat, NEW right \in Nat,
         top = Resolve(table, e.top), left = Resolve(table, e.left),
         bottom = Resolve(table, e.bottom), right = Resolve(table, e.right),
         top <= bottom, left <= right,
         NEW gone, gone = Emptied(top, left, bottom, right)
  PROVE  /\ Rows(table') = Rows(table) - Cardinality(gone)
         /\ \A r \in (0 .. (Rows(table) - 1)) \ gone :
              RowAt(table', Place(r, gone)).items =
                IF r \in top .. bottom
                THEN Remaining(RowAt(table, r), left, right)
                ELSE RowAt(table, r).items
         /\ \A r \in ((0 .. Rows(table)) \cup (0 .. vector_size(table.separators))) \ gone :
              SepEnabled(table', Place(r, gone)) <=> SepEnabled(table, r)
<1>1. PICK S, r0 : table \in Shape(table, S, r0)
  BY TableIn
<1>2. PICK n \in Nat : n = Rows(table)
  BY <1>1, RowsAre
<1>3. MaxSize \in Nat /\ MaxSize < SIZE_MODULUS /\ SIZE_MODULUS \in Nat
  BY BoundsAssumption, SizesAssumption, ModulusAssumption
<1>4. n <= MaxSize /\ Cols(table) <= MaxSize
  BY <1>2 DEF FortInv, Sound, Small
<1>5. n < SIZE_MODULUS
  BY <1>3, <1>4
<1>6. ~ OutOfRange(top, left, bottom, right)
  <2>1. status' \notin {"crashed", "hung"}
    OBVIOUS
  <2>2. QED
    BY <2>1, EraseOutcome
<1>7. n > 0 /\ top <= n
  BY <1>2, <1>6 DEF OutOfRange
<1>8. PICK rounds \in Nat : rounds = EraseRounds(table, top, bottom)
  BY <1>1, RoundsIn
<1>9. /\ top + rounds <= n
      /\ \A r \in 0 .. (n - 1) : top <= r /\ r < top + rounds <=> r \in top .. bottom
  BY SMTT(30), <1>2, <1>5, <1>7, <1>8, RoundsAre
<1>10. PICK u : u = CellsErased(table, top, left, bottom, right)
  OBVIOUS
<1>11. u \in Shape(table, S, r0) /\ Rows(u) = n /\ u.separators = table.separators
  BY <1>1, <1>2, <1>10, CellsErasedIn, SeparatorsLeft
<1>12. PICK end : end = EraseLoop(u, top, rounds)
  OBVIOUS
<1>13. table' = end.t
  BY <1>8, <1>10, <1>12, EraseEffect
<1>14. ASSUME NEW r \in 0 .. (n - 1)
       PROVE  /\ r \in gone <=> r \in top .. bottom /\ columns_in_row(RowAt(u, r)) = 0
              /\ r \notin gone => RowAt(u, r).items = IF r \in top .. bottom
                                                      THEN Remaining(RowAt(table, r), left, right)
                                                      ELSE RowAt(table, r).items
  <2>1. r \in Nat /\ r < n
    OBVIOUS
  <2>2. PICK row \in Roomy(S) : row = RowAt(table, r)
    BY <1>1, <1>2, <2>1, RowsAre
  <2>3. PICK m \in Nat : m = columns_in_row(row) /\ m <= Cols(table) /\ Cols(table) \in Nat
    BY <1>1, <1>2, <2>1, <2>2, ColumnsBound
  <2>4. m < SIZE_MODULUS
    <3>1. PICK c \in Nat : c = Cols(table)
      BY <2>3
    <3>2. QED
      BY <1>3, <1>4, <2>3, <3>1
  <2>5. r \in gone <=> r \in top .. bottom /\ Within(m, left, right)
    <3>1. r \in ErasedRows(table, top, bottom) <=> r \in top .. bottom
      BY <1>2 DEF ErasedRows
    <3>2. QED
      BY <2>2, <2>3, <3>1 DEF Emptied, Within
  <2>6. CASE r \in top .. bottom
    <3>1. RowAt(u, r) = ft_row_erase_range(row, left, right)
      BY SMTT(30), <1>1, <1>2, <1>10, <2>1, <2>2, <2>6, CellsTaken
    <3>2. ~ (m \in 1 .. (left - 1))
      <4>1. r \in ErasedRows(table, top, bottom)
        BY <1>2, <2>6 DEF ErasedRows
      <4>2. QED
        BY <1>6, <2>2, <2>3, <4>1 DEF OutOfRange
    <3>3. /\ columns_in_row(RowAt(u, r)) = 0 <=> Within(m, left, right)
          /\ m > 0 => RowAt(u, r).items = Remaining(row, left, right)
      BY <2>3, <2>4, <3>1, <3>2, RowTaken
    <3>4. ASSUME r \notin gone
          PROVE  m > 0
      <4>1. PICK c \in 0 .. (m - 1) : c \notin left .. right
        BY <2>5, <2>6, <3>4 DEF Within
      <4>2. QED
        BY <4>1
    <3>5. QED
      BY <2>2, <2>5, <2>6, <3>3, <3>4
  <2>7. CASE r \notin top .. bottom
    <3>1. RowAt(u, r) = row
      BY SMTT(30), <1>1, <1>2, <1>10, <2>1, <2>2, <2>7, CellsTaken
    <3>2. QED
      BY <2>2, <2>5, <2>7, <3>1
  <2>8. QED
    BY <2>6, <2>7
<1>15. gone = Passed(u, top, rounds)
  <2>1. gone \subseteq 0 .. (n - 1)
    BY <1>2 DEF Emptied, ErasedRows
  <2>2. \A r \in 0 .. (n - 1) :
          r \in gone <=> top <= r /\ r < top + rounds /\ columns_in_row(RowAt(u, r)) = 0
    BY <1>9, <1>14
  <2>3. QED
    BY <1>11, <2>1, <2>2 DEF Passed
<1>16. /\ Rows(end.t) = Rows(u) - Cardinality(gone)
       /\ \A r \in Nat : r \notin gone =>
            /\ r < Rows(u) => RowAt(end.t, Place(r, gone)) = RowAt(u, r)
            /\ SepEnabled(end.t, Place(r, gone)) <=> SepEnabled(u, r)
  <2>1. top + rounds <= Rows(u)
    BY <1>9, <1>11
  <2>2. QED
    BY <1>11, <1>12, <1>15, <2>1, LoopCloses
<1>17. Rows(table') = Rows(table) - Cardinality(gone)
  BY <1>2, <1>11, <1>13, <1>16
<1>18. ASSUME NEW r \in (0 .. (Rows(table) - 1)) \ gone
       PROVE  RowAt(table', Place(r, gone)).items =
                IF r \in top .. bottom
                THEN Remaining(RowAt(table, r), left, right)
                ELSE RowAt(table, r).items
  <2>1. r \in 0 .. (n - 1) /\ r \in Nat /\ r < n
    BY <1>2
  <2>2. RowAt(end.t, Place(r, gone)) = RowAt(u, r)
    BY <1>11, <1>16, <2>1
  <2>3. QED
    BY <1>13, <1>14, <2>1, <2>2
<1>19. ASSUME NEW r \in ((0 .. Rows(table)) \cup (0 .. vector_size(table.separators))) \ gone
       PROVE  SepEnabled(table', Place(r, gone)) <=> SepEnabled(table, r)
  <2>1. vector_size(table.separators) \in Nat
    BY <1>1, ShapeParts, RoomyParts DEF vector_size
  <2>2. r \in Nat
    BY <1>2, <2>1
  <2>3. SepEnabled(u, r) <=> SepEnabled(table, r)
    BY <1>11 DEF SepEnabled
  <2>4. QED
    BY <1>13, <1>16, <2>2, <2>3
<1>20. QED
  BY <1>17, <1>18, <1>19

\* When cells are erased, exactly the emptied rows go, each with the separator
\* above it; the rows and separators that stay close ranks together.
THEOREM SeparatorsStayWithRows == Spec => SeparatorsFollowRows
<1>1. ASSUME FortInv, Next
      PROVE  \A e \in Ranges :
               LET top    == Resolve(table, e.top)
                   left   == Resolve(table, e.left)
                   bottom == Resolve(table, e.bottom)
                   right  == Resolve(table, e.right)
                   gone   == Emptied(top, left, bottom, right)
               IN  EraseRange(e) /\ status' = "fine" /\ top <= bottom /\ left <= right =>
                     /\ Rows(table') = Rows(table) - Cardinality(gone)
                     /\ \A r \in (0 .. (Rows(table) - 1)) \ gone :
                          RowAt(table', Place(r, gone)).items =
                            IF r \in top .. bottom
                            THEN Remaining(RowAt(table, r), left, right)
                            ELSE RowAt(table, r).items
                     /\ \A r \in ((0 .. Rows(table)) \cup (0 .. vector_size(table.separators))) \ gone :
                          SepEnabled(table', Place(r, gone)) <=> SepEnabled(table, r)
  BY <1>1, RangeIn, EraseKeeps
<1>2. QED
  BY <1>1, FortInvariant, PTL DEF Spec, SeparatorsFollowRows
-----------------------------------------------------------------------------
(* What a table prints depends on its contents alone.                      *)

\* Rows with the same cells.
LEMMA RowsAlike ==
  ASSUME NEW a, NEW b, a.items = b.items
  PROVE  /\ columns_in_row(a) = columns_in_row(b)
         /\ \A c : /\ vector_at(a, c) = vector_at(b, c)
                   /\ get_row_cell_types(a, c) = get_row_cell_types(b, c)
                   /\ group_cell_number(a, c) = group_cell_number(b, c)
<1>1. columns_in_row(a) = columns_in_row(b)
  BY DEF columns_in_row, vector_size
<1>2. \A c : vector_at(a, c) = vector_at(b, c)
  BY DEF vector_at
<1>3. ASSUME NEW c
      PROVE  /\ get_row_cell_types(a, c) = get_row_cell_types(b, c)
             /\ group_cell_number(a, c) = group_cell_number(b, c)
  BY <1>1, <1>2 DEF get_row_cell_types, group_cell_number
<1>4. QED
  BY <1>1, <1>2, <1>3

\* The cells of tables with the same contents.
LEMMA CellsAlike ==
  ASSUME NEW t, NEW u, Alike(t, u), NEW r \in 0 .. (Rows(t) - 1)
  PROVE  /\ columns_in_row(RowAt(t, r)) = columns_in_row(RowAt(u, r))
         /\ \A c : /\ HasCell(t, r, c) <=> HasCell(u, r, c)
                   /\ CellAt(t, r, c) = CellAt(u, r, c)
                   /\ CellType(t, r, c) = CellType(u, r, c)
                   /\ group_cell_number(RowAt(t, r), c) = group_cell_number(RowAt(u, r), c)
<1>1. PICK n \in Nat : n = Rows(t)
  BY DEF Alike
<1>2. r \in Int /\ r + 1 \in 1 .. n
  BY <1>1
<1>3. RowAt(t, r) = t.rows.items[r + 1] /\ RowAt(u, r) = u.rows.items[r + 1]
  BY DEF RowAt, vector_at
<1>4. RowAt(t, r).items = RowAt(u, r).items
  BY <1>1, <1>2, <1>3 DEF Alike
<1>5. QED
  BY <1>4, RowsAlike DEF HasCell, CellAt, CellType

\* They have as many columns.
LEMMA ColumnsAlike ==
  ASSUME NEW t, NEW u, Alike(t, u)
  PROVE  Cols(t) = Cols(u)
<1>1. \A i \in 1 .. Rows(t) : columns_in_row(u.rows.items[i]) = columns_in_row(t.rows.items[i])
  BY RowsAlike DEF Alike
<1>2. {columns_in_row(t.rows.items[i]) : i \in DOMAIN t.rows.items}
        = {columns_in_row(u.rows.items[i]) : i \in DOMAIN u.rows.items}
  BY <1>1 DEF Alike
<1>3. QED
  BY <1>2 DEF Cols

\* They have the same properties.
LEMMA PropertiesAlike ==
  ASSUME NEW t, NEW u, Alike(t, u), NEW r, NEW c, NEW p
  PROVE  Prop(t, r, c, p) = Prop(u, r, c, p)
<1>1. PICK a : a = t.cell_properties
  OBVIOUS
<1>2. PICK b : b = u.cell_properties
  OBVIOUS
<1>3. a.items = b.items
  BY <1>1, <1>2 DEF Alike
<1>4. \A x, y : EntriesFor(a, x, y) = EntriesFor(b, x, y)
  BY <1>3 DEF EntriesFor
<1>5. \A k : Sets(a, k, p) <=> Sets(b, k, p)
  BY <1>3, <1>4 DEF Sets
<1>6. \A k : EntryValue(a, k, p) = EntryValue(b, k, p)
  BY <1>3, <1>4 DEF EntryValue
<1>7. PICK d : d = t.defaults /\ d = u.defaults
  BY DEF Alike
<1>8. get_cell_property_hierarchically(a, d, r, c, p)
        = get_cell_property_hierarchically(b, d, r, c, p)
  BY <1>5, <1>6 DEF get_cell_property_hierarchically
<1>9. QED
  BY <1>1, <1>2, <1>7, <1>8 DEF Prop

\* Every cell takes as much room.
LEMMA SizesAlike ==
  ASSUME NEW t, NEW u, Alike(t, u), NEW r \in 0 .. (Rows(t) - 1), NEW c
  PROVE  /\ cell_vis_width(t, r, c) = cell_vis_width(u, r, c)
         /\ cell_invis_codes_width(t, r, c) = cell_invis_codes_width(u, r, c)
         /\ hint_height_cell(t, r, c) = hint_height_cell(u, r, c)
         /\ NoCellHeight(t, r, c) = NoCellHeight(u, r, c)
<1>1. \A p : Prop(t, r, c, p) = Prop(u, r, c, p)
  BY PropertiesAlike
<1>2. CellAt(t, r, c) = CellAt(u, r, c)
  BY CellsAlike
<1>3. cell_vis_width(t, r, c) = cell_vis_width(u, r, c)
  BY <1>1, <1>2 DEF cell_vis_width
<1>4. cell_invis_codes_width(t, r, c) = cell_invis_codes_width(u, r, c)
  BY <1>1 DEF cell_invis_codes_width
<1>5. hint_height_cell(t, r, c) = hint_height_cell(u, r, c)
  BY <1>1, <1>2 DEF hint_height_cell
<1>6. NoCellHeight(t, r, c) = NoCellHeight(u, r, c)
  BY <1>1 DEF NoCellHeight
<1>7. QED
  BY <1>3, <1>4, <1>5, <1>6

\* Rows are as high.
LEMMA HeightsAlike ==
  ASSUME NEW t, NEW u, Alike(t, u), NEW r \in 0 .. (Rows(t) - 1)
  PROVE  RowHeight(t, r) = RowHeight(u, r)
<1>1. Cols(t) = Cols(u)
  BY ColumnsAlike
<1>2. \A c : HasCell(t, r, c) <=> HasCell(u, r, c)
  BY CellsAlike
<1>3. \A c : /\ hint_height_cell(t, r, c) = hint_height_cell(u, r, c)
             /\ NoCellHeight(t, r, c) = NoCellHeight(u, r, c)
  BY SizesAlike
<1>4. {IF HasCell(t, r, c) THEN hint_height_cell(t, r, c) ELSE NoCellHeight(t, r, c) :
         c \in 0 .. (Cols(t) - 1)}
        = {IF HasCell(u, r, c) THEN hint_height_cell(u, r, c) ELSE NoCellHeight(u, r, c) :
             c \in 0 .. (Cols(u) - 1)}
  BY <1>1, <1>2, <1>3
<1>5. QED
  BY <1>4 DEF RowHeight

\* Columns are as wide before spans are considered.
LEMMA CommonAlike ==
  ASSUME NEW t, NEW u, Alike(t, u), NEW c, NEW geom
  PROVE  CommonWidth(t, c, geom) = CommonWidth(u, c, geom)
<1>1. Rows(u) = Rows(t)
  BY DEF Alike
<1>2. PICK rows : rows = {r \in 0 .. (Rows(t) - 1) : HasCell(t, r, c)}
  OBVIOUS
<1>3. rows = {r \in 0 .. (Rows(u) - 1) : HasCell(u, r, c)}
  BY <1>1, <1>2, CellsAlike
<1>4. rows \subseteq 0 .. (Rows(t) - 1)
  BY <1>2
<1>5. \A r \in rows : /\ cell_vis_width(t, r, c) = cell_vis_width(u, r, c)
                      /\ Invisible(t, r, c, geom) = Invisible(u, r, c, geom)
                      /\ CellType(t, r, c) = CellType(u, r, c)
  BY <1>4, SizesAlike, CellsAlike DEF Invisible
<1>6. {q \in rows : CellType(t, q, c) = "COMMON"} = {q \in rows : CellType(u, q, c) = "COMMON"}
  BY <1>5
<1>7. PICK common : common = {q \in rows : CellType(t, q, c) = "COMMON"}
  OBVIOUS
<1>8. {cell_vis_width(t, r, c) : r \in common} = {cell_vis_width(u, r, c) : r \in common}
  BY <1>5, <1>7
<1>9. {Invisible(t, r, c, geom) : r \in rows} = {Invisible(u, r, c, geom) : r \in rows}
  BY <1>5
<1>10. CommonWidth(t, c, geom) = Max({0} \cup {cell_vis_width(t, r, c) : r \in common})
                                  + Max({0} \cup {Invisible(t, r, c, geom) : r \in rows})
  BY <1>2, <1>7 DEF CommonWidth
<1>11. CommonWidth(u, c, geom) = Max({0} \cup {cell_vis_width(u, r, c) : r \in common})
                                  + Max({0} \cup {Invisible(u, r, c, geom) : r \in rows})
  BY <1>3, <1>6, <1>7 DEF CommonWidth
<1>12. QED
  BY <1>8, <1>9, <1>10, <1>11

\* And afterwards.
LEMMA WidthsAlike ==
  ASSUME NEW t, NEW u, Alike(t, u), NEW geom
  PROVE  col_width_arr(t, geom) = col_width_arr(u, geom)
<1> DEFINE Step(v, common, f, k) ==
             IF k = 0 THEN common
             ELSE LET c == (k - 1) \div Rows(v)
                      r == (k - 1) % Rows(v)
                  IN  IF HasCell(v, r, c) /\ CellType(v, r, c) = "MASTER"
                      THEN Widened(f[k - 1], c, c + group_cell_number(RowAt(v, r), c) - 1,
                                   cell_vis_width(v, r, c) + Invisible(v, r, c, geom))
                      ELSE f[k - 1]
           All(v, common, places) == CHOOSE f : f = [k \in 0 .. places |-> Step(v, common, f, k)]
<1>1. PICK n \in Nat : n = Rows(t) /\ n = Rows(u)
  BY DEF Alike
<1>2. PICK cols : cols = Cols(t) /\ cols = Cols(u)
  BY ColumnsAlike
<1>3. PICK common : common = [c \in 0 .. (cols - 1) |-> CommonWidth(t, c, geom)]
  OBVIOUS
<1>4. common = [c \in 0 .. (cols - 1) |-> CommonWidth(u, c, geom)]
  BY <1>3, CommonAlike
<1>5. PICK places : places = cols * n
  OBVIOUS
<1>6. ASSUME NEW f, NEW k \in 0 .. places
      PROVE  Step(t, common, f, k) = Step(u, common, f, k)
  <2>1. CASE k = 0
    BY <2>1
  <2>2. CASE k # 0 /\ n = 0
    <3>1. DOMAIN t.rows.items = {}
      BY <1>1, <2>2 DEF Alike
    <3>2. {0} \cup {columns_in_row(t.rows.items[i]) : i \in DOMAIN t.rows.items} = {0}
      BY <3>1
    <3>3. Max({0}) = 0
      BY DEF Max
    <3>4. cols = 0
      BY <1>2, <3>2, <3>3 DEF Cols
    <3>5. QED
      BY <1>5, <2>2, <3>4
  <2>3. CASE k # 0 /\ n # 0
    <3>1. PICK j \in Nat : j = k - 1
      BY <2>3
    <3>2. PICK r : r = j % n
      OBVIOUS
    <3>3. r \in 0 .. (n - 1)
      BY <2>3, <3>1, <3>2
    <3>8. r \in 0 .. (Rows(t) - 1)
      BY <1>1, <3>3
    <3>4. PICK c : c = j \div n
      OBVIOUS
    <3>5. /\ HasCell(t, r, c) <=> HasCell(u, r, c)
          /\ CellType(t, r, c) = CellType(u, r, c)
          /\ group_cell_number(RowAt(t, r), c) = group_cell_number(RowAt(u, r), c)
      <4>1. \A d : /\ HasCell(t, r, d) <=> HasCell(u, r, d)
                   /\ CellType(t, r, d) = CellType(u, r, d)
                   /\ group_cell_number(RowAt(t, r), d) = group_cell_number(RowAt(u, r), d)
        BY <3>8, CellsAlike
      <4>2. QED
        BY <4>1
    <3>6. /\ cell_vis_width(t, r, c) = cell_vis_width(u, r, c)
          /\ Invisible(t, r, c, geom) = Invisible(u, r, c, geom)
      BY <3>8, SizesAlike DEF Invisible
    <3>7. QED
      BY <1>1, <2>3, <3>1, <3>2, <3>4, <3>5, <3>6
  <2>4. QED
    BY <2>1, <2>2, <2>3
<1>7. \A f : [k \in 0 .. places |-> Step(t, common, f, k)]
              = [k \in 0 .. places |-> Step(u, common, f, k)]
  <2> HIDE DEF Step
  <2>1. QED
    BY <1>6
<1>8. All(t, common, places) = All(u, common, places)
  <2> HIDE DEF Step
  <2>1. QED
    BY <1>7, Zenon
<1>9. col_width_arr(t, geom) = All(t, common, places)[places]
  BY <1>1, <1>2, <1>3, <1>5, Zenon DEF col_width_arr
<1>10. col_width_arr(u, geom) = All(u, common, places)[places]
  BY <1>1, <1>2, <1>4, <1>5, Zenon DEF col_width_arr
<1> HIDE DEF All
<1>11. QED
  BY <1>8, <1>9, <1>10

\* The line of a separator is the same.
LEMMA SeparatorsAlike ==
  ASSUME NEW t, NEW u, Alike(t, u), NEW i \in 0 .. Rows(t), NEW widths
  PROVE  print_row_separator_impl(t, i, widths) = print_row_separator_impl(u, i, widths)
<1>1. PICK n \in Nat : n = Rows(t) /\ n = Rows(u)
  BY DEF Alike
<1>2. \A r : IsHeader(t, r) <=> IsHeader(u, r)
  BY <1>1, PropertiesAlike DEF IsHeader
<1>3. SepEnabled(t, i) <=> SepEnabled(u, i)
  BY DEF SepEnabled, Alike, vector_size, vector_at
<1>4. \A h : CharsAt(t, h) = CharsAt(u, h)
  BY DEF CharsAt, Alike
<1>5. MarginWidth(t) = MarginWidth(u)
  BY DEF MarginWidth, Alike
<1>6. ASSUME NEW c, NEW items
      PROVE  Junction(t, i, c, items) = Junction(u, i, c, items)
  <2>1. \A r \in 0 .. (n - 1) : CellType(t, r, c) = CellType(u, r, c)
    <3>1. \A r \in 0 .. (Rows(t) - 1) : CellType(t, r, c) = CellType(u, r, c)
      BY CellsAlike
    <3>2. QED
      BY <1>1, <3>1
  <2>2. \A r : (IF r \in 0 .. (n - 1) THEN CellType(t, r, c) = "SLAVE" ELSE TRUE)
                 <=> (IF r \in 0 .. (n - 1) THEN CellType(u, r, c) = "SLAVE" ELSE TRUE)
    BY <2>1
  <2>3. QED
    BY <1>1, <2>2 DEF Junction
<1>7. ASSUME NEW items
      PROVE  SeparatorLength(t, i, widths, items) = SeparatorLength(u, i, widths, items)
  <2>1. [c \in DOMAIN widths \ {0} |-> Junction(t, i, c, items)]
          = [c \in DOMAIN widths \ {0} |-> Junction(u, i, c, items)]
    BY <1>6
  <2>2. QED
    BY <1>5, <2>1 DEF SeparatorLength
<1>8. ASSUME NEW items
      PROVE  SeparatorLine(t, i, widths, items) = SeparatorLine(u, i, widths, items)
  BY <1>7 DEF SeparatorLine
<1>9. PICK s : s = t.border_style.sep /\ s = u.border_style.sep
  BY DEF Alike
<1>10. PICK chars : /\ chars = CharsAt(t, IsHeader(t, i - 1) \/ IsHeader(t, i))
                    /\ chars = CharsAt(u, IsHeader(u, i - 1) \/ IsHeader(u, i))
  BY <1>2, <1>4 DEF CharsAt
<1>11. SeparatorItemsAt(chars, s, SepEnabled(t, i), i = 0, i = n)
         = SeparatorItemsAt(chars, s, SepEnabled(u, i), i = 0, i = n)
  BY <1>3 DEF SeparatorItemsAt
<1>12. QED
  BY <1>1, <1>8, <1>9, <1>10, <1>11 DEF print_row_separator_impl

\* And so is a row.
LEMMA LinesAlike ==
  ASSUME NEW t, NEW u, Alike(t, u), NEW r \in 0 .. (Rows(t) - 1), NEW widths
  PROVE  snprintf_row(t, r, widths) = snprintf_row(u, r, widths)
<1>1. \A c : /\ HasCell(t, r, c) <=> HasCell(u, r, c)
             /\ group_cell_number(RowAt(t, r), c) = group_cell_number(RowAt(u, r), c)
  BY CellsAlike
<1>2. \A c : Covered(t, r, c) <=> Covered(u, r, c)
  BY <1>1 DEF Covered
<1>3. PICK units : units = Units(t, r, widths) /\ units = Units(u, r, widths)
  BY <1>2 DEF Units
<1>4. \A c : UnitEnd(t, r, c) = UnitEnd(u, r, c)
  BY <1>1 DEF UnitEnd
<1>5. MarginWidth(t) = MarginWidth(u)
  BY DEF MarginWidth, Alike
<1>6. [c \in units |-> GroupWidth(widths, c, UnitEnd(t, r, c))]
        = [c \in units |-> GroupWidth(widths, c, UnitEnd(u, r, c))]
  BY <1>4
<1>7. \A chars : RowLength(t, r, widths, units, chars) = RowLength(u, r, widths, units, chars)
  BY <1>5, <1>6 DEF RowLength
<1>8. \A c : cell_invis_codes_width(t, r, c) = cell_invis_codes_width(u, r, c)
  BY SizesAlike
<1>9. PICK cells : /\ cells = {d \in units : HasCell(t, r, d)}
                   /\ cells = {d \in units : HasCell(u, r, d)}
  BY <1>1
<1>10. [c \in cells |-> cell_invis_codes_width(t, r, c)]
         = [c \in cells |-> cell_invis_codes_width(u, r, c)]
  BY <1>8
<1>11. RowTags(t, r, units) = RowTags(u, r, units)
  BY <1>9, <1>10 DEF RowTags
<1>12. RowHeight(t, r) = RowHeight(u, r)
  BY HeightsAlike
<1>13. IsHeader(t, r) <=> IsHeader(u, r)
  BY PropertiesAlike DEF IsHeader, Alike
<1>14. PICK chars : chars = CharsAt(t, IsHeader(t, r)) /\ chars = CharsAt(u, IsHeader(u, r))
  BY <1>13 DEF CharsAt, Alike
<1>15. RowLines(t, r, widths, units, chars) = RowLines(u, r, widths, units, chars)
  BY <1>7, <1>11, <1>12 DEF RowLines
<1>16. QED
  BY <1>3, <1>14, <1>15 DEF snprintf_row

\* Tables with the same contents print the same lines.
LEMMA TextAlike ==
  ASSUME NEW t, NEW u, Alike(t, u)
  PROVE  TextLines(t) = TextLines(u)
<1> DEFINE Step(v, widths, f, i) ==
             (IF i = 0 THEN << >> ELSE f[i - 1] \o snprintf_row(v, i - 1, widths))
               \o print_row_separator_impl(v, i, widths)
           All(v, widths, n) == CHOOSE f : f = [i \in 0 .. n |-> Step(v, widths, f, i)]
<1>1. PICK n \in Nat : n = Rows(t) /\ n = Rows(u)
  BY DEF Alike
<1>2. PICK widths : widths = col_width_arr(t, "VISIBLE") /\ widths = col_width_arr(u, "VISIBLE")
  BY WidthsAlike
<1>3. ASSUME NEW f, NEW i \in 0 .. n
      PROVE  Step(t, widths, f, i) = Step(u, widths, f, i)
  <2>1. print_row_separator_impl(t, i, widths) = print_row_separator_impl(u, i, widths)
    <3>1. i \in 0 .. Rows(t)
      BY <1>1
    <3>2. QED
      BY <3>1, SeparatorsAlike
  <2>2. ASSUME i # 0
        PROVE  snprintf_row(t, i - 1, widths) = snprintf_row(u, i - 1, widths)
    <3>1. i - 1 \in 0 .. (Rows(t) - 1)
      BY <1>1, <2>2
    <3>2. QED
      BY <3>1, LinesAlike
  <2>3. CASE i = 0
    BY <2>1, <2>3
  <2>4. CASE i # 0
    BY <2>1, <2>2, <2>4
  <2>5. QED
    BY <2>3, <2>4
<1>4. \A f : [i \in 0 .. n |-> Step(t, widths, f, i)] = [i \in 0 .. n |-> Step(u, widths, f, i)]
  <2> HIDE DEF Step
  <2>1. QED
    BY <1>3
<1>5. All(t, widths, n) = All(u, widths, n)
  <2> HIDE DEF Step
  <2>1. QED
    BY <1>4, Zenon
<1>6. TextLines(t) = All(t, widths, n)[n]
  BY <1>1, <1>2, Zenon DEF TextLines, Lines
<1>7. TextLines(u) = All(u, widths, n)[n]
  BY <1>1, <1>2, Zenon DEF TextLines, Lines
<1> HIDE DEF All
<1>8. QED
  BY <1>5, <1>6, <1>7

\* After any calls a copy of a table prints the same lines as the original:
\* spans, separators, properties, style and margins are all taken over.
THEOREM CopiesPrintTheSame == Spec => CopyPrintsTheSame
<1>1. ASSUME FortInv, Copy, status' = "fine"
      PROVE  TextLines(table') = TextLines(table)
  <2>1. PICK w : w = ft_copy_table(table)
    OBVIOUS
  <2>2. Becomes(w, AllCells(table)) /\ Call
    BY <1>1, <2>1 DEF Copy
  <2>3. table' = w
    BY <1>1, <2>2 DEF Becomes
  <2>4. Container(table.cell_properties, asked, table.defaults)
    BY <1>1 DEF FortInv, Sound
  <2>5. Alike(table, w)
    BY <1>1, <2>1, <2>4, TableIn, CopyIn DEF Container
  <2>6. QED
    BY <2>3, <2>5, TextAlike
<1>2. QED
  BY <1>1, FortInvariant, PTL DEF Spec, CopyPrintsTheSame
=============================================================================
