------------------------- MODULE CdescWalkerProofs --------------------------
(***************************************************************************)
(* Theorems about CdescWalker, for descriptors of any rank, shape and      *)
(* strides, and any count and datatype.  The argument: after the level of  *)
(* dimension i - 1 the datatype built so far selects the elements of       *)
(* dimensions 1 .. i - 1 in array element order, so the next level, which  *)
(* replicates it at the next dimension's stride, selects those of          *)
(* dimensions 1 .. i.                                                      *)
(***************************************************************************)
EXTENDS CdescWalker, WellFoundedInduction, TLAPS

-----------------------------------------------------------------------------
(* Numbers *)

\* Every nonempty set of natural numbers has a least element: the induction the
\* proofs below use.
LEMMA Least ==
  ASSUME NEW T, T \subseteq Nat, T # {}
  PROVE  \E x \in T : \A y \in T : x <= y
<1> DEFINE R == OpToRel(<, Nat)
<1>1. IsWellFoundedOn(R, Nat)
  BY NatLessThanWellFounded
<1>2. \A x, y \in Nat : <<x, y>> \in R <=> x < y
  BY DEF OpToRel
<1> HIDE DEF R
<1>3. PICK x \in T : \A y \in T : ~(<<y, x>> \in R)
  BY <1>1, WFMin
<1>4. ASSUME NEW y \in T PROVE x <= y
  <2>1. x \in Nat /\ y \in Nat /\ ~(y < x)
    BY <1>2, <1>3
  <2>2. QED
    BY <2>1
<1>5. QED
  BY <1>3, <1>4

\* Division with remainder: what it yields ...
LEMMA DivMod ==
  ASSUME NEW a \in Nat, NEW b \in Nat \ {0}
  PROVE  /\ a \div b \in Nat /\ a % b \in 0 .. b - 1
         /\ a = b * (a \div b) + (a % b)
OBVIOUS

\* ... and that nothing else is quotient and remainder.
LEMMA DivModUnique ==
  ASSUME NEW a \in Int, NEW b \in Nat \ {0}, NEW q \in Int, NEW r \in 0 .. b - 1,
         a = b * q + r
  PROVE  a \div b = q /\ a % b = r
OBVIOUS

\* The quotient and the remainder are natural numbers.
LEMMA DivType ==
  ASSUME NEW a \in Nat, NEW b \in Nat \ {0}
  PROVE  a \div b \in Nat /\ a % b \in Nat /\ a % b \in 0 .. b - 1
OBVIOUS

\* A number below the divisor is its own remainder.
LEMMA SmallDividend ==
  ASSUME NEW a \in Nat, NEW b \in Nat, a < b
  PROVE  a \div b = 0 /\ a % b = a
<1>1. b \in Nat \ {0} /\ a \in 0 .. b - 1 /\ a = b * 0 + a
  OBVIOUS
<1>2. QED
  BY <1>1, DivModUnique

\* The product of natural numbers is one, and is bounded by either if the other
\* is not 0.
LEMMA Product ==
  ASSUME NEW a \in Nat, NEW b \in Nat
  PROVE  a * b \in Nat /\ (b # 0 => a <= a * b) /\ (b = 0 => a * b = 0)
OBVIOUS

\* Unit x of a level is unit y of replica b.
Split(x, y, b, F, E) ==
  y \div F = (x \div F) % E /\ y % F = x % F /\ b = (x \div F) \div E

\* Replicas of L units split the units of a level so.
Splits(x, L, F, E) == L \in Nat \ {0} /\ Split(x, x % L, x \div L, F, E)

\* A position among the units of E elements of F units each: its element, its
\* place in the element, and the replica it is in.
LEMMA NestedDivision ==
  ASSUME NEW x \in Nat, NEW F \in Nat \ {0}, NEW E \in Nat \ {0}
  PROVE  Splits(x, F * E, F, E)
<1> DEFINE q == x \div F
           r == x % F
           Q == q \div E
           R == q % E
<1>1. q \in Nat /\ r \in 0 .. F - 1 /\ x = F * q + r
  BY DivMod
<1> HIDE DEF q, r
<1>2. Q \in Nat /\ R \in 0 .. E - 1 /\ q = E * Q + R
  BY <1>1, DivMod
<1> HIDE DEF Q, R
<1>3. F * E \in Nat \ {0}
  OBVIOUS
<1>4. x = (F * E) * Q + (F * R + r)
  <2>1. F * (E * Q + R) = (F * E) * Q + F * R
    BY <1>2
  <2>2. QED
    BY <1>1, <1>2, <2>1
<1>5. F * R + r \in 0 .. (F * E) - 1
  <2>1. F * R \in Nat /\ F * R + F <= F * E
    <3>1. R + 1 <= E /\ R \in Nat
      BY <1>2
    <3>2. F * (R + 1) <= F * E
      BY <3>1
    <3>3. QED
      BY <3>1, <3>2
  <2>2. QED
    BY <1>1, <1>3, <2>1
<1>6. x \div (F * E) = Q /\ x % (F * E) = F * R + r
  <2> DEFINE L == F * E
             y == F * R + r
  <2>1. L \in Nat \ {0} /\ Q \in Int /\ x \in Int /\ y \in 0 .. L - 1 /\ x = L * Q + y
    BY <1>2, <1>3, <1>4, <1>5
  <2> HIDE DEF L, y
  <2>2. x \div L = Q /\ x % L = y
    BY <2>1, DivModUnique
  <2>3. QED
    BY <2>2 DEF L, y
<1>7. (F * R + r) \div F = R /\ (F * R + r) % F = r
  <2>1. F * R + r \in Int /\ R \in Int
    BY <1>1, <1>2
  <2>2. QED
    BY <1>1, <2>1, DivModUnique
<1>8. QED
  BY <1>3, <1>6, <1>7 DEF q, r, Q, R, Split, Splits

-----------------------------------------------------------------------------
(* The section *)

\* There are partial products of a sequence of numbers.
LEMMA ProductsExist ==
  ASSUME NEW n \in Nat, NEW x \in [1 .. n -> Nat]
  PROVE  \E f \in [0 .. n -> Nat] :
           f[0] = 1 /\ \A j \in 1 .. n : f[j] = f[j - 1] * x[j]
<1> DEFINE Up(m, f) == f[0] = 1 /\ \A j \in 1 .. m : f[j] = f[j - 1] * x[j]
           Has(m) == \E f \in [0 .. m -> Nat] : Up(m, f)
           T == {m \in 0 .. n : ~Has(m)}
<1>1. ASSUME NEW m \in T, \A y \in T : m <= y PROVE FALSE
  <2>1. m # 0
    <3>1. [j \in 0 .. 0 |-> 1] \in [0 .. 0 -> Nat] /\ Up(0, [j \in 0 .. 0 |-> 1])
      OBVIOUS
    <3>2. QED
      BY <3>1
  <2>2. m - 1 \in 0 .. n /\ m \in 1 .. n
    BY <2>1
  <2>3. Has(m - 1)
    <3> HIDE DEF Has
    <3>1. m \in Nat /\ ~(m <= m - 1)
      BY <2>2
    <3>2. m - 1 \notin T
      BY <1>1, <3>1
    <3>3. QED
      BY <2>2, <3>2
  <2>4. PICK f \in [0 .. m - 1 -> Nat] : Up(m - 1, f)
    BY <2>3
  <2> DEFINE g == [j \in 0 .. m |-> IF j = m THEN f[m - 1] * x[m] ELSE f[j]]
  <2>5. g \in [0 .. m -> Nat]
    <3>1. f[m - 1] \in Nat /\ x[m] \in Nat
      BY <2>2
    <3>2. f[m - 1] * x[m] \in Nat
      BY <3>1
    <3>3. QED
      BY <2>2, <3>2
  <2>6. Up(m, g)
    <3>1. g[0] = 1
      BY <2>2, <2>4
    <3>2. ASSUME NEW j \in 1 .. m PROVE g[j] = g[j - 1] * x[j]
      <4>1. j - 1 \in 0 .. m - 1 /\ g[j - 1] = f[j - 1]
        BY <2>2
      <4>2. CASE j = m
        BY <2>2, <4>1, <4>2
      <4>3. CASE j # m
        <5>1. j \in 1 .. m - 1 /\ g[j] = f[j]
          BY <2>2, <4>3
        <5>2. QED
          BY <2>4, <4>1, <5>1
      <4>4. QED
        BY <4>2, <4>3
    <3>3. QED
      BY <3>1, <3>2
  <2>7. QED
    BY <2>5, <2>6
<1>2. T \subseteq Nat
  OBVIOUS
<1>3. T = {}
  <2> HIDE DEF T
  <2>1. QED
    BY <1>1, <1>2, Least
<1>4. Has(n)
  <2> HIDE DEF Has
  <2>1. n \in 0 .. n
    OBVIOUS
  <2>2. QED
    BY <1>3, <2>1
<1>5. QED
  BY <1>4

\* An offset built from one below is a number.
LEMMA OffsetStep ==
  ASSUME NEW h \in [Nat -> Int], NEW k \in Nat, NEW e \in Nat \ {0}, NEW s \in Int
  PROVE  h[k % e] + (k \div e) * s \in Int
<1>1. k % e \in Nat /\ k \div e \in Nat
  BY DivMod
<1>2. h[k % e] \in Int /\ (k \div e) * s \in Int
  BY <1>1
<1>3. QED
  BY <1>2

\* There are the offsets that extents and strides define.
LEMMA OffsetsExist ==
  ASSUME NEW n \in Nat, NEW E \in [0 .. n -> Nat], NEW s \in [1 .. n -> Int]
  PROVE  \E f \in [0 .. n -> [Nat -> Int]] :
           /\ f[0] = [k \in Nat |-> 0]
           /\ \A j \in 1 .. n :
                f[j] = [k \in Nat |->
                          IF E[j - 1] = 0 THEN 0
                          ELSE f[j - 1][k % E[j - 1]] + (k \div E[j - 1]) * s[j]]
<1> DEFINE Over(h, j) == [k \in Nat |->
                            IF E[j - 1] = 0 THEN 0
                            ELSE h[k % E[j - 1]] + (k \div E[j - 1]) * s[j]]
           Up(m, f) == f[0] = [k \in Nat |-> 0]
                       /\ \A j \in 1 .. m : f[j] = Over(f[j - 1], j)
           Has(m) == \E f \in [0 .. m -> [Nat -> Int]] : Up(m, f)
           T == {m \in 0 .. n : ~Has(m)}
<1>0. ASSUME NEW h \in [Nat -> Int], NEW j \in 1 .. n PROVE Over(h, j) \in [Nat -> Int]
  <2>1. ASSUME NEW k \in Nat, E[j - 1] # 0
        PROVE  h[k % E[j - 1]] + (k \div E[j - 1]) * s[j] \in Int
    <3>1. E[j - 1] \in Nat \ {0} /\ s[j] \in Int
      BY <2>1
    <3>2. QED
      BY <3>1, OffsetStep
  <2>2. QED
    BY <2>1
<1>1. ASSUME NEW m \in T, \A y \in T : m <= y PROVE FALSE
  <2>1. m # 0
    <3> DEFINE z == [k \in Nat |-> 0]
    <3>1. [j \in 0 .. 0 |-> z] \in [0 .. 0 -> [Nat -> Int]] /\ Up(0, [j \in 0 .. 0 |-> z])
      OBVIOUS
    <3>2. Has(0)
      BY <3>1
    <3>3. QED
      <4> HIDE DEF Has
      <4>1. QED
        BY <3>2
  <2>2. m - 1 \in 0 .. n /\ m \in 1 .. n
    BY <2>1
  <2>3. Has(m - 1)
    <3> HIDE DEF Has
    <3>1. m \in Nat /\ ~(m <= m - 1)
      BY <2>2
    <3>2. m - 1 \notin T
      BY <1>1, <3>1
    <3>3. QED
      BY <2>2, <3>2
  <2>4. PICK f \in [0 .. m - 1 -> [Nat -> Int]] : Up(m - 1, f)
    BY <2>3
  <2> DEFINE g == [j \in 0 .. m |-> IF j = m THEN Over(f[m - 1], m) ELSE f[j]]
  <2>5. g \in [0 .. m -> [Nat -> Int]]
    <3>1. f[m - 1] \in [Nat -> Int]
      BY <2>2
    <3>2. Over(f[m - 1], m) \in [Nat -> Int]
      BY <1>0, <2>2, <3>1
    <3> HIDE DEF Over
    <3>3. ASSUME NEW j \in 0 .. m PROVE g[j] \in [Nat -> Int]
      <4>1. CASE j = m
        BY <3>2, <4>1
      <4>2. CASE j # m
        <5>1. j \in 0 .. m - 1
          BY <2>2, <4>2
        <5>2. QED
          BY <4>2, <5>1
      <4>3. QED
        BY <4>1, <4>2
    <3>4. QED
      BY <3>3
  <2>6. Up(m, g)
    <3> HIDE DEF Over
    <3>1. g[0] = [k \in Nat |-> 0]
      BY <2>2, <2>4
    <3>2. ASSUME NEW j \in 1 .. m PROVE g[j] = Over(g[j - 1], j)
      <4>1. j - 1 \in 0 .. m - 1 /\ g[j - 1] = f[j - 1]
        BY <2>2
      <4>2. CASE j = m
        BY <2>2, <4>1, <4>2
      <4>3. CASE j # m
        <5>1. j \in 1 .. m - 1 /\ g[j] = f[j]
          BY <2>2, <4>3
        <5>2. QED
          BY <2>4, <4>1, <5>1
      <4>4. QED
        BY <4>2, <4>3
    <3>3. QED
      BY <3>1, <3>2
  <2>7. QED
    BY <2>5, <2>6
<1>2. T \subseteq Nat
  OBVIOUS
<1>3. T = {}
  <2> HIDE DEF T
  <2>1. QED
    BY <1>1, <1>2, Least
<1>4. Has(n)
  <2> HIDE DEF Has
  <2>1. n \in 0 .. n
    OBVIOUS
  <2>2. QED
    BY <1>3, <2>1
<1>5. QED
  BY <1>4

\* What a descriptor holds.
LEMMA Shape ==
  ASSUME NEW d \in Descriptors
  PROVE  /\ Len(d.dim) \in Nat \ {0} /\ d.elem_len \in Nat \ {0}
         /\ \A j \in 1 .. Len(d.dim) : d.dim[j].extent \in Nat /\ d.dim[j].sm \in Int
<1>1. PICK n \in 1 .. MaxRank : d.dim \in [1 .. n -> [extent : Shapes, sm : Strides]]
  BY DEF Descriptors
<1>2. n \in Nat \ {0}
  BY CdescWalkerAssumption
<1>3. Len(d.dim) = n
  BY <1>1, <1>2
<1>4. d.elem_len \in Nat \ {0}
  BY CdescWalkerAssumption DEF Descriptors
<1>5. ASSUME NEW j \in 1 .. n PROVE d.dim[j].extent \in Nat /\ d.dim[j].sm \in Int
  BY <1>1, CdescWalkerAssumption
<1>6. QED
  BY <1>2, <1>3, <1>4, <1>5

\* The numbers of elements are what their recursive definition says.
LEMMA ElementsFacts ==
  ASSUME NEW d \in Descriptors
  PROVE  /\ Elements(d) \in [0 .. Len(d.dim) -> Nat]
         /\ Elements(d)[0] = 1
         /\ \A j \in 1 .. Len(d.dim) :
              Elements(d)[j] = Elements(d)[j - 1] * d.dim[j].extent
<1> DEFINE n == Len(d.dim)
           x == [j \in 1 .. n |-> d.dim[j].extent]
           Body(f) == [j \in 0 .. n |-> IF j = 0 THEN 1 ELSE f[j - 1] * d.dim[j].extent]
<1>1. n \in Nat \ {0} /\ x \in [1 .. n -> Nat]
  BY Shape
<1> HIDE DEF n
<1>2. PICK f \in [0 .. n -> Nat] : f[0] = 1 /\ \A j \in 1 .. n : f[j] = f[j - 1] * x[j]
  <2> HIDE DEF x
  <2>1. QED
    BY <1>1, ProductsExist
<1>3. f = Body(f)
  <2>1. ASSUME NEW j \in 0 .. n PROVE f[j] = Body(f)[j]
    BY <1>1, <1>2
  <2>2. QED
    BY <2>1
<1>4. Elements(d) = Body(Elements(d))
  BY <1>3 DEF Elements, n
<1>5. Elements(d)[0] = 1
  BY <1>1, <1>4
<1>6. ASSUME NEW j \in 1 .. n PROVE Elements(d)[j] = Elements(d)[j - 1] * d.dim[j].extent
  <2>1. j \in 0 .. n /\ j # 0
    BY <1>1
  <2>2. QED
    BY <1>4, <2>1
<1>7. ASSUME NEW j \in 0 .. n PROVE Elements(d)[j] \in Nat
  <2> DEFINE T == {m \in 0 .. n : Elements(d)[m] \notin Nat}
  <2>1. T \subseteq Nat
    BY <1>1
  <2>2. ASSUME NEW m \in T, \A y \in T : m <= y PROVE FALSE
    <3>1. m # 0
      BY <1>5
    <3>2. m \in 1 .. n /\ m - 1 \in 0 .. n /\ ~(m <= m - 1)
      BY <1>1, <3>1
    <3>3. Elements(d)[m - 1] \in Nat
      BY <2>2, <3>2
    <3>4. d.dim[m].extent \in Nat
      BY <3>2, Shape DEF n
    <3>5. Elements(d)[m] \in Nat
      BY <1>6, <3>2, <3>3, <3>4
    <3>6. QED
      BY <3>5
  <2>3. T = {}
    <3> HIDE DEF T
    <3>1. QED
      BY <2>1, <2>2, Least
  <2>4. QED
    BY <2>3
<1>8. Elements(d) \in [0 .. n -> Nat]
  <2>1. Elements(d) = [j \in 0 .. n |-> Elements(d)[j]]
    BY <1>4
  <2>2. QED
    BY <1>7, <2>1
<1>9. QED
  BY <1>5, <1>6, <1>8 DEF n

\* So are the offsets.
LEMMA OffsetsFacts ==
  ASSUME NEW d \in Descriptors
  PROVE  /\ \A j \in 0 .. Len(d.dim) : Offsets(d)[j] \in [Nat -> Int]
         /\ Offsets(d)[0] = [k \in Nat |-> 0]
         /\ \A j \in 1 .. Len(d.dim) : \A k \in Nat :
              Elements(d)[j - 1] # 0 =>
                Offsets(d)[j][k] = Offsets(d)[j - 1][k % Elements(d)[j - 1]]
                                     + (k \div Elements(d)[j - 1]) * d.dim[j].sm
<1> DEFINE n == Len(d.dim)
           s == [j \in 1 .. n |-> d.dim[j].sm]
           E == Elements(d)
           O == Offsets(d)
           Over(f, j) == [k \in Nat |->
                            IF j = 0 \/ E[j - 1] = 0 THEN 0
                            ELSE f[j - 1][k % E[j - 1]] + (k \div E[j - 1]) * d.dim[j].sm]
<1>1. n \in Nat \ {0} /\ s \in [1 .. n -> Int] /\ E \in [0 .. n -> Nat]
  BY Shape, ElementsFacts
<1>2. PICK f \in [0 .. n -> [Nat -> Int]] :
           /\ f[0] = [k \in Nat |-> 0]
           /\ \A j \in 1 .. n :
                f[j] = [k \in Nat |->
                          IF E[j - 1] = 0 THEN 0
                          ELSE f[j - 1][k % E[j - 1]] + (k \div E[j - 1]) * s[j]]
  <2> HIDE DEF n, s, E
  <2>1. QED
    BY <1>1, OffsetsExist
<1>3. f = [j \in 0 .. n |-> Over(f, j)]
  <2> HIDE DEF n, E
  <2>1. ASSUME NEW j \in 0 .. n PROVE f[j] = Over(f, j)
    <3>1. CASE j = 0
      BY <1>2, <3>1
    <3>2. CASE j # 0
      <4>1. j \in 1 .. n /\ s[j] = d.dim[j].sm
        BY <1>1, <3>2
      <4>2. QED
        BY <1>2, <3>2, <4>1
    <3>3. QED
      BY <3>1, <3>2
  <2> HIDE DEF Over
  <2>2. QED
    BY <2>1
<1>4. O = [j \in 0 .. n |-> Over(O, j)]
  BY <1>3 DEF Offsets
<1> HIDE DEF O, E, n
<1>5. O[0] = [k \in Nat |-> 0]
  <2>1. O[0] = Over(O, 0)
    <3> HIDE DEF Over
    <3>1. QED
      BY <1>1, <1>4
  <2>2. QED
    BY <2>1
<1>6. ASSUME NEW j \in 1 .. n
      PROVE  O[j] = Over(O, j)
  <2> HIDE DEF Over
  <2>1. QED
    BY <1>1, <1>4
<1>7. ASSUME NEW j \in 0 .. n PROVE O[j] \in [Nat -> Int]
  <2> DEFINE T == {m \in 0 .. n : O[m] \notin [Nat -> Int]}
  <2>1. T \subseteq Nat
    BY <1>1
  <2>2. ASSUME NEW m \in T, \A y \in T : m <= y PROVE FALSE
    <3>1. m # 0
      BY <1>5
    <3>2. m \in 1 .. n /\ m - 1 \in 0 .. n /\ ~(m <= m - 1)
      BY <1>1, <3>1
    <3>3. O[m - 1] \in [Nat -> Int]
      BY <2>2, <3>2
    <3>4. d.dim[m].sm \in Int /\ E[m - 1] \in Nat
      BY <1>1, <3>2, Shape DEF n
    <3>5. ASSUME NEW k \in Nat, E[m - 1] # 0
          PROVE  O[m - 1][k % E[m - 1]] + (k \div E[m - 1]) * d.dim[m].sm \in Int
      BY <3>3, <3>4, <3>5, OffsetStep
    <3>6. Over(O, m) \in [Nat -> Int]
      BY <3>5
    <3>7. QED
      BY <1>6, <3>2, <3>6
  <2>3. T = {}
    <3> HIDE DEF T
    <3>1. QED
      BY <2>1, <2>2, Least
  <2>4. QED
    BY <2>3
<1>8. ASSUME NEW j \in 1 .. n, NEW k \in Nat, E[j - 1] # 0
      PROVE  O[j][k] = O[j - 1][k % E[j - 1]] + (k \div E[j - 1]) * d.dim[j].sm
  <2>1. j # 0
    BY <1>1
  <2>2. Over(O, j)[k] = O[j - 1][k % E[j - 1]] + (k \div E[j - 1]) * d.dim[j].sm
    BY <1>8, <2>1
  <2> HIDE DEF Over
  <2>3. QED
    BY <1>6, <2>2
<1>9. QED
  BY <1>5, <1>7, <1>8 DEF O, E, n

\* A section that is empty in some dimensions is empty.
LEMMA EmptyStays ==
  ASSUME NEW d \in Descriptors, NEW j \in 0 .. Len(d.dim), Elements(d)[j] = 0,
         NEW m \in j .. Len(d.dim)
  PROVE  Elements(d)[m] = 0
<1> DEFINE n == Len(d.dim)
           E == Elements(d)
           T == {l \in j .. n : E[l] # 0}
<1>1. n \in Nat /\ E \in [0 .. n -> Nat]
  BY Shape, ElementsFacts
<1>2. T \subseteq Nat
  BY <1>1
<1>3. ASSUME NEW l \in T, \A y \in T : l <= y PROVE FALSE
  <2>1. l # j
    OBVIOUS
  <2>2. l \in 1 .. n /\ l - 1 \in j .. n /\ ~(l <= l - 1)
    BY <1>1, <2>1
  <2>3. E[l - 1] = 0
    BY <1>3, <2>2
  <2>4. E[l] = E[l - 1] * d.dim[l].extent /\ d.dim[l].extent \in Nat
    BY <2>2, Shape, ElementsFacts
  <2>5. E[l] = 0
    BY <2>3, <2>4
  <2>6. QED
    BY <2>5
<1>4. T = {}
  <2> HIDE DEF T
  <2>1. QED
    BY <1>2, <1>3, Least
<1>5. QED
  BY <1>4

\* In a section that is not empty, the elements of dimensions 1 .. j come first,
\* where they are.
LEMMA OuterDimensions ==
  ASSUME NEW d \in Descriptors, NEW j \in 0 .. Len(d.dim),
         Elements(d)[Len(d.dim)] # 0, NEW m \in j .. Len(d.dim)
  PROVE  /\ Elements(d)[j] <= Elements(d)[m]
         /\ \A k \in 0 .. Elements(d)[j] - 1 : Offsets(d)[m][k] = Offsets(d)[j][k]
<1> DEFINE n == Len(d.dim)
           E == Elements(d)
           O == Offsets(d)
           Same(l) == E[j] <= E[l] /\ \A k \in 0 .. E[j] - 1 : O[l][k] = O[j][k]
           T == {l \in j .. n : ~Same(l)}
<1>1. n \in Nat /\ E \in [0 .. n -> Nat] /\ E[j] \in Nat
  BY Shape, ElementsFacts
<1>2. T \subseteq Nat
  BY <1>1
<1>3. Same(j)
  BY <1>1
<1>4. ASSUME NEW l \in T, \A y \in T : l <= y PROVE FALSE
  <2>1. l # j
    <3> HIDE DEF Same
    <3>1. QED
      BY <1>3
  <2>2. l \in 1 .. n /\ l - 1 \in j .. n /\ ~(l <= l - 1) /\ l - 1 \in 0 .. n
    BY <1>1, <2>1
  <2>3. Same(l - 1)
    <3> HIDE DEF Same
    <3>1. QED
      BY <1>4, <2>2
  <2>4. E[l - 1] # 0 /\ E[l] # 0
    <3>1. n \in l - 1 .. n /\ n \in l .. n /\ l \in 0 .. n
      BY <1>1, <2>2
    <3>2. QED
      BY <2>2, <3>1, EmptyStays
  <2>5. E[l] = E[l - 1] * d.dim[l].extent /\ d.dim[l].extent \in Nat /\ E[l - 1] \in Nat
    BY <1>1, <2>2, Shape, ElementsFacts
  <2>6. E[l - 1] <= E[l] /\ E[l] \in Nat
    <3>1. d.dim[l].extent # 0
      BY <2>4, <2>5
    <3>2. QED
      BY <2>5, <3>1, Product
  <2>7. E[j] <= E[l]
    BY <1>1, <2>3, <2>5, <2>6
  <2>8. ASSUME NEW k \in 0 .. E[j] - 1 PROVE O[l][k] = O[j][k]
    <3>1. k \in Nat /\ k < E[l - 1] /\ k \in 0 .. E[l - 1] - 1
      BY <1>1, <2>3, <2>5
    <3>2. O[l][k] = O[l - 1][k % E[l - 1]] + (k \div E[l - 1]) * d.dim[l].sm
      BY <2>2, <2>4, <3>1, OffsetsFacts
    <3>3. O[l - 1] \in [Nat -> Int] /\ d.dim[l].sm \in Int
      BY <2>2, Shape, OffsetsFacts
    <3> DEFINE e == E[l - 1]
               o == O[l - 1]
               sm == d.dim[l].sm
    <3>4. o[k % e] + (k \div e) * sm = o[k]
      <4>1. e \in Nat /\ k \in Nat /\ k < e /\ o \in [Nat -> Int] /\ sm \in Int
        BY <2>5, <3>1, <3>3
      <4> HIDE DEF e, o, sm
      <4>2. k \div e = 0 /\ k % e = k
        BY <4>1, SmallDividend
      <4>3. o[k] \in Int /\ 0 * sm = 0
        BY <4>1
      <4>4. QED
        BY <4>2, <4>3
    <3>6. O[l][k] = O[l - 1][k]
      BY <3>2, <3>4
    <3>7. QED
      BY <2>3, <3>6
  <2>9. QED
    BY <2>7, <2>8
<1>5. T = {}
  <2> HIDE DEF T
  <2>1. QED
    BY <1>2, <1>4, Least
<1>6. Same(m)
  <2> HIDE DEF Same
  <2>1. QED
    BY <1>5
<1>7. QED
  BY <1>6

-----------------------------------------------------------------------------
(* The datatypes *)

\* The displacements of n elements of F units each, the elements at the offsets
\* g and the units of an element ext apart.
Units(n, g, ext, F) ==
  [u \in 1 .. F * n |-> g[(u - 1) \div F] + ((u - 1) % F) * ext]

\* One element: the units the base datatype selects.
LEMMA OneElement ==
  ASSUME NEW F \in Nat \ {0}, NEW ext \in Int, NEW s,
         NEW g, g = [k \in Nat |-> 0],
         NEW t, t = [size |-> s, map |-> << 0 >>, lb |-> 0, extent |-> ext]
  PROVE  /\ F = 1 => t.map = Units(1, g, ext, F)
         /\ Type_contiguous(F, t).map = Units(1, g, ext, F)
<1>1. Len(t.map) = 1 /\ t.map[1] = 0 /\ t.extent = ext
  OBVIOUS
<1>2. F * 1 = F
  OBVIOUS
<1>3. ASSUME NEW u \in 1 .. F
      PROVE  /\ g[(u - 1) \div F] = 0 /\ (u - 1) % F = u - 1
             /\ (u - 1) % 1 = 0 /\ (u - 1) \div 1 = u - 1
  <2> DEFINE x == u - 1
  <2>1. x \in Nat /\ x < F
    OBVIOUS
  <2> HIDE DEF x
  <2>2. x \div F = 0 /\ x % F = x
    BY <2>1, SmallDividend
  <2>3. x % 1 = 0 /\ x \div 1 = x
    BY <2>1
  <2>4. g[x \div F] = 0
    BY <2>2
  <2>5. QED
    BY <2>2, <2>3, <2>4 DEF x
<1>4. Units(1, g, ext, F) = [u \in 1 .. F |-> (u - 1) * ext]
  <2>1. Units(1, g, ext, F) = [u \in 1 .. F |-> g[(u - 1) \div F] + ((u - 1) % F) * ext]
    BY <1>2 DEF Units
  <2>2. ASSUME NEW u \in 1 .. F
        PROVE  g[(u - 1) \div F] + ((u - 1) % F) * ext = (u - 1) * ext
    BY <1>3
  <2>3. QED
    BY <2>1, <2>2
<1>5. Type_contiguous(F, t).map = [u \in 1 .. F |-> (u - 1) * ext]
  <2>1. Type_contiguous(F, t).map
          = [u \in 1 .. F |-> t.map[((u - 1) % 1) + 1] + ((u - 1) \div 1) * ext]
    BY <1>1, <1>2 DEF Type_contiguous, Replicate
  <2>2. ASSUME NEW u \in 1 .. F
        PROVE  t.map[((u - 1) % 1) + 1] + ((u - 1) \div 1) * ext = (u - 1) * ext
    BY <1>1, <1>3
  <2>3. QED
    BY <2>1, <2>2
<1>6. F = 1 => t.map = [u \in 1 .. F |-> (u - 1) * ext]
  <2>1. [u \in 1 .. 1 |-> (u - 1) * ext] = <<0>>
    OBVIOUS
  <2>2. QED
    BY <2>1
<1>7. QED
  BY <1>4, <1>5, <1>6

\* The offsets h of a dimension with stride sm over the E elements at g below it.
Stacked(h, g, E, sm) == \A k \in Nat : h[k] = g[k % E] + (k \div E) * sm

\* The same with a name for the number of units.
LEMMA LevelSplits ==
  ASSUME NEW x \in Nat, NEW F \in Nat \ {0}, NEW E \in Nat \ {0}, NEW L, L = F * E
  PROVE  /\ L \in Nat \ {0} /\ Split(x, x % L, x \div L, F, E)
         /\ x % L \in 0 .. L - 1 /\ x \div L \in Nat
<1>1. Splits(x, L, F, E)
  BY NestedDivision
<1>2. \A l \in Nat \ {0} : x % l \in 0 .. l - 1 /\ x \div l \in Nat
  BY DivType
<1>3. QED
  BY <1>1, <1>2 DEF Splits

\* Its place in replica b is its place in the level.
Placed(x, y, b, F, ext, sm, g, h) ==
  (g[y \div F] + (y % F) * ext) + b * sm = h[x \div F] + (x % F) * ext

\* Where a unit of a level is: by its replica and its place in the replica, and by
\* its element and its place in the element.
LEMMA UnitPlace ==
  ASSUME NEW F \in Nat \ {0}, NEW E \in Nat \ {0}, NEW ext \in Int, NEW sm \in Int,
         NEW g \in [Nat -> Int], NEW h \in [Nat -> Int], Stacked(h, g, E, sm),
         NEW x \in Nat, NEW y \in Nat, NEW b \in Nat, Split(x, y, b, F, E)
  PROVE  Placed(x, y, b, F, ext, sm, g, h)
<1> DEFINE k == x \div F
           r == x % F
           e == k % E
<1>1. k \in Nat /\ r \in Nat
  BY DivType
<1>2. y \div F = e /\ y % F = r /\ b = k \div E
  BY DEF Split
<1> HIDE DEF k, r
<1>3. e \in Nat /\ b \in Nat
  BY <1>1, <1>2, DivType
<1>4. h[k] = g[e] + b * sm
  BY <1>1, <1>2 DEF Stacked
<1> HIDE DEF e
<1>5. g[e] \in Int /\ r * ext \in Int /\ b * sm \in Int
  BY <1>1, <1>3
<1>6. (g[e] + r * ext) + b * sm = h[k] + r * ext
  BY <1>4, <1>5
<1>7. QED
  BY <1>2, <1>6 DEF k, r, Placed

\* What a level is built from: n replicas of t, which selects E elements; the new
\* offsets are h and the number of elements is m.
Stackable(n, m, E, F, ext, sm, g, h, t) ==
  /\ F \in Nat \ {0} /\ E \in Nat \ {0} /\ ext \in Int /\ sm \in Int /\ n \in Nat
  /\ g \in [Nat -> Int] /\ h \in [Nat -> Int] /\ Stacked(h, g, E, sm)
  /\ t.map = Units(E, g, ext, F) /\ m = n * E

\* A level: n replicas, sm apart, of E elements are n * E elements.
LEMMA OneLevel ==
  ASSUME NEW n, NEW m, NEW E, NEW F, NEW ext, NEW sm, NEW g, NEW h, NEW t,
         Stackable(n, m, E, F, ext, sm, g, h, t)
  PROVE  Replicate(n, sm, t).map = Units(m, h, ext, F)
<1>0. /\ F \in Nat \ {0} /\ E \in Nat \ {0} /\ ext \in Int /\ sm \in Int /\ n \in Nat
      /\ g \in [Nat -> Int] /\ h \in [Nat -> Int] /\ Stacked(h, g, E, sm)
      /\ t.map = Units(E, g, ext, F) /\ m = n * E
  BY DEF Stackable
<1> USE <1>0
<1> DEFINE L == F * E
<1>1. L \in Nat \ {0} /\ n * L = F * m
  OBVIOUS
<1>2. Len(t.map) = L /\ \A u \in 1 .. L : t.map[u] = g[(u - 1) \div F] + ((u - 1) % F) * ext
  BY <1>1 DEF Units
<1>3. Replicate(n, sm, t).map
        = [u \in 1 .. n * L |-> t.map[((u - 1) % L) + 1] + ((u - 1) \div L) * sm]
  <2> HIDE DEF L
  <2>1. QED
    BY <1>2 DEF Replicate
<1>4. ASSUME NEW u \in 1 .. n * L
      PROVE  t.map[((u - 1) % L) + 1] + ((u - 1) \div L) * sm
               = h[(u - 1) \div F] + ((u - 1) % F) * ext
  <2> DEFINE x == u - 1
  <2>1. x \in Nat
    BY <1>1
  <2> HIDE DEF x
  <2> DEFINE y == x % L
             b == x \div L
  <2>2. y \in 0 .. L - 1 /\ b \in Nat /\ Split(x, y, b, F, E)
    <3>1. L = F * E
      OBVIOUS
    <3> HIDE DEF L
    <3>2. QED
      BY <2>1, <3>1, LevelSplits
  <2> HIDE DEF L, y, b
  <2>3. y + 1 \in 1 .. L /\ (y + 1) - 1 = y /\ y \in Nat
    BY <1>1, <2>2
  <2>4. Placed(x, y, b, F, ext, sm, g, h)
    BY <2>1, <2>2, <2>3, UnitPlace
  <2>5. t.map[y + 1] = g[y \div F] + (y % F) * ext
    BY <1>2, <2>3
  <2>6. QED
    BY <2>4, <2>5 DEF Placed, x, y, b
<1>5. QED
  <2> HIDE DEF L
  <2>1. Units(m, h, ext, F)
          = [u \in 1 .. n * L |-> h[(u - 1) \div F] + ((u - 1) % F) * ext]
    BY <1>1 DEF Units
  <2>2. QED
    BY <1>3, <1>4, <2>1

\* The displacements are numbers.
LEMMA UnitsType ==
  ASSUME NEW F \in Nat \ {0}, NEW n \in Nat, NEW g \in [Nat -> Int], NEW ext \in Int
  PROVE  Units(n, g, ext, F) \in Seq(Int)
<1> DEFINE N == F * n
<1>1. N \in Nat
  OBVIOUS
<1>2. ASSUME NEW u \in 1 .. N PROVE g[(u - 1) \div F] + ((u - 1) % F) * ext \in Int
  <2> DEFINE x == u - 1
  <2>1. x \in Nat
    BY <1>1
  <2> HIDE DEF x
  <2>2. x \div F \in Nat /\ x % F \in Nat
    BY <2>1, DivType
  <2>3. g[x \div F] \in Int /\ (x % F) * ext \in Int
    BY <2>2
  <2>4. QED
    BY <2>3 DEF x
<1>3. Units(n, g, ext, F) = [u \in 1 .. N |-> g[(u - 1) \div F] + ((u - 1) % F) * ext]
  BY DEF Units
<1> HIDE DEF N
<1>4. QED
  BY <1>1, <1>2, <1>3

\* Between its ends, a multiple of a stride lies between the ends' multiples.
LEMMA Multiples ==
  ASSUME NEW m \in Nat, NEW j \in 0 .. m, NEW s \in Int
  PROVE  /\ s >= 0 => 0 <= j * s /\ j * s <= m * s
         /\ s < 0 => m * s <= j * s /\ j * s <= 0
<1>1. ASSUME NEW a \in Nat, NEW b \in Nat PROVE a * b >= 0 /\ a * b \in Nat
  OBVIOUS
<1>2. j \in Nat /\ m - j \in Nat /\ j * s \in Int /\ m * s \in Int /\ (m - j) * s \in Int
  OBVIOUS
<1>3. (m - j) * s = m * s - j * s
  OBVIOUS
<1>4. CASE s >= 0
  <2>1. j * s >= 0 /\ (m - j) * s >= 0
    BY <1>1, <1>2, <1>4
  <2>2. QED
    BY <1>2, <1>3, <1>4, <2>1
<1>5. CASE s < 0
  <2>1. -s \in Nat /\ j * (-s) = -(j * s) /\ (m - j) * (-s) = -((m - j) * s)
    BY <1>5
  <2>2. j * (-s) >= 0 /\ (m - j) * (-s) >= 0
    BY <1>1, <1>2, <2>1
  <2>3. QED
    BY <1>2, <1>3, <1>5, <2>1, <2>2
<1>6. QED
  BY <1>4, <1>5

\* The lower bounds of n replicas, s apart, of a datatype with lower bound b.
Bounds(n, s, b) == {j * s + b : j \in 0 .. n - 1}

\* The least and the greatest of them.
LEMMA LowerBounds ==
  ASSUME NEW n \in Nat \ {0}, NEW s \in Int, NEW b \in Int
  PROVE  /\ s >= 0 => Min(Bounds(n, s, b)) = b /\ Max(Bounds(n, s, b)) = (n - 1) * s + b
         /\ s < 0 => Min(Bounds(n, s, b)) = (n - 1) * s + b /\ Max(Bounds(n, s, b)) = b
<1> DEFINE S == Bounds(n, s, b)
<1> DEFINE m == n - 1
           e == m * s + b
<1>1. m \in Nat /\ e \in Int
  OBVIOUS
<1>2. e \in S /\ b \in S
  <2>1. 0 * s + b = b /\ 0 \in 0 .. n - 1 /\ m \in 0 .. n - 1
    OBVIOUS
  <2>2. QED
    BY <2>1 DEF Bounds
<1>3. ASSUME NEW y \in S
      PROVE  /\ y \in Int
             /\ s >= 0 => b <= y /\ y <= e
             /\ s < 0 => e <= y /\ y <= b
  <2>1. PICK j \in 0 .. m : y = j * s + b
    BY DEF Bounds
  <2> HIDE DEF m
  <2>2. j * s \in Int /\ m * s \in Int
    BY <1>1
  <2>3. /\ s >= 0 => 0 <= j * s /\ j * s <= m * s
        /\ s < 0 => m * s <= j * s /\ j * s <= 0
    BY <1>1, Multiples
  <2>4. QED
    BY <2>1, <2>2, <2>3
<1> HIDE DEF e
<1>4. ASSUME NEW x \in S, \A y \in S : x <= y PROVE Min(S) = x
  <2>1. Min(S) \in S /\ \A y \in S : Min(S) <= y
    BY <1>4 DEF Min
  <2>2. Min(S) <= x /\ x <= Min(S) /\ x \in Int /\ Min(S) \in Int
    BY <1>3, <1>4, <2>1
  <2>3. QED
    BY <2>2
<1>5. ASSUME NEW x \in S, \A y \in S : y <= x PROVE Max(S) = x
  <2>1. \A y \in S : x >= y
    BY <1>5
  <2>2. Max(S) \in S /\ \A y \in S : Max(S) >= y
    BY <2>1 DEF Max
  <2>3. Max(S) >= x /\ x >= Max(S) /\ x \in Int /\ Max(S) \in Int
    BY <1>3, <2>1, <2>2
  <2>4. QED
    BY <2>3
<1>6. s >= 0 => Min(S) = b /\ Max(S) = e
  BY <1>2, <1>3, <1>4, <1>5
<1>7. s < 0 => Min(S) = e /\ Max(S) = b
  BY <1>2, <1>3, <1>4, <1>5
<1>8. QED
  BY <1>6, <1>7 DEF e

\* The bounds of a level are numbers, and where the replicas are laid end to end
\* from 0 they stay so: the extent is that of all of them.
LEMMA LevelBounds ==
  ASSUME NEW n \in Nat, NEW s \in Int, NEW t, t.lb \in Int, t.extent \in Int
  PROVE  /\ Replicate(n, s, t).lb \in Int /\ Replicate(n, s, t).extent \in Int
         /\ t.lb = 0 /\ t.extent = s /\ s >= 0 =>
              Replicate(n, s, t).lb = 0 /\ Replicate(n, s, t).extent = s * n
<1> DEFINE S == Bounds(n, s, t.lb)
<1>1. /\ Replicate(n, s, t).lb = IF n = 0 THEN 0 ELSE Min(S)
      /\ Replicate(n, s, t).extent = IF n = 0 THEN 0 ELSE Max(S) + t.extent - Min(S)
  BY DEF Replicate, Bounds
<1>2. n # 0 => /\ s >= 0 => Min(S) = t.lb /\ Max(S) = (n - 1) * s + t.lb
               /\ s < 0 => Min(S) = (n - 1) * s + t.lb /\ Max(S) = t.lb
  BY LowerBounds
<1> HIDE DEF S
<1>3. (n - 1) * s \in Int /\ (n - 1) * s + s = s * n
  OBVIOUS
<1>4. CASE n = 0
  BY <1>1, <1>4
<1>5. CASE n # 0
  <2>1. Min(S) \in Int /\ Max(S) \in Int
    BY <1>2, <1>3, <1>5
  <2>2. Replicate(n, s, t).lb \in Int /\ Replicate(n, s, t).extent \in Int
    BY <1>1, <1>5, <2>1
  <2>3. ASSUME t.lb = 0, t.extent = s, s >= 0
        PROVE  Replicate(n, s, t).lb = 0 /\ Replicate(n, s, t).extent = s * n
    <3>1. Min(S) = 0 /\ Max(S) = (n - 1) * s
      BY <1>2, <1>3, <1>5, <2>3
    <3>2. QED
      BY <1>1, <1>3, <1>5, <2>3, <3>1
  <2>4. QED
    BY <2>2, <2>3
<1>6. QED
  BY <1>4, <1>5

-----------------------------------------------------------------------------
(* The inductive invariant *)

\* What the walk is given.
Given ==
  /\ cdesc \in Descriptors /\ oldcount \in Nat
  /\ oldtype.size \in Nat /\ oldtype.extent \in Int
  /\ oldtype = [size |-> oldtype.size, map |-> <<0>>, lb |-> 0,
                extent |-> oldtype.extent]

\* Beyond the first step an element is a whole number of oldtype units.
Sized ==
  pc \in {"base", "seed", "level", "commit", "success"} =>
    oldtype.size # 0 /\ cdesc.elem_len % oldtype.size = 0

\* Before the loop the walk stands at its beginning.
Fresh ==
  /\ pc \in {"size", "base"} => cur = oldtype /\ ~owned /\ count = oldcount
  /\ pc = "base" => Factor > 1
  /\ pc \in {"size", "base", "seed"} =>
       /\ elems_per_cur = 1 /\ bytes_per_cur = cdesc.elem_len
       /\ ~dense /\ ~done /\ i = 1

\* From then on count is the number of elements.
Counted ==
  pc \in {"seed", "level", "commit", "success"} => oldcount = Factor * count

\* At most the datatype built so far is live, and only until an error.
Balanced == live = IF owned /\ pc # "error" THEN 1 ELSE 0

\* The datatype built so far selects the elements of the dimensions walked, as
\* many of them as there are, or as count says once it is accounted for; until
\* then count is more than they are.
Selected ==
  /\ pc \in {"seed", "level"} /\ ~done =>
       /\ elems_per_cur = ElementsIn(i - 1)
       /\ cur.map = Units(ElementsIn(i - 1), Offsets(cdesc)[i - 1], oldtype.extent, Factor)
       /\ i > 1 => count > ElementsIn(i - 1)
  /\ pc \in {"level", "commit", "success"} /\ done =>
       /\ i > 1 /\ owned /\ count <= ElementsIn(i - 1)
       /\ cur.map = Units(count, Offsets(cdesc)[i - 1], oldtype.extent, Factor)
  /\ pc \in {"commit", "success"} => done

\* A dense datatype begins at 0 and spans what the dimensions walked span.
Dense ==
  dense /\ ~done => cur.lb = 0 /\ cur.extent = bytes_per_cur /\ bytes_per_cur >= 0

IInv ==
  /\ Given /\ TypeOK /\ Sized /\ Fresh /\ Counted /\ Balanced /\ Selected /\ Dense
  /\ RefusedForAReason

\* A reason to refuse.
Reason ==
  \/ oldtype.size = 0
  \/ cdesc.elem_len % oldtype.size # 0
  \/ oldcount % Factor # 0
  \/ oldcount \div Factor > ElementsIn(Rank)
  \/ \E j \in 1 .. Rank - 1 :
       /\ 0 < ElementsIn(j) /\ ElementsIn(j) < oldcount \div Factor
       /\ (oldcount \div Factor) % ElementsIn(j) # 0

\* Init of CdescWalker satisfies the inductive invariant.
LEMMA InitEstablishes == Init => IInv
<1> SUFFICES ASSUME Init PROVE IInv
  OBVIOUS
<1> USE CdescWalkerAssumption
<1>1. PICK s \in Sizes, e \in Extents :
        oldtype = [size |-> s, map |-> <<0>>, lb |-> 0, extent |-> e]
  BY DEF Init
<1>2. Given
  BY <1>1 DEF Init, Given
<1>3. TypeOK
  <2>1. Rank \in Nat /\ cdesc.elem_len \in Nat
    BY <1>2, Shape DEF Given, Rank
  <2>2. cur = oldtype /\ cur.map = <<0>> /\ cur.lb = 0 /\ cur.extent \in Int
    BY <1>1 DEF Init
  <2>3. <<0>> \in Seq(Int)
    OBVIOUS
  <2>4. owned \in BOOLEAN /\ dense \in BOOLEAN /\ done \in BOOLEAN
    BY DEF Init
  <2>5. count \in Nat /\ elems_per_cur \in Nat /\ bytes_per_cur \in Int /\ live \in Nat
    BY <2>1 DEF Init
  <2>6. pc = "size" /\ i \in 1 .. Rank + 1
    BY <2>1 DEF Init
  <2>7. QED
    BY <2>2, <2>3, <2>4, <2>5, <2>6 DEF TypeOK
<1>4. Sized /\ Fresh /\ Counted /\ Balanced /\ Selected /\ Dense /\ RefusedForAReason
  BY DEF Init, Sized, Fresh, Counted, Balanced, Selected, Dense, RefusedForAReason
<1>5. QED
  BY <1>2, <1>3, <1>4 DEF IInv

\* The input does not change, nor what is defined by it.
LEMMA InputIsFixed ==
  ASSUME cdesc' = cdesc, oldcount' = oldcount, oldtype' = oldtype
  PROVE  (Given' <=> Given) /\ Factor' = Factor /\ Rank' = Rank /\ (Reason' <=> Reason)
<1>1. Factor' = Factor /\ Rank' = Rank
  BY DEF Factor, Rank
<1>2. Given' <=> Given
  BY DEF Given
<1>3. Reason' <=> Reason
  BY <1>1 DEF Reason, ElementsIn
<1>4. QED
  BY <1>1, <1>2, <1>3

\* An element is at least one unit.
LEMMA FactorFacts ==
  ASSUME Given, oldtype.size # 0, cdesc.elem_len % oldtype.size = 0
  PROVE  Factor \in Nat \ {0}
<1> DEFINE a == cdesc.elem_len
           b == oldtype.size
<1>1. a \in Nat \ {0} /\ b \in Nat \ {0} /\ a % b = 0
  BY Shape DEF Given
<1>2. Factor = a \div b
  BY DEF Factor
<1> HIDE DEF a, b
<1>3. a \div b \in Nat /\ a = b * (a \div b) + (a % b)
  BY <1>1, DivMod
<1>4. a \div b # 0
  BY <1>1, <1>3
<1>5. QED
  BY <1>2, <1>3, <1>4

\* An error: the datatype built so far is freed, and there is a reason.
LEMMA FailStep ==
  ASSUME IInv, Fail, pc # "error", refused' \/ Reason
  PROVE  IInv'
<1> USE DEF IInv
<1>1. /\ pc' = "error" /\ live' = IF owned THEN live - 1 ELSE live
      /\ UNCHANGED <<cdesc, oldcount, oldtype, cur, owned, count, elems_per_cur,
                     bytes_per_cur, dense, done, i>>
  BY DEF Fail, input, walk
<1>2. (Given' <=> Given) /\ Factor' = Factor /\ Rank' = Rank /\ (Reason' <=> Reason)
  BY <1>1, InputIsFixed
<1>3. live' = 0
  BY <1>1 DEF Balanced
<1>4. TypeOK'
  BY <1>1, <1>2, <1>3 DEF TypeOK
<1>5. Sized' /\ Fresh' /\ Counted' /\ Selected'
  BY <1>1 DEF Sized, Fresh, Counted, Selected
<1>6. Balanced'
  BY <1>1, <1>3 DEF Balanced
<1>7. Dense'
  BY <1>1 DEF Dense
<1>8. RefusedForAReason'
  BY <1>1, <1>2 DEF RefusedForAReason, Reason
<1>9. QED
  BY <1>2, <1>4, <1>5, <1>6, <1>7, <1>8

\* The sizes divide, or the walk ends here.
LEMMA SizeStep ==
  ASSUME IInv, Size
  PROVE  IInv'
<1> USE DEF IInv
<1>1. CASE oldtype.size <= 0 \/ cdesc.elem_len % oldtype.size # 0
  <2>1. Fail /\ pc # "error"
    BY <1>1 DEF Size, Reject
  <2>2. Reason
    BY <1>1 DEF Reason, Given
  <2>3. QED
    BY <2>1, <2>2, FailStep
<1>2. CASE ~(oldtype.size <= 0 \/ cdesc.elem_len % oldtype.size # 0)
  <2>1. /\ pc = "size" /\ pc' = IF Factor > 1 THEN "base" ELSE "seed"
        /\ UNCHANGED <<cdesc, oldcount, oldtype, cur, owned, count, elems_per_cur,
                       bytes_per_cur, dense, done, i, live, refused>>
    BY <1>2 DEF Size, input, walk
  <2>2. (Given' <=> Given) /\ Factor' = Factor /\ Rank' = Rank
    BY <2>1, InputIsFixed
  <2>3. /\ cur = oldtype /\ ~owned /\ count = oldcount /\ elems_per_cur = 1
        /\ bytes_per_cur = cdesc.elem_len /\ ~dense /\ ~done /\ i = 1
    BY <2>1 DEF Fresh
  <2>4. oldtype.size # 0 /\ cdesc.elem_len % oldtype.size = 0
    BY <1>2 DEF Given
  <2>5. Factor \in Nat \ {0}
    BY <2>4, FactorFacts
  <2>6. TypeOK' /\ Sized' /\ Balanced' /\ Dense' /\ RefusedForAReason'
    <3>1. TypeOK'
      BY <2>1, <2>2 DEF TypeOK
    <3>2. Sized'
      BY <2>1, <2>4 DEF Sized
    <3>3. Balanced' /\ Dense' /\ RefusedForAReason'
      BY <2>1, <2>3 DEF Balanced, Dense, RefusedForAReason
    <3>4. QED
      BY <3>1, <3>2, <3>3
  <2>7. Fresh'
    BY <2>1, <2>2, <2>3 DEF Fresh
  <2>8. Counted'
    BY <2>1, <2>2, <2>3, <2>5 DEF Counted, Given
  <2>9. Selected'
    <3>1. CASE pc' = "base"
      BY <3>1 DEF Selected
    <3>2. CASE pc' = "seed"
      <4>1. Factor = 1
        BY <2>1, <2>5, <3>2
      <4>2. Offsets(cdesc)[0] = [k \in Nat |-> 0] /\ Elements(cdesc)[0] = 1
        BY OffsetsFacts, ElementsFacts DEF Given
      <4>3. cur.map = Units(1, Offsets(cdesc)[0], oldtype.extent, Factor)
        BY <2>3, <2>5, <4>1, <4>2, OneElement DEF Given
      <4>4. i' - 1 = 0
        BY <2>1, <2>3
      <4>5. QED
        BY <2>1, <2>2, <2>3, <3>2, <4>2, <4>3, <4>4 DEF Selected, ElementsIn
    <3>3. QED
      BY <2>1, <3>1, <3>2
  <2>10. QED
    BY <2>2, <2>6, <2>7, <2>8, <2>9
<1>3. QED
  BY <1>1, <1>2

\* The base datatype selects one element.
LEMMA BaseStep ==
  ASSUME IInv, Base
  PROVE  IInv'
<1> USE DEF IInv
<1>0. /\ pc = "base" /\ cur = oldtype /\ ~owned /\ count = oldcount /\ elems_per_cur = 1
      /\ bytes_per_cur = cdesc.elem_len /\ ~dense /\ ~done /\ i = 1
      /\ Factor \in Nat \ {0} /\ oldtype.size # 0 /\ cdesc.elem_len % oldtype.size = 0
  BY FactorFacts DEF Base, Fresh, Sized
<1>1. CASE count % Factor # 0
  <2>1. Fail /\ pc # "error"
    BY <1>1 DEF Base, Reject
  <2>2. Reason
    BY <1>0, <1>1 DEF Reason
  <2>3. QED
    BY <2>1, <2>2, FailStep
<1>2. CASE count % Factor = 0
  <2> DEFINE t == Type_contiguous(Factor, oldtype)
  <2>1. /\ pc' = "seed" /\ count' = count \div Factor /\ cur' = t /\ owned'
        /\ owned' \in BOOLEAN
        /\ live' = IF owned THEN live ELSE live + 1
        /\ UNCHANGED <<cdesc, oldcount, oldtype, elems_per_cur, bytes_per_cur, dense,
                       done, i, refused>>
    BY <1>0, <1>2 DEF Base, Wrap, input
  <2>2. (Given' <=> Given) /\ Factor' = Factor /\ Rank' = Rank
    BY <2>1, InputIsFixed
  <2>3. Offsets(cdesc)[0] = [k \in Nat |-> 0] /\ Elements(cdesc)[0] = 1
    BY OffsetsFacts, ElementsFacts DEF Given
  <2>4. t.map = Units(1, Offsets(cdesc)[0], oldtype.extent, Factor)
    BY <1>0, <2>3, OneElement DEF Given
  <2>5. t.map \in Seq(Int) /\ t.lb \in Int /\ t.extent \in Int
    <3>1. Offsets(cdesc)[0] \in [Nat -> Int]
      BY <2>3
    <3>2. t.map \in Seq(Int)
      BY <1>0, <2>4, <3>1, UnitsType DEF Given
    <3>3. oldtype.lb = 0 /\ oldtype.extent \in Int
      BY DEF Given
    <3>4. t = Replicate(Factor, oldtype.extent, oldtype)
      BY DEF Type_contiguous
    <3> HIDE DEF t
    <3>5. t.lb \in Int /\ t.extent \in Int
      BY <1>0, <3>3, <3>4, LevelBounds
    <3>6. QED
      BY <3>2, <3>5
  <2> HIDE DEF t
  <2>6. count' \in Nat /\ oldcount = Factor * count'
    <3>1. count \in Nat /\ count = Factor * (count \div Factor) + (count % Factor)
                       /\ count \div Factor \in Nat
      BY <1>0, DivMod DEF Given
    <3>2. QED
      BY <1>0, <1>2, <2>1, <3>1
  <2>7. live' = 1
    BY <1>0, <2>1 DEF Balanced
  <2>8. TypeOK'
    BY <2>1, <2>2, <2>5, <2>6, <2>7 DEF TypeOK
  <2>9. Sized'
    BY <1>0, <2>1 DEF Sized
  <2>10. Fresh'
    BY <1>0, <2>1 DEF Fresh
  <2>11. Counted'
    BY <2>1, <2>2, <2>6 DEF Counted
  <2>12. Balanced' /\ Dense' /\ RefusedForAReason'
    BY <1>0, <2>1, <2>7 DEF Balanced, Dense, RefusedForAReason
  <2>13. Selected'
    <3>1. i' - 1 = 0
      BY <1>0, <2>1
    <3>2. QED
      BY <1>0, <2>1, <2>2, <2>3, <2>4, <3>1 DEF Selected, ElementsIn
  <2>14. QED
    BY <2>2, <2>8, <2>9, <2>10, <2>11, <2>12, <2>13
<1>3. QED
  BY <1>1, <1>2

\* dense is seeded from the base datatype's bounds.
LEMMA SeedStep ==
  ASSUME IInv, Seed
  PROVE  IInv'
<1> USE DEF IInv
<1>1. /\ pc = "seed" /\ pc' = "level" /\ dense' = (cur.lb = 0 /\ cur.extent = bytes_per_cur)
      /\ UNCHANGED <<cdesc, oldcount, oldtype, cur, owned, count, elems_per_cur,
                     bytes_per_cur, done, i, live, refused>>
  BY DEF Seed, input
<1>2. (Given' <=> Given) /\ Factor' = Factor /\ Rank' = Rank
  BY <1>1, InputIsFixed
<1>3. bytes_per_cur = cdesc.elem_len /\ cdesc.elem_len \in Nat /\ ~done
  BY <1>1, Shape DEF Fresh, Given
<1>4. TypeOK'
  <2>1. dense' \in BOOLEAN
    BY <1>1
  <2>2. QED
    BY <1>1, <1>2, <2>1 DEF TypeOK
<1>5. Sized' /\ Fresh' /\ Balanced' /\ RefusedForAReason'
  BY <1>1 DEF Sized, Fresh, Balanced, RefusedForAReason
<1>6. Counted'
  BY <1>1, <1>2 DEF Counted
<1>7. Selected'
  <2>1. i = 1 /\ i' = 1
    BY <1>1 DEF Fresh
  <2>2. QED
    BY <1>1, <1>2, <1>3, <2>1 DEF Selected, ElementsIn
<1>8. Dense'
  <2>1. dense' => cur'.lb = 0 /\ cur'.extent = bytes_per_cur'
    BY <1>1
  <2>2. bytes_per_cur' >= 0
    BY <1>1, <1>3
  <2>3. QED
    BY <2>1, <2>2 DEF Dense
<1>9. QED
  BY <1>2, <1>4, <1>5, <1>6, <1>7, <1>8

\* How count compares with the elements a level adds.
LEMMA CountAndLevel ==
  ASSUME NEW n \in Nat, NEW E \in Nat \ {0}, NEW x \in Nat, n % E = 0
  PROVE  /\ n \div E \in Nat /\ (n \div E) * E = n
         /\ n \div E > x => n > E * x
         /\ ~(n \div E > x) => n <= E * x
<1> DEFINE p == n \div E
<1>1. p \in Nat /\ n = E * p + (n % E)
  BY DivMod
<1> HIDE DEF p
<1>2. n = E * p /\ p * E = E * p
  BY <1>1
<1>3. ASSUME p > x PROVE E * x < E * p
  <2>1. p - x \in Nat \ {0} /\ E * (p - x) = E * p - E * x
    BY <1>1, <1>3
  <2>2. E * (p - x) > 0
    BY <2>1
  <2>3. QED
    BY <1>1, <2>1, <2>2
<1>4. ASSUME ~(p > x) PROVE E * p <= E * x
  <2>1. x - p \in Nat /\ E * (x - p) = E * x - E * p
    BY <1>1, <1>4
  <2>2. E * (x - p) >= 0
    BY <2>1
  <2>3. QED
    BY <1>1, <2>1, <2>2
<1>5. QED
  BY <1>1, <1>2, <1>3, <1>4 DEF p

\* At the end of the dimensions, or where they are empty or do not divide count,
\* there is a reason to stop.
LEMMA LevelReason ==
  ASSUME IInv, pc = "level", ~done, i > Rank \/ ~Whole
  PROVE  Reason
<1> USE DEF IInv
<1> DEFINE E == Elements(cdesc)
           F == Factor
<1>1. /\ F \in Nat \ {0} /\ oldcount = F * count /\ count \in Nat
      /\ Rank \in Nat \ {0} /\ i \in 1 .. Rank + 1
      /\ elems_per_cur = E[i - 1] /\ (i > 1 => count > E[i - 1])
      /\ E \in [0 .. Rank -> Nat] /\ E[0] = 1
  BY FactorFacts, Shape, ElementsFacts
     DEF Sized, Counted, TypeOK, Given, Selected, ElementsIn, Rank
<1>2. oldcount \div F = count
  <2> HIDE DEF F
  <2>1. oldcount = F * count + 0 /\ oldcount \in Int /\ 0 \in 0 .. F - 1
    BY <1>1
  <2>2. QED
    BY <1>1, <2>1, DivModUnique
<1>3. CASE count > E[Rank]
  BY <1>2, <1>3 DEF Reason, ElementsIn
<1>4. CASE i > Rank
  <2>1. i - 1 = Rank /\ i > 1
    BY <1>1, <1>4
  <2>2. QED
    BY <1>1, <1>3, <2>1
<1>5. CASE i <= Rank /\ E[i - 1] = 0
  <2>1. i - 1 \in 0 .. Rank /\ Rank \in i - 1 .. Rank /\ i > 1
    BY <1>1, <1>5
  <2>2. E[Rank] = 0
    BY <1>5, <2>1, EmptyStays DEF Given, Rank
  <2>3. count > E[Rank]
    BY <1>1, <1>5, <2>1, <2>2
  <2>4. QED
    BY <1>3, <2>3
<1>6. CASE i <= Rank /\ E[i - 1] # 0
  <2>1. count % E[i - 1] # 0
    BY <1>1, <1>6 DEF Whole
  <2>2. i # 1
    BY <1>1, <2>1
  <2>3. i - 1 \in 1 .. Rank - 1 /\ 0 < E[i - 1] /\ E[i - 1] < count
    BY <1>1, <1>6, <2>2
  <2>4. QED
    BY <1>2, <2>1, <2>3 DEF Reason, ElementsIn
<1>7. QED
  BY <1>1, <1>4, <1>5, <1>6

\* A level is built.
LEMMA LevelBuilt ==
  ASSUME IInv, Level, Whole
  PROVE  IInv'
<1> USE DEF IInv
<1> DEFINE E == elems_per_cur
           x == dim(i).extent
           sm == dim(i).sm
           part == count \div E
           n == IF part > x THEN x ELSE part
           g == Offsets(cdesc)[i - 1]
           h == Offsets(cdesc)[i]
           F == Factor
           ext == oldtype.extent
           t == Replicate(n, sm, cur)
<1>1. /\ pc = "level" /\ i <= Rank /\ ~done /\ pc' = "level"
      /\ cur' = (IF Contiguous(i) THEN Type_contiguous(n, cur)
                                  ELSE Type_create_hvector(n, sm, cur))
      /\ owned' /\ owned' \in BOOLEAN /\ live' = IF owned THEN live ELSE live + 1
      /\ (done' <=> ~(part > x)) /\ done' \in BOOLEAN
      /\ (dense' <=> dense /\ Contiguous(i)) /\ dense' \in BOOLEAN
      /\ elems_per_cur' = E * x /\ bytes_per_cur' = sm * x /\ i' = i + 1
      /\ UNCHANGED <<cdesc, oldcount, oldtype, count, refused>>
  <2>1. pc = "level" /\ i <= Rank /\ ~done
    BY DEF Level
  <2>2. /\ Wrap(IF Contiguous(i) THEN Type_contiguous(n, cur)
                                 ELSE Type_create_hvector(n, sm, cur))
        /\ done' = ~(part > x) /\ dense' = (dense /\ Contiguous(i))
        /\ elems_per_cur' = E * x /\ bytes_per_cur' = sm * x /\ i' = i + 1
        /\ UNCHANGED <<input, pc, count, refused>>
    BY DEF Level, GoesOn, DenseAfter
  <2>3. done' \in BOOLEAN /\ dense' \in BOOLEAN
    BY <2>2
  <2>4. owned' /\ owned' \in BOOLEAN
    BY <2>2 DEF Wrap
  <2>5. QED
    BY <2>1, <2>2, <2>3, <2>4 DEF Wrap, input
<1>2. (Given' <=> Given) /\ Factor' = Factor /\ Rank' = Rank
  BY <1>1, InputIsFixed
<1>3. /\ F \in Nat \ {0} /\ oldcount = F * count /\ count \in Nat /\ ext \in Int
      /\ E \in Nat \ {0} /\ count % E = 0 /\ i \in 1 .. Rank /\ Rank \in Nat
  BY <1>1, FactorFacts, Shape DEF Sized, Counted, TypeOK, Given, Whole, Rank
<1>4. x \in Nat /\ sm \in Int
  BY <1>3, Shape DEF Given, dim, Rank
<1>5. /\ part \in Nat /\ part * E = count
      /\ part > x => count > E * x
      /\ ~(part > x) => count <= E * x
  <2> HIDE DEF E, x
  <2>1. QED
    BY <1>3, <1>4, CountAndLevel
<1>6. /\ E = Elements(cdesc)[i - 1] /\ Elements(cdesc)[i] = E * x
      /\ cur.map = Units(E, g, ext, F)
  BY <1>1, <1>3, ElementsFacts DEF Selected, ElementsIn, Given, Rank, dim
<1>7. g \in [Nat -> Int] /\ h \in [Nat -> Int] /\ Stacked(h, g, E, sm)
  <2>1. i - 1 \in 0 .. Rank /\ i \in 0 .. Rank
    BY <1>3
  <2>2. g \in [Nat -> Int] /\ h \in [Nat -> Int]
    BY <2>1, OffsetsFacts DEF Given, Rank
  <2>3. Elements(cdesc)[i - 1] # 0 /\ Elements(cdesc)[i - 1] = E
    BY <1>3, <1>6
  <2>4. \A k \in Nat : h[k] = g[k % Elements(cdesc)[i - 1]]
                                + (k \div Elements(cdesc)[i - 1]) * sm
    BY <1>3, <2>3, OffsetsFacts DEF Given, Rank, dim
  <2> HIDE DEF E, g, h, sm
  <2>5. \A k \in Nat : h[k] = g[k % E] + (k \div E) * sm
    BY <2>3, <2>4
  <2>6. QED
    BY <2>2, <2>5 DEF Stacked
<1>8. n \in Nat
  BY <1>4, <1>5
<1>9. cur' = t
  <2>1. Contiguous(i) => cur.extent = sm
    BY <1>1 DEF Dense, Contiguous
  <2>2. QED
    BY <1>1, <2>1 DEF Type_contiguous, Type_create_hvector
<1> HIDE DEF E, x, sm, part, g, h, F, ext
<1>10. t.map = Units(n * E, h, ext, F)
  <2> DEFINE m == n * E
  <2> HIDE DEF n
  <2>1. m = n * E
    OBVIOUS
  <2> HIDE DEF m
  <2>2. /\ F \in Nat \ {0} /\ E \in Nat \ {0} /\ ext \in Int /\ sm \in Int /\ n \in Nat
        /\ g \in [Nat -> Int] /\ h \in [Nat -> Int] /\ Stacked(h, g, E, sm)
        /\ cur.map = Units(E, g, ext, F)
    BY <1>3, <1>4, <1>6, <1>7, <1>8
  <2>3. Stackable(n, m, E, F, ext, sm, g, h, cur)
    BY <2>1, <2>2 DEF Stackable
  <2>4. t.map = Units(m, h, ext, F)
    BY <2>3, OneLevel
  <2>5. QED
    BY <2>4 DEF m
<1>11. t.map \in Seq(Int)
  <2>1. n * E \in Nat
    <3> HIDE DEF n
    <3>1. QED
      BY <1>3, <1>8
  <2> HIDE DEF n, t
  <2>2. QED
    BY <1>3, <1>7, <1>10, <2>1, UnitsType
<1>12. /\ t.lb \in Int /\ t.extent \in Int
       /\ cur.lb = 0 /\ cur.extent = sm /\ sm >= 0 => t.lb = 0 /\ t.extent = sm * n
  <2>1. cur.lb \in Int /\ cur.extent \in Int
    BY DEF TypeOK
  <2> HIDE DEF n
  <2>2. QED
    BY <1>4, <1>8, <2>1, LevelBounds
<1> HIDE DEF t
<1>13. live' = 1
  BY <1>1 DEF Balanced
<1>14. elems_per_cur' \in Nat /\ bytes_per_cur' \in Int
  BY <1>1, <1>3, <1>4
<1>15. TypeOK'
  BY <1>1, <1>2, <1>3, <1>9, <1>11, <1>12, <1>13, <1>14 DEF TypeOK
<1>16. Sized' /\ Counted'
  BY <1>1, <1>2 DEF Sized, Counted
<1>17. Fresh' /\ Balanced' /\ RefusedForAReason'
  BY <1>1, <1>13 DEF Fresh, Balanced, RefusedForAReason
<1>18. Selected'
  <2>0. i' - 1 = i /\ i' > 1
    BY <1>1, <1>3
  <2>1. CASE part > x
    <3>1. n * E = Elements(cdesc)[i]
      BY <1>3, <1>4, <1>6, <2>1
    <3>2. cur'.map = Units(Elements(cdesc)[i], h, ext, F)
      BY <1>9, <1>10, <3>1
    <3>3. count > Elements(cdesc)[i] /\ elems_per_cur' = Elements(cdesc)[i]
      BY <1>1, <1>5, <1>6, <2>1
    <3>4. ~done' /\ pc' = "level"
      BY <1>1, <2>1
    <3>5. QED
      BY <1>1, <1>2, <2>0, <3>2, <3>3, <3>4 DEF Selected, ElementsIn, h, ext, F
  <2>2. CASE ~(part > x)
    <3>1. n * E = count
      BY <1>5, <2>2
    <3>2. cur'.map = Units(count, h, ext, F)
      BY <1>9, <1>10, <3>1
    <3>3. count <= Elements(cdesc)[i]
      BY <1>5, <1>6, <2>2
    <3>4. done' /\ pc' = "level" /\ owned'
      BY <1>1, <2>2
    <3>5. QED
      BY <1>1, <1>2, <2>0, <3>2, <3>3, <3>4 DEF Selected, ElementsIn, h, ext, F
  <2>3. QED
    BY <2>1, <2>2
<1>19. Dense'
  <2> SUFFICES ASSUME dense', ~done'
               PROVE  cur'.lb = 0 /\ cur'.extent = bytes_per_cur' /\ bytes_per_cur' >= 0
    BY DEF Dense
  <2>1. part > x /\ n = x
    BY <1>1
  <2>2. dense /\ Contiguous(i)
    BY <1>1
  <2>3. cur.lb = 0 /\ cur.extent = sm /\ sm >= 0
    BY <1>1, <2>2 DEF Dense, Contiguous, sm
  <2>4. t.lb = 0 /\ t.extent = sm * x
    BY <1>12, <2>1, <2>3
  <2>5. sm * x >= 0
    BY <1>4, <2>3
  <2>6. QED
    BY <1>1, <1>9, <2>4, <2>5
<1>20. QED
  BY <1>2, <1>15, <1>16, <1>17, <1>18, <1>19

\* A step that only moves on.
LEMMA MoveStep ==
  ASSUME IInv, UNCHANGED <<input, walk, live, refused>>,
         \/ pc = "level" /\ done /\ pc' = "commit"
         \/ pc = "commit" /\ pc' = "success"
         \/ pc = "level" /\ pc' = "trap"
         \/ pc' = pc
  PROVE  IInv'
<1> USE DEF IInv
<1>1. UNCHANGED <<cdesc, oldcount, oldtype, cur, owned, count, elems_per_cur,
                  bytes_per_cur, dense, done, i, live, refused>>
  BY DEF input, walk
<1>2. (Given' <=> Given) /\ Factor' = Factor /\ Rank' = Rank /\ (Reason' <=> Reason)
  BY <1>1, InputIsFixed
<1>3. TypeOK'
  BY <1>1, <1>2 DEF TypeOK
<1>4. Sized' /\ Balanced' /\ Dense'
  BY <1>1 DEF Sized, Balanced, Dense
<1>5. Fresh' /\ Counted'
  BY <1>1, <1>2 DEF Fresh, Counted
<1>6. Selected'
  BY <1>1, <1>2 DEF Selected, ElementsIn
<1>7. RefusedForAReason'
  <2>1. pc = "error" /\ ~refused => Reason
    BY DEF RefusedForAReason, Reason
  <2>2. pc' = "error" => pc = "error"
    OBVIOUS
  <2>3. QED
    BY <1>1, <1>2, <2>1, <2>2 DEF RefusedForAReason, Reason
<1>8. QED
  BY <1>2, <1>3, <1>4, <1>5, <1>6, <1>7

\* The inductive invariant holds in every reachable state.
LEMMA Invariance == Spec => []IInv
<1>1. IInv /\ [Next]_vars => IInv'
  <2> SUFFICES ASSUME IInv, [Next]_vars PROVE IInv'
    OBVIOUS
  <2>1. CASE Size
    BY <2>1, SizeStep
  <2>2. CASE Base
    BY <2>2, BaseStep
  <2>3. CASE Seed
    BY <2>3, SeedStep
  <2>4. CASE Level
    <3>1. CASE Whole
      BY <2>4, <3>1, LevelBuilt
    <3>2. CASE ~Whole
      <4>1. pc = "level" /\ ~done
        BY <2>4 DEF Level
      <4>2. Reason
        BY <3>2, <4>1, LevelReason
      <4>3. \/ Fail
            \/ pc' = "trap" /\ UNCHANGED <<input, walk, live, refused>>
        BY <2>4, <3>2 DEF Level, Reject
      <4>4. QED
        BY <4>1, <4>2, <4>3, FailStep, MoveStep
    <3>3. QED
      BY <3>1, <3>2
  <2>5. CASE LoopEnds
    <3>1. CASE done
      <4>1. pc = "level" /\ pc' = "commit" /\ UNCHANGED <<input, walk, live, refused>>
        BY <2>5, <3>1 DEF LoopEnds
      <4>2. QED
        BY <3>1, <4>1, MoveStep
    <3>2. CASE ~done
      <4>1. pc = "level" /\ i > Rank /\ Fail
        BY <2>5, <3>2 DEF LoopEnds, Reject
      <4>2. QED
        BY <3>2, <4>1, LevelReason, FailStep
    <3>3. QED
      BY <3>1, <3>2
  <2>6. CASE Commit
    <3>1. pc = "commit" /\ pc' = "success" /\ UNCHANGED <<input, walk, live, refused>>
      BY <2>6 DEF Commit
    <3>2. QED
      BY <3>1, MoveStep
  <2>7. CASE MpiFails
    <3>1. Fail /\ refused' /\ pc # "error"
      BY <2>7 DEF MpiFails
    <3>2. QED
      BY <3>1, FailStep
  <2>8. CASE UNCHANGED vars
    <3>1. pc' = pc /\ UNCHANGED <<input, walk, live, refused>>
      BY <2>8 DEF vars
    <3>2. QED
      BY <3>1, MoveStep
  <2>9. QED
    BY <2>1, <2>2, <2>3, <2>4, <2>5, <2>6, <2>7, <2>8 DEF Next
<1>2. QED
  BY InitEstablishes, <1>1, PTL DEF Spec

-----------------------------------------------------------------------------
(* The theorems *)

\* mpif_cdesc_create_datatype frees every intermediate datatype on every path:
\* a success leaves one datatype, the caller's, and an error leaves none.
THEOREM TypesAreBalanced == Spec => []TypesBalanced
<1>1. IInv => TypesBalanced
  BY DEF IInv, TypesBalanced, Balanced, Selected, TypeOK
<1>2. QED
  BY Invariance, <1>1, PTL

\* What the comment in the loop calls the invariant: while dense, the datatype
\* built so far begins at 0 and its extent is the span of the dimensions walked.
THEOREM DenseHasTheExtent == Spec => []DenseMeansExtent
<1>1. IInv => DenseMeansExtent
  BY DEF IInv, DenseMeansExtent, Dense
<1>2. QED
  BY Invariance, <1>1, PTL

\* The walk answers MPI_ERR_ARG only when the sizes do not divide, the count is
\* more than the section holds, or it ends inside a slice beyond the first; a
\* partial innermost row and any whole number of slices are never refused,
\* whatever the rank, the extents and the strides.
THEOREM RefusalsHaveReasons == Spec => []RefusedForAReason
<1>1. IInv => RefusedForAReason
  BY DEF IInv
<1>2. QED
  BY Invariance, <1>1, PTL

\* The first c elements are where they were, and N units are c elements.
Agree(c, N, F, g, h) ==
  /\ F \in Nat \ {0} /\ c \in Nat /\ N = F * c
  /\ \A k \in 0 .. c - 1 : h[k] = g[k]

\* The units of the elements an outer dimension begins with are the first units of
\* the section.
LEMMA UnitsOfTheSection ==
  ASSUME NEW F, NEW c, NEW N, NEW ext, NEW g, NEW h, Agree(c, N, F, g, h)
  PROVE  Units(c, g, ext, F)
           = [u \in 1 .. N |-> h[(u - 1) \div F] + ((u - 1) % F) * ext]
<1> USE DEF Agree
<1>1. Units(c, g, ext, F) = [u \in 1 .. N |-> g[(u - 1) \div F] + ((u - 1) % F) * ext]
  BY DEF Units
<1>2. ASSUME NEW u \in 1 .. N PROVE g[(u - 1) \div F] = h[(u - 1) \div F]
  <2> DEFINE x == u - 1
             q == x \div F
             r == x % F
  <2>1. x \in Nat /\ x < F * c
    BY <1>2
  <2> HIDE DEF x
  <2>2. q \in Nat /\ r \in 0 .. F - 1 /\ x = F * q + r
    BY <2>1, DivMod, DivType
  <2> HIDE DEF q, r
  <2>3. q < c
    <3> SUFFICES ASSUME q >= c PROVE FALSE
      BY <2>2
    <3>1. F * (q - c) >= 0 /\ F * (q - c) = F * q - F * c
      BY <2>2
    <3>2. QED
      BY <2>1, <2>2, <3>1
  <2>4. g[q] = h[q]
    BY <2>2, <2>3
  <2>5. QED
    BY <2>4 DEF q, x
<1>3. QED
  BY <1>1, <1>2

\* The datatype the walk returns for a section selects its data, unit by unit and
\* in array element order, for every rank, shape, stride, element length, count
\* and extent of oldtype.
THEOREM WalkSelectsTheSection == Spec => []SelectsTheSection
<1>1. IInv => SelectsTheSection
  <2> SUFFICES ASSUME IInv, pc = "success"
               PROVE  \/ Holds /\ cur.map = Section
                      \/ ~Holds /\ ElementsIn(Rank) = 0
    BY DEF SelectsTheSection
  <2> USE DEF IInv
  <2> DEFINE F == Factor
             ext == oldtype.extent
             E == Elements(cdesc)
             g == Offsets(cdesc)[i - 1]
             h == Offsets(cdesc)[Rank]
  <2>1. /\ F \in Nat \ {0} /\ oldcount = F * count /\ count \in Nat /\ ext \in Int
        /\ i \in 2 .. Rank + 1 /\ count <= E[i - 1] /\ cur.map = Units(count, g, ext, F)
    BY FactorFacts DEF Sized, Counted, Given, TypeOK, Selected, ElementsIn
  <2>2. /\ Rank \in Nat /\ i - 1 \in 0 .. Rank /\ Rank \in i - 1 .. Rank
        /\ E[i - 1] \in Nat /\ E[Rank] \in Nat
    <3>1. cdesc \in Descriptors
      BY DEF Given
    <3>2. Rank \in Nat \ {0} /\ E \in [0 .. Rank -> Nat]
      BY <3>1, Shape, ElementsFacts DEF Rank
    <3> HIDE DEF E
    <3>3. Rank \in Nat /\ i - 1 \in 0 .. Rank /\ Rank \in i - 1 .. Rank /\ Rank \in 0 .. Rank
      BY <2>1, <3>2
    <3>4. QED
      BY <3>2, <3>3
  <2>3. E[Rank] # 0 =>
          E[i - 1] <= E[Rank] /\ \A k \in 0 .. E[i - 1] - 1 : h[k] = g[k]
    BY <2>2, OuterDimensions DEF Given, Rank
  <2>4. (Holds <=> oldcount <= F * E[Rank]) /\ ElementsIn(Rank) = E[Rank]
        /\ Section = [u \in 1 .. oldcount |-> h[(u - 1) \div F] + ((u - 1) % F) * ext]
    BY DEF Holds, ElementsIn, Section
  <2> HIDE DEF F, ext, E, g, h
  <2>5. CASE count = 0 \/ E[Rank] # 0
    <3>1. \A k \in 0 .. count - 1 : h[k] = g[k]
      BY <2>1, <2>2, <2>3, <2>5
    <3>2. cur.map = Section
      <4>1. Agree(count, oldcount, F, g, h)
        BY <2>1, <3>1 DEF Agree
      <4>2. Units(count, g, ext, F)
              = [u \in 1 .. oldcount |-> h[(u - 1) \div F] + ((u - 1) % F) * ext]
        BY <4>1, UnitsOfTheSection
      <4>3. QED
        BY <2>1, <2>4, <4>2
    <3>3. count <= E[Rank]
      BY <2>1, <2>2, <2>3, <2>5
    <3>4. F * count <= F * E[Rank]
      <4>1. \A e \in Nat : count <= e => F * count <= F * e
        BY <2>1
      <4>2. QED
        BY <2>2, <3>3, <4>1
    <3>5. QED
      BY <2>1, <2>4, <3>2, <3>4
  <2>6. CASE count # 0 /\ E[Rank] = 0
    <3>1. F * count > 0 /\ F * 0 = 0
      BY <2>1, <2>6
    <3>2. QED
      BY <2>1, <2>4, <2>6, <3>1
  <2>7. QED
    BY <2>5, <2>6
<1>2. QED
  BY Invariance, <1>1, PTL
=============================================================================
