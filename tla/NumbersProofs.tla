--------------------------- MODULE NumbersProofs ---------------------------
(***************************************************************************)
(* Lemmas about the numbers of Values, for all widths: powers of two, the  *)
(* grids of floating-point numbers, rounding.                              *)
(*                                                                         *)
(* Induction is over sets of natural numbers: the provers cannot           *)
(* instantiate a theorem about an operator, but they can one about a set.  *)
(***************************************************************************)
EXTENDS Values, TLAPS, WellFoundedInduction

\* A set of natural numbers has a least element.
LEMMA LeastElement ==
  ASSUME NEW S \in SUBSET Nat, S # {}
  PROVE  \E m \in S : \A k \in S : m <= k
  <1> DEFINE R == {ss \in Nat \X Nat : ss[1] < ss[2]}
  <1>1. IsWellFoundedOn(R, Nat)
    BY NatLessThanWellFounded DEF OpToRel
  <1>2. PICK m \in S : \A k \in S : <<k, m>> \notin R
    <2> HIDE DEF R
    <2>1. QED
      BY <1>1, WFMin
  <1>3. \A k \in S : ~(k < m)
    <2>1. \A k \in S : <<k, m>> \in Nat \X Nat /\ <<k, m>>[1] = k /\ <<k, m>>[2] = m
      OBVIOUS
    <2>2. \A k \in S : k < m => <<k, m>> \in R
      BY <2>1
    <2>3. QED
      BY <1>2, <2>2
  <1>4. m \in Nat /\ S \subseteq Nat
    OBVIOUS
  <1>5. QED
    BY <1>3, <1>4

\* Induction.
LEMMA SetInduction ==
  ASSUME NEW S \in SUBSET Nat, 0 \in S, \A n \in S : n + 1 \in S
  PROVE  S = Nat
  <1> SUFFICES ASSUME Nat \ S # {} PROVE FALSE
    OBVIOUS
  <1>1. PICK m \in Nat \ S : \A k \in Nat \ S : m <= k
    BY LeastElement
  <1>2. m # 0 /\ m - 1 \in Nat /\ ~(m <= m - 1) /\ (m - 1) + 1 = m
    BY <1>1
  <1>3. m - 1 \in S
    BY <1>1, <1>2
  <1>4. QED
    BY <1>1, <1>2, <1>3

-----------------------------------------------------------------------------
\* Powers of two.  The recursive definition has a solution: up to every n, so
\* for all of them.
Doubling(f, n) ==
  /\ f \in [0..n -> Nat]
  /\ f[0] = 1
  /\ \A k \in 0..n : k # 0 => f[k] = 2 * f[k - 1]

\* There is one, for every length.
LEMMA DoublingExists == \A n \in Nat : \E f : Doubling(f, n)
  <1> DEFINE S == {n \in Nat : \E f : Doubling(f, n)}
  <1>1. 0 \in S
    <2>1. Doubling([k \in 0..0 |-> 1], 0)
      BY DEF Doubling
    <2>2. QED
      BY <2>1
  <1>2. ASSUME NEW n \in S PROVE n + 1 \in S
    <2>1. PICK f : Doubling(f, n)
      OBVIOUS
    <2> DEFINE g == [k \in 0..(n + 1) |-> IF k = n + 1 THEN 2 * f[n] ELSE f[k]]
    <2>2. n \in Nat /\ n \in 0..n /\ f[n] \in Nat
      BY <2>1 DEF Doubling
    <2>3. g \in [0..(n + 1) -> Nat] /\ g[0] = 1
      BY <2>1, <2>2 DEF Doubling
    <2>4. ASSUME NEW k \in 0..(n + 1), k # 0 PROVE g[k] = 2 * g[k - 1]
      <3>1. CASE k = n + 1
        BY <2>2, <3>1
      <3>2. CASE k # n + 1
        <4>1. k \in 0..n /\ k - 1 \in 0..n /\ k - 1 # n + 1
          BY <2>2, <2>4, <3>2
        <4>2. QED
          BY <2>1, <2>4, <3>2, <4>1 DEF Doubling
      <3>3. QED
        BY <3>1, <3>2
    <2>5. Doubling(g, n + 1)
      BY <2>3, <2>4 DEF Doubling
    <2>6. QED
      BY <2>2, <2>5
  <1>3. S = Nat
    <2> HIDE DEF S
    <2>1. S \in SUBSET Nat
      BY DEF S
    <2>2. QED
      BY <1>1, <1>2, <2>1, SetInduction
  <1>4. QED
    BY <1>3

\* Two of them agree as far as both go.
LEMMA DoublingUnique ==
  ASSUME NEW m \in Nat, NEW n \in Nat, m <= n, NEW f, NEW g, Doubling(f, m), Doubling(g, n)
  PROVE  f[m] = g[m]
  <1> DEFINE S == {k \in Nat : k <= m => f[k] = g[k]}
  <1>1. 0 \in S
    BY DEF Doubling
  <1>2. ASSUME NEW k \in S PROVE k + 1 \in S
    <2> SUFFICES ASSUME k + 1 <= m PROVE f[k + 1] = g[k + 1]
      OBVIOUS
    <2>1. /\ k \in Nat /\ f[k] = g[k] /\ k + 1 \in 0..m /\ k + 1 \in 0..n
          /\ k + 1 # 0 /\ (k + 1) - 1 = k
      OBVIOUS
    <2>2. QED
      BY <2>1 DEF Doubling
  <1>3. S = Nat
    <2> HIDE DEF S
    <2>1. S \in SUBSET Nat
      BY DEF S
    <2>2. QED
      BY <1>1, <1>2, <2>1, SetInduction
  <1>4. QED
    BY <1>3

\* The recursive definition of Pow2 defines it.
LEMMA Pow2Def == Pow2 = [n \in Nat |-> IF n = 0 THEN 1 ELSE 2 * Pow2[n - 1]]
  <1> DEFINE upTo(n) == CHOOSE f : Doubling(f, n)
             pow == [n \in Nat |-> upTo(n)[n]]
  <1>1. ASSUME NEW n \in Nat PROVE Doubling(upTo(n), n)
    BY DoublingExists
  <1>2. ASSUME NEW n \in Nat PROVE pow[n] = IF n = 0 THEN 1 ELSE 2 * pow[n - 1]
    <2>1. CASE n = 0
      <3>1. upTo(0)[0] = 1
        BY <1>1 DEF Doubling
      <3>2. QED
        BY <2>1, <3>1
    <2>2. CASE n # 0
      <3>1. n - 1 \in Nat /\ n - 1 <= n /\ n \in 0..n
        BY <2>2
      <3>2. upTo(n)[n] = 2 * upTo(n)[n - 1]
        <4> HIDE DEF upTo
        <4>1. QED
          BY <1>1, <2>2, <3>1 DEF Doubling
      <3>3. upTo(n - 1)[n - 1] = upTo(n)[n - 1]
        <4> HIDE DEF upTo
        <4>1. QED
          BY <1>1, <3>1, DoublingUnique
      <3>4. QED
        BY <2>2, <3>1, <3>2, <3>3
    <2>3. QED
      BY <2>1, <2>2
  <1>3. pow = [n \in Nat |-> IF n = 0 THEN 1 ELSE 2 * pow[n - 1]]
    <2>1. pow = [n \in Nat |-> pow[n]]
      OBVIOUS
    <2> HIDE DEF pow
    <2>2. QED
      BY <1>2, <2>1
  <1>4. \E f : f = [n \in Nat |-> IF n = 0 THEN 1 ELSE 2 * f[n - 1]]
    <2> HIDE DEF pow
    <2>1. QED
      BY <1>3
  <1>5. QED
    BY <1>4 DEF Pow2

\* What is used of it.
LEMMA Pow2Equations ==
  /\ Pow2[0] = 1
  /\ \A n \in Nat : Pow2[n + 1] = 2 * Pow2[n]
  <1>1. \A n \in Nat : Pow2[n] = IF n = 0 THEN 1 ELSE 2 * Pow2[n - 1]
    BY Pow2Def
  <1>2. \A n \in Nat : n + 1 \in Nat /\ n + 1 # 0 /\ (n + 1) - 1 = n
    OBVIOUS
  <1>3. QED
    BY <1>1, <1>2

\* Powers of two are positive.
LEMMA Pow2Type == \A n \in Nat : Pow2[n] \in Nat \ {0}
  <1> DEFINE S == {n \in Nat : Pow2[n] \in Nat \ {0}}
  <1>1. 0 \in S /\ \A n \in S : n + 1 \in S
    BY Pow2Equations
  <1>2. S = Nat
    <2> HIDE DEF S
    <2>1. S \in SUBSET Nat
      BY DEF S
    <2>2. QED
      BY <1>1, <2>1, SetInduction
  <1>3. QED
    BY <1>2

\* They grow with their exponents.
LEMMA Pow2Monotone ==
  ASSUME NEW m \in Nat, NEW n \in Nat, m <= n
  PROVE  Pow2[m] <= Pow2[n]
  <1> DEFINE S == {k \in Nat : Pow2[m] <= Pow2[m + k]}
  <1>1. 0 \in S
    BY Pow2Type
  <1>2. ASSUME NEW k \in S PROVE k + 1 \in S
    <2>1. k \in Nat /\ Pow2[m] <= Pow2[m + k]
      OBVIOUS
    <2>2. m + k \in Nat /\ (m + k) + 1 = m + (k + 1)
      BY <2>1
    <2>3. Pow2[m + (k + 1)] = 2 * Pow2[m + k]
      BY <2>2, Pow2Equations
    <2>4. Pow2[m + k] \in Nat /\ Pow2[m] \in Nat
      BY <2>2, Pow2Type
    <2>5. QED
      BY <2>1, <2>3, <2>4
  <1>3. S = Nat
    <2> HIDE DEF S
    <2>1. S \in SUBSET Nat
      BY DEF S
    <2>2. QED
      BY <1>1, <1>2, <2>1, SetInduction
  <1>4. n - m \in Nat /\ m + (n - m) = n
    OBVIOUS
  <1>5. Pow2[m] <= Pow2[m + (n - m)]
    BY <1>3, <1>4
  <1>6. QED
    BY <1>4, <1>5

\* A power but the first is twice another.
LEMMA Pow2Even ==
  ASSUME NEW n \in Nat \ {0}
  PROVE  \E h \in Nat \ {0} : Pow2[n] = 2 * h
  <1>1. n - 1 \in Nat /\ (n - 1) + 1 = n
    OBVIOUS
  <1>2. Pow2[n - 1] \in Nat \ {0} /\ Pow2[n] = 2 * Pow2[n - 1]
    BY <1>1, Pow2Equations, Pow2Type
  <1>3. QED
    BY <1>2

\* What the widths are to one another, as far as the proofs need it.
LEMMA Widths ==
  /\ Pow2[W2] \in Nat /\ Pow2[W4] \in Nat /\ Pow2[W8] \in Nat /\ Pow2[P8] \in Nat
  /\ Pow2[P4] \in Nat /\ Pow2[E8] \in Nat
  /\ 2 <= Pow2[W2] /\ 2 * Pow2[W2] <= Pow2[W4] /\ Pow2[W4] <= Pow2[P8]
  /\ 4 * Pow2[P8] <= Pow2[W8]
  /\ 2 * Pow2[W8] <= Pow2[E8]
  /\ Pow2[P4] <= Pow2[P8]
  /\ Pow2[P8 + 1] = 2 * Pow2[P8] /\ Pow2[W8 + 1] = 2 * Pow2[W8]
  /\ Pow2[W2] % 2 = 0 /\ Pow2[W4] % 2 = 0 /\ Pow2[W8] % 2 = 0 /\ Pow2[P8] % 2 = 0
  <1>1. /\ W2 \in Nat \ {0} /\ W4 \in Nat \ {0} /\ W8 \in Nat \ {0} /\ P4 \in Nat \ {0}
        /\ P8 \in Nat \ {0} /\ E8 \in Nat \ {0}
        /\ W2 + 1 <= W4 /\ W4 <= P8 /\ (P8 + 1) + 1 <= W8 /\ W8 + 1 <= E8 /\ P4 <= P8
    BY ValuesAssumption DEF ValuesAssumption
  <1>2. /\ Pow2[W2 + 1] = 2 * Pow2[W2] /\ Pow2[P8 + 1] = 2 * Pow2[P8]
        /\ Pow2[(P8 + 1) + 1] = 2 * Pow2[P8 + 1] /\ Pow2[W8 + 1] = 2 * Pow2[W8]
    BY <1>1, Pow2Equations
  <1>3. /\ Pow2[W2 + 1] <= Pow2[W4] /\ Pow2[W4] <= Pow2[P8] /\ Pow2[(P8 + 1) + 1] <= Pow2[W8]
        /\ Pow2[W8 + 1] <= Pow2[E8] /\ Pow2[P4] <= Pow2[P8]
    <2>1. W2 + 1 \in Nat /\ (P8 + 1) + 1 \in Nat /\ W8 + 1 \in Nat
      BY <1>1
    <2>2. QED
      BY <1>1, <2>1, Pow2Monotone
  <1>4. /\ \E h \in Nat \ {0} : Pow2[W2] = 2 * h
        /\ \E h \in Nat : Pow2[W4] = 2 * h
        /\ \E h \in Nat : Pow2[W8] = 2 * h
        /\ \E h \in Nat : Pow2[P8] = 2 * h
    BY <1>1, Pow2Even
  <1>5. /\ Pow2[W2] \in Nat /\ Pow2[W4] \in Nat /\ Pow2[W8] \in Nat /\ Pow2[P8] \in Nat
        /\ Pow2[P4] \in Nat /\ Pow2[E8] \in Nat
    BY <1>1, Pow2Type
  <1>6. /\ Pow2[W2] % 2 = 0 /\ Pow2[W4] % 2 = 0 /\ Pow2[W8] % 2 = 0 /\ Pow2[P8] % 2 = 0
        /\ 2 <= Pow2[W2]
    BY <1>4
  <1>7. 4 * Pow2[P8] <= Pow2[W8]
    BY <1>2, <1>3, <1>5
  <1>8. QED
    BY <1>2, <1>3, <1>5, <1>6, <1>7

-----------------------------------------------------------------------------
\* The grids.
LEMMA GridIsInt ==
  ASSUME NEW p \in Nat, NEW e \in Nat
  PROVE  Grid(p, e) \subseteq Int
  <1> SUFFICES ASSUME NEW s \in {-1, 1}, NEW m \in 0..(Pow2[p] - 1), NEW k \in 0..e
               PROVE  s * m * Pow2[k] \in Int
    BY DEF Grid
  <1>1. m \in Int /\ s \in Int /\ Pow2[k] \in Int
    BY Pow2Type
  <1>2. s * m \in Int
    BY <1>1
  <1>3. QED
    BY <1>1, <1>2

\* Every float4 is a float8.
LEMMA FloatsAreDoubles == Floats \subseteq Doubles
  <1>1. P4 \in Nat /\ P8 \in Nat /\ E4 \in Nat /\ E8 \in Nat /\ P4 <= P8 /\ E4 <= E8
    BY ValuesAssumption DEF ValuesAssumption
  <1>2. Pow2[P4] \in Nat /\ Pow2[P8] \in Nat /\ Pow2[P4] <= Pow2[P8]
    BY Widths
  <1>3. 0..(Pow2[P4] - 1) \subseteq 0..(Pow2[P8] - 1) /\ 0..E4 \subseteq 0..E8
    BY <1>1, <1>2
  <1>4. QED
    BY <1>3 DEF Floats, Doubles, Grid

\* Their members are integers, and 0 is among them.
LEMMA GridTypes ==
  /\ Floats \subseteq Int /\ Doubles \subseteq Int
  /\ 0 \in Floats /\ 0 \in Doubles
  <1>1. P4 \in Nat /\ P8 \in Nat /\ E4 \in Nat /\ E8 \in Nat
    BY ValuesAssumption DEF ValuesAssumption
  <1>2. ASSUME NEW p \in Nat, NEW e \in Nat PROVE 0 \in Grid(p, e)
    <2>1. 0 \in 0..(Pow2[p] - 1) /\ 0 \in 0..e /\ Pow2[0] = 1
      BY Pow2Type, Pow2Equations
    <2>2. 0 = 1 * 0 * Pow2[0]
      BY <2>1
    <2>3. QED
      BY <2>1, <2>2 DEF Grid
  <1>3. QED
    BY <1>1, <1>2, GridIsInt DEF Floats, Doubles

\* Whole numbers up to twice 2^P8 are doubles: the safe integers, int2, int4.
LEMMA SafeIsDouble ==
  ASSUME NEW n \in Int, Whole(n), -(2 * Pow2[P8]) < n, n < 2 * Pow2[P8]
  PROVE  n \in Doubles
  <1>1. PICK h \in Int : n = 2 * h
    BY DEF Whole
  <1>2. 1 \in 0..E8 /\ Pow2[1] = 2 /\ Pow2[P8] \in Nat
    <2>1. E8 \in Nat \ {0} /\ Pow2[0 + 1] = 2 * Pow2[0]
      BY ValuesAssumption, Pow2Equations DEF ValuesAssumption
    <2>2. QED
      BY <2>1, Widths, Pow2Equations
  <1>3. CASE h >= 0
    <2>1. h \in 0..(Pow2[P8] - 1) /\ n = 1 * h * Pow2[1]
      BY <1>1, <1>2, <1>3
    <2>2. QED
      BY <1>2, <2>1 DEF Doubles, Grid
  <1>4. CASE h < 0
    <2>1. -h \in 0..(Pow2[P8] - 1) /\ n = (-1) * (-h) * Pow2[1]
      BY <1>1, <1>2, <1>4
    <2>2. QED
      BY <1>2, <2>1 DEF Doubles, Grid
  <1>5. QED
    BY <1>3, <1>4

\* What a double is made of.
LEMMA InDoubles ==
  ASSUME NEW s \in {-1, 1}, NEW m \in 0..(Pow2[P8] - 1), NEW k \in 0..E8
  PROVE  s * m * Pow2[k] \in Doubles
  BY DEF Doubles, Grid

\* There are doubles beyond every number that jsonb has.
LEMMA DoublesReachFar ==
  \E x \in Doubles : 2 * Pow2[W8] + 2 <= x /\ -x \in Doubles
  <1>1. E8 \in 0..E8 /\ 3 \in 0..(Pow2[P8] - 1)
    <2>1. 4 <= Pow2[P8] /\ E8 \in Nat /\ Pow2[P8] \in Nat
      BY Widths, ValuesAssumption DEF ValuesAssumption
    <2>2. QED
      BY <2>1
  <1>2. 1 * 3 * Pow2[E8] \in Doubles /\ (-1) * 3 * Pow2[E8] \in Doubles
    BY <1>1, InDoubles
  <1>3. 2 * Pow2[W8] + 2 <= 3 * Pow2[E8] /\ Pow2[E8] \in Nat
    BY Widths
  <1>4. 1 * 3 * Pow2[E8] = 3 * Pow2[E8] /\ (-1) * 3 * Pow2[E8] = -(3 * Pow2[E8])
    BY <1>3
  <1>5. QED
    BY <1>2, <1>3, <1>4

-----------------------------------------------------------------------------
\* Rounding.
LEMMA DistanceType ==
  ASSUME NEW x \in Int, NEW y \in Int
  PROVE  Distance(x, y) \in Nat /\ (Distance(x, y) = 0 <=> x = y)
  BY DEF Distance

\* Within the range of the grid the result is the nearest there is.
LEMMA RoundedIsNearest ==
  ASSUME NEW grid \in SUBSET Int, NEW n \in Int,
         \E x \in grid : n <= x, \E x \in grid : x <= n
  PROVE  \E x \in grid :
           /\ Rounded(n, grid) = Num(x)
           /\ \A y \in grid : Distance(x, n) <= Distance(y, n)
  <1> DEFINE Nearest(x) == \A y \in grid : Distance(x, n) <= Distance(y, n)
             D == {Distance(y, n) : y \in grid}
  <1>1. D \in SUBSET Nat /\ D # {}
    <2>1. \A y \in grid : y \in Int /\ Distance(y, n) \in Nat
      BY DistanceType
    <2>2. QED
      BY <2>1
  <1>2. PICK d \in D : \A e \in D : d <= e
    <2> HIDE DEF D
    <2>1. QED
      BY <1>1, LeastElement
  <1>3. PICK x \in grid : Distance(x, n) = d
    OBVIOUS
  <1>4. Nearest(x)
    BY <1>2, <1>3
  <1>5. (CHOOSE z \in grid : Nearest(z)) \in grid /\ Nearest(CHOOSE z \in grid : Nearest(z))
    <2> HIDE DEF Nearest
    <2>1. QED
      BY <1>4
  <1>6. Rounded(n, grid) = Num(CHOOSE z \in grid : Nearest(z))
    <2>1. ~(\A z \in grid : z < n) /\ ~(\A z \in grid : n < z)
      <3>1. PICK high \in grid, low \in grid : n <= high /\ low <= n
        OBVIOUS
      <3>2. ~(high < n) /\ ~(n < low)
        BY <3>1
      <3>3. QED
        BY <3>2
    <2>2. QED
      BY <2>1 DEF Rounded
  <1>7. QED
    BY <1>5, <1>6

\* The result is a number of the grid, or infinite.
LEMMA RoundedType ==
  ASSUME NEW grid \in SUBSET Int, NEW n \in Int
  PROVE  Rounded(n, grid) \in {<<"inf", 1>>, <<"inf", -1>>} \cup NumsOf(grid)
  <1>1. CASE \A x \in grid : x < n
    BY <1>1 DEF Rounded
  <1>2. CASE ~(\A x \in grid : x < n) /\ (\A x \in grid : n < x)
    BY <1>2 DEF Rounded
  <1>3. CASE ~(\A x \in grid : x < n) /\ ~(\A x \in grid : n < x)
    <2>1. (\E x \in grid : n <= x) /\ (\E x \in grid : x <= n)
      BY <1>3
    <2>2. \E x \in grid : Rounded(n, grid) = Num(x)
      BY <2>1, RoundedIsNearest
    <2>3. QED
      BY <2>2 DEF NumsOf
  <1>4. QED
    BY <1>1, <1>2, <1>3

\* A number of the grid stays what it is.
LEMMA RoundedExact ==
  ASSUME NEW grid \in SUBSET Int, NEW n \in grid
  PROVE  Rounded(n, grid) = Num(n)
  <1>1. n \in Int /\ n <= n
    OBVIOUS
  <1>2. PICK x \in grid :
          Rounded(n, grid) = Num(x) /\ \A y \in grid : Distance(x, n) <= Distance(y, n)
    BY <1>1, RoundedIsNearest
  <1>3. Distance(x, n) <= Distance(n, n) /\ Distance(x, n) \in Nat /\ Distance(n, n) = 0
    BY <1>1, <1>2, DistanceType
  <1>4. x = n
    BY <1>1, <1>3, DistanceType
  <1>5. QED
    BY <1>2, <1>4

\* `as i64` gives an i64, the number itself if it is one.
LEMMA ClampedType ==
  ASSUME NEW n \in Int, Whole(n)
  PROVE  /\ Clamped(n) \in Int /\ Signed(Clamped(n), W8)
         /\ Signed(n, W8) => Clamped(n) = n
         /\ n >= Pow2[W8] => Clamped(n) = Pow2[W8] - 2
         /\ n < -Pow2[W8] => Clamped(n) = -Pow2[W8]
  <1>1. /\ Pow2[W8] \in Nat /\ 2 <= Pow2[W8] /\ Whole(Pow2[W8] - 2) /\ Whole(-Pow2[W8])
    BY Widths DEF Whole
  <1>2. n < Pow2[W8] => n <= Pow2[W8] - 2
    BY <1>1, Widths DEF Whole
  <1>3. QED
    BY <1>1, <1>2 DEF Clamped, Signed

\* A number that saturates goes to the float nearest to the limit; if that one
\* is a whole number beyond the limit too it saturates again, to the same.
THEOREM SaturationIsStable ==
  ASSUME NEW grid \in {Floats, Doubles}, NEW n \in Int, Whole(n), ~Signed(n, W8),
         NEW x \in Int, Rounded(Clamped(n), grid) = Num(x), Whole(x), ~Signed(x, W8)
  PROVE  Clamped(x) = Clamped(n)
  <1>1. grid \in SUBSET Int /\ 0 \in grid
    BY GridTypes
  <1>2. Pow2[W8] \in Nat /\ 2 <= Pow2[W8]
    BY Widths
  <1> DEFINE c == Clamped(n)
  <1>3. c \in Int
    BY ClampedType
  <1>4. x \in grid /\ ((\E y \in grid : c <= y) /\ (\E y \in grid : y <= c)
                        => Distance(x, c) <= Distance(0, c))
    <2>1. x \in grid
      <3>1. Num(x) \in NumsOf(grid)
        BY <1>1, <1>3, RoundedType DEF Num
      <3>2. QED
        BY <3>1 DEF NumsOf, Num
    <2>2. ASSUME (\E y \in grid : c <= y) /\ (\E y \in grid : y <= c)
          PROVE  Distance(x, c) <= Distance(0, c)
      <3>1. PICK y \in grid :
              Rounded(c, grid) = Num(y) /\ \A z \in grid : Distance(y, c) <= Distance(z, c)
        BY <1>1, <1>3, <2>2, RoundedIsNearest
      <3>2. y = x
        BY <3>1 DEF Num
      <3>3. QED
        BY <1>1, <3>1, <3>2
    <2>3. QED
      BY <2>1, <2>2
  <1>5. (\E y \in grid : c <= y) /\ (\E y \in grid : y <= c)
    <2>1. ASSUME \A y \in grid : y < c PROVE FALSE
      BY <2>1 DEF Rounded, Num
    <2>2. ASSUME \A y \in grid : c < y PROVE FALSE
      BY <1>1, <1>3, <2>1, <2>2 DEF Rounded, Num
    <2>3. QED
      BY <1>1, <1>3, <2>1, <2>2
  <1>6. Distance(x, c) <= Distance(0, c)
    BY <1>4, <1>5
  <1>7. n >= Pow2[W8] \/ n < -Pow2[W8]
    BY <1>2 DEF Signed
  <1>8. x >= Pow2[W8] \/ x < -Pow2[W8]
    BY <1>2 DEF Signed
  <1>9. CASE n >= Pow2[W8]
    <2>1. c = Pow2[W8] - 2
      BY <1>9, ClampedType
    <2>2. x >= Pow2[W8]
      BY <1>2, <1>6, <1>8, <2>1 DEF Distance
    <2>3. QED
      BY <2>1, <2>2, ClampedType
  <1>10. CASE n < -Pow2[W8]
    <2>1. c = -Pow2[W8]
      BY <1>10, ClampedType
    <2>2. x < -Pow2[W8]
      BY <1>2, <1>6, <1>8, <2>1 DEF Distance
    <2>3. QED
      BY <2>1, <2>2, ClampedType
  <1>11. QED
    BY <1>7, <1>9, <1>10

\* jsonb numbers are within the range of doubles.
LEMMA JsonNumberRounds ==
  ASSUME NEW n, Num(n) \in JsonNumbers
  PROVE  n \in Int /\ Rounded(n, Doubles) \in NumsOf(Doubles)
  <1>1. Doubles \in SUBSET Int /\ Pow2[W8 + 1] = 2 * Pow2[W8] /\ Pow2[W8] \in Nat
    BY GridTypes, Widths
  <1>2. n \in Doubles \cup -(Pow2[W8 + 1] + 2)..(Pow2[W8 + 1] + 2)
    BY DEF JsonNumbers, NumsOf, Num
  <1>3. n \in Int
    BY <1>1, <1>2
  <1>4. CASE n \in Doubles
    BY <1>1, <1>4, RoundedExact DEF NumsOf
  <1>5. CASE n \in -(Pow2[W8 + 1] + 2)..(Pow2[W8 + 1] + 2)
    <2>1. PICK far \in Doubles : 2 * Pow2[W8] + 2 <= far /\ -far \in Doubles
      BY DoublesReachFar
    <2>2. n <= far /\ -far <= n
      BY <1>1, <1>5, <2>1
    <2>3. PICK x \in Doubles : Rounded(n, Doubles) = Num(x)
      BY <1>1, <1>3, <2>1, <2>2, RoundedIsNearest
    <2>4. QED
      BY <1>3, <2>3 DEF NumsOf
  <1>6. QED
    BY <1>2, <1>3, <1>4, <1>5
=============================================================================
