--------------------------- MODULE CounterCodecProofs ---------------------------
(***************************************************************************)
(* What a restart makes of a counter, for integers of every width and for  *)
(* floats of every precision.                                              *)
(***************************************************************************)
EXTENDS CounterWalk, Induction

--------------------------------------------------------------------------------
(* Powers of two *)

(* The first powers of two, up to n. *)
Powers(g, n) == \A k \in 0 .. n : g[k] = IF k = 0 THEN 1 ELSE 2 * g[k - 1]

(* The recursion that defines Pow2 has a solution up to every n ... *)
LEMMA PowersExist ==
  ASSUME NEW n \in Nat
  PROVE  \E g : Powers(g, n)
<1> DEFINE S == {k \in Nat : \E g : Powers(g, k)}
<1>1. 0 \in S
  <2>1. Powers([k \in 0 .. 0 |-> 1], 0)
    BY DEF Powers
  <2> QED
    BY <2>1
<1>2. ASSUME NEW k \in Nat, k \in S PROVE k + 1 \in S
  <2>1. PICK g : Powers(g, k)
    BY <1>2
  <2> DEFINE f == [i \in 0 .. k + 1 |-> IF i = k + 1 THEN 2 * g[k] ELSE g[i]]
  <2>2. \A i \in 0 .. k + 1 : f[i] = IF i = 0 THEN 1 ELSE 2 * f[i - 1]
    BY <2>1 DEF Powers
  <2> HIDE DEF f
  <2>3. Powers(f, k + 1)
    BY <2>2 DEF Powers
  <2> QED
    BY <2>3
<1> HIDE DEF S
<1>3. Nat \subseteq S
  BY <1>1, <1>2, SetInduction
<1> QED
  BY <1>3 DEF S

(* ... and one only. *)
LEMMA PowersUnique ==
  ASSUME NEW n \in Nat, NEW m \in Nat, NEW f, NEW g, Powers(f, n), Powers(g, m),
         NEW i \in Nat, i <= n, i <= m
  PROVE  f[i] = g[i]
<1> DEFINE S == {k \in Nat : k <= n /\ k <= m => f[k] = g[k]}
<1>1. 0 \in S
  BY DEF Powers
<1>2. ASSUME NEW k \in Nat, k \in S PROVE k + 1 \in S
  <2>1. SUFFICES ASSUME k + 1 <= n, k + 1 <= m PROVE f[k + 1] = g[k + 1]
    OBVIOUS
  <2>2. f[k + 1] = 2 * f[k] /\ g[k + 1] = 2 * g[k]
    BY <2>1 DEF Powers
  <2> QED
    BY <1>2, <2>1, <2>2
<1> HIDE DEF S
<1>3. Nat \subseteq S
  BY <1>1, <1>2, SetInduction
<1> QED
  BY <1>3 DEF S

LEMMA PowerRecursion ==
  /\ Pow2[0] = 1
  /\ \A n \in Nat : Pow2[n + 1] = 2 * Pow2[n]
<1> DEFINE g(n)    == CHOOSE f : Powers(f, n)
           h       == [n \in Nat |-> g(n)[n]]
           Body(f) == [n \in Nat |-> IF n = 0 THEN 1 ELSE 2 * f[n - 1]]
<1>1. ASSUME NEW n \in Nat PROVE Powers(g(n), n)
  BY PowersExist
<1>2. ASSUME NEW n \in Nat PROVE h[n] = IF n = 0 THEN 1 ELSE 2 * h[n - 1]
  <2>1. \A k \in Nat : h[k] = g(k)[k] /\ Powers(g(k), k)
    BY <1>1
  <2> HIDE DEF g, h
  <2>2. CASE n = 0
    BY <2>1, <2>2 DEF Powers
  <2>3. CASE n # 0
    <3>1. PICK k \in Nat : k = n - 1 /\ k <= n /\ k <= k
      BY <2>3
    <3>2. g(k)[k] = g(n)[k]
      BY <2>1, <3>1, PowersUnique
    <3>3. g(n)[n] = 2 * g(n)[k]
      BY <2>1, <2>3, <3>1 DEF Powers
    <3> QED
      BY <2>1, <2>3, <3>1, <3>2, <3>3
  <2> QED
    BY <2>2, <2>3
<1>3. h = Body(h)
  <2>1. h = [n \in Nat |-> h[n]]
    OBVIOUS
  <2> HIDE DEF h
  <2> QED
    BY <1>2, <2>1
<1> HIDE DEF h
<1>4. Pow2 = Body(Pow2)
  BY <1>3 DEF Pow2
<1>5. \A n \in Nat : Pow2[n] = IF n = 0 THEN 1 ELSE 2 * Pow2[n - 1]
  BY <1>4
<1> QED
  <2>1. Pow2[0] = 1
    BY <1>5
  <2>2. ASSUME NEW n \in Nat PROVE Pow2[n + 1] = 2 * Pow2[n]
    <3>1. n + 1 \in Nat /\ n + 1 # 0 /\ (n + 1) - 1 = n
      OBVIOUS
    <3>2. Pow2[n + 1] = IF n + 1 = 0 THEN 1 ELSE 2 * Pow2[(n + 1) - 1]
      BY <1>5, <3>1, Zenon
    <3> QED
      BY <3>1, <3>2
  <2> QED
    BY <2>1, <2>2

LEMMA PowerType ==
  ASSUME NEW n \in Nat
  PROVE  Pow2[n] \in Nat \ {0} /\ n < Pow2[n]
<1> DEFINE S == {k \in Nat : Pow2[k] \in Nat \ {0} /\ k < Pow2[k]}
<1>1. 0 \in S
  BY PowerRecursion
<1>2. ASSUME NEW k \in Nat, k \in S PROVE k + 1 \in S
  <2>1. Pow2[k + 1] = 2 * Pow2[k]
    BY PowerRecursion
  <2> QED
    BY <1>2, <2>1
<1> HIDE DEF S
<1>3. Nat \subseteq S
  BY <1>1, <1>2, SetInduction
<1> QED
  BY <1>3 DEF S

LEMMA PowerGrows ==
  ASSUME NEW m \in Nat, NEW n \in Nat
  PROVE  /\ m < n => 2 * Pow2[m] <= Pow2[n]
         /\ m <= n => Pow2[m] <= Pow2[n]
         /\ Pow2[m] < Pow2[n] => m < n
<1> DEFINE S == {k \in Nat : \A l \in Nat : l < k => 2 * Pow2[l] <= Pow2[k]}
<1>1. 0 \in S
  OBVIOUS
<1>2. ASSUME NEW k \in Nat, k \in S PROVE k + 1 \in S
  <2>1. Pow2[k + 1] = 2 * Pow2[k] /\ Pow2[k] \in Nat
    BY PowerRecursion, PowerType
  <2>2. ASSUME NEW l \in Nat, l < k + 1 PROVE 2 * Pow2[l] <= Pow2[k + 1]
    <3>1. CASE l = k
      BY <2>1, <3>1
    <3>2. CASE l < k
      <4>1. 2 * Pow2[l] <= Pow2[k] /\ Pow2[l] \in Nat
        BY <1>2, <3>2, PowerType
      <4> QED
        BY <2>1, <4>1
    <3> QED
      BY <2>2, <3>1, <3>2
  <2> QED
    BY <2>2
<1> HIDE DEF S
<1>3. Nat \subseteq S
  BY <1>1, <1>2, SetInduction
<1>4. \A k \in Nat, l \in Nat : l < k => 2 * Pow2[l] <= Pow2[k]
  BY <1>3 DEF S
<1>5. Pow2[m] \in Nat /\ Pow2[n] \in Nat
  BY PowerType
<1> QED
  BY <1>4, <1>5

LEMMA PowerSum ==
  ASSUME NEW m \in Nat, NEW n \in Nat
  PROVE  Pow2[m + n] = Pow2[m] * Pow2[n]
<1> DEFINE S == {k \in Nat : Pow2[m + k] = Pow2[m] * Pow2[k]}
<1>0. Pow2[m] \in Nat
  BY PowerType
<1>1. 0 \in S
  BY <1>0, PowerRecursion
<1>2. ASSUME NEW k \in Nat, k \in S PROVE k + 1 \in S
  <2>1. PICK l \in Nat : l = m + k
    OBVIOUS
  <2>2. Pow2[k + 1] = 2 * Pow2[k] /\ Pow2[l + 1] = 2 * Pow2[l] /\ Pow2[k] \in Nat
    BY PowerRecursion, PowerType
  <2>3. Pow2[m + (k + 1)] = Pow2[l + 1]
    BY <2>1
  <2> QED
    BY <1>0, <1>2, <2>1, <2>2, <2>3
<1> HIDE DEF S
<1>3. Nat \subseteq S
  BY <1>1, <1>2, SetInduction
<1> QED
  BY <1>3 DEF S

(* The half of a power of two. *)
LEMMA PowerHalf ==
  ASSUME NEW n \in Nat \ {0}
  PROVE  n - 1 \in Nat /\ Pow2[n] = 2 * Pow2[n - 1] /\ Pow2[n - 1] \in Nat \ {0}
<1>1. PICK k \in Nat : n = k + 1 /\ n - 1 = k
  OBVIOUS
<1> QED
  BY <1>1, PowerRecursion, PowerType

--------------------------------------------------------------------------------
(* Rounding to a multiple of u, ties to the even one (ParseFloat).         *)

Rounded(a, u) ==
  LET q == a \div u
      r == a % u
  IN  IF 2 * r > u \/ (2 * r = u /\ q % 2 = 1) THEN q + 1 ELSE q

LEMMA Division ==
  ASSUME NEW a \in Nat, NEW u \in Nat \ {0}
  PROVE  /\ a = ((a \div u) * u) + (a % u)
         /\ a \div u \in Nat /\ a % u \in 0 .. u - 1
OBVIOUS

LEMMA DivisionUnique ==
  ASSUME NEW u \in Nat \ {0}, NEW q \in Nat, NEW r \in 0 .. u - 1, NEW a \in Nat,
         a = q * u + r
  PROVE  a \div u = q /\ a % u = r
OBVIOUS

LEMMA Multiples ==
  ASSUME NEW u \in Nat \ {0}, NEW k \in Int, NEW l \in Int
  PROVE  /\ k * u \in Int /\ (k + 1) * u = k * u + u
         /\ k <= l => k * u <= l * u
         /\ k * u < l * u => k < l
OBVIOUS

LEMMA RoundedExact ==
  ASSUME NEW u \in Nat \ {0}, NEW k \in Nat
  PROVE  k * u \in Nat /\ Rounded(k * u, u) = k
<1>1. k * u \in Nat /\ k * u = k * u + 0 /\ 0 \in 0 .. u - 1
  OBVIOUS
<1>2. (k * u) \div u = k /\ (k * u) % u = 0
  BY <1>1, DivisionUnique
<1> QED
  BY <1>1, <1>2 DEF Rounded

(* It is one of the two neighbours, and the nearer one. *)
Between(a, u, q, r) ==
  /\ a = q * u + r
  /\ \/ Rounded(a, u) = q /\ 2 * r <= u
     \/ Rounded(a, u) = q + 1 /\ 2 * r >= u

LEMMA RoundedBetween ==
  ASSUME NEW a \in Nat, NEW u \in Nat \ {0}
  PROVE  \E q \in Nat, r \in 0 .. u - 1 : Between(a, u, q, r)
<1>1. PICK q \in Nat, r \in 0 .. u - 1 : a \div u = q /\ a % u = r /\ a = q * u + r
  BY Division
<1>2. \/ Rounded(a, u) = q /\ 2 * r <= u
      \/ Rounded(a, u) = q + 1 /\ 2 * r >= u
  BY <1>1 DEF Rounded
<1> QED
  BY <1>1, <1>2 DEF Between

LEMMA RoundedType ==
  ASSUME NEW a \in Nat, NEW u \in Nat \ {0}
  PROVE  Rounded(a, u) \in Nat
BY Division DEF Rounded

LEMMA RoundedMonotone ==
  ASSUME NEW a \in Nat, NEW b \in Nat, b = a + 1, NEW u \in Nat \ {0}
  PROVE  Rounded(a, u) <= Rounded(b, u)
<1>1. PICK q \in Nat, r \in 0 .. u - 1 : a \div u = q /\ a % u = r /\ a = q * u + r
  BY Division
<1>2. CASE r + 1 < u
  <2>1. PICK t \in 0 .. u - 1 : t = r + 1 /\ b = q * u + t
    BY <1>1, <1>2
  <2>2. b \div u = q /\ b % u = t
    BY <2>1, DivisionUnique
  <2> QED
    BY <1>1, <2>1, <2>2 DEF Rounded
<1>3. CASE r + 1 = u
  <2>1. PICK t \in Nat, z \in 0 .. u - 1 : t = q + 1 /\ z = 0 /\ b = t * u + z
    BY <1>1, <1>3, Multiples
  <2>2. b \div u = t /\ b % u = z
    <3>1. b = t * u + z
      BY <2>1
    <3> QED
      BY <3>1, DivisionUnique
  <2> QED
    BY <1>1, <2>1, <2>2 DEF Rounded
<1> QED
  BY <1>2, <1>3

--------------------------------------------------------------------------------
(* The floats around a natural number a: the multiples of Pow2[e].         *)

Grid(a, e) ==
  a < Pow2[Precision + e] /\ (e # 0 => Pow2[Precision + (e - 1)] <= a)

Near(a, e) == Rounded(a, Pow2[e]) * Pow2[e]

LEMMA GridPowers ==
  ASSUME NEW e \in Nat
  PROVE  /\ Precision + e \in Nat /\ Pow2[e] \in Nat \ {0} /\ Pow2[Precision] \in Nat \ {0}
         /\ Pow2[Precision + e] = Pow2[Precision] * Pow2[e]
         /\ Precision - 1 \in Nat /\ Pow2[Precision] = 2 * Pow2[Precision - 1]
         /\ Pow2[Precision - 1] \in Nat \ {0}
         /\ e # 0 => /\ e - 1 \in Nat /\ Precision + (e - 1) \in Nat
                     /\ Pow2[Precision + (e - 1)] = Pow2[Precision - 1] * Pow2[e]
                     /\ Pow2[e] = 2 * Pow2[e - 1] /\ Pow2[e - 1] \in Nat \ {0}
<1>1. Precision \in Nat \ {0} /\ Precision \in Nat /\ Precision + e \in Nat
  BY PrecisionAssumption
<1>2. /\ Pow2[e] \in Nat \ {0} /\ Pow2[Precision] \in Nat \ {0}
      /\ Pow2[Precision + e] = Pow2[Precision] * Pow2[e]
  BY <1>1, PowerType, PowerSum
<1>3. /\ Precision - 1 \in Nat /\ Pow2[Precision] = 2 * Pow2[Precision - 1]
      /\ Pow2[Precision - 1] \in Nat \ {0}
  BY <1>1, PowerHalf
<1>4. ASSUME e # 0
      PROVE  /\ e - 1 \in Nat /\ Precision + (e - 1) \in Nat
             /\ Pow2[Precision + (e - 1)] = Pow2[Precision - 1] * Pow2[e]
             /\ Pow2[e] = 2 * Pow2[e - 1] /\ Pow2[e - 1] \in Nat \ {0}
  <2>1. e - 1 \in Nat /\ Pow2[e] = 2 * Pow2[e - 1] /\ Pow2[e - 1] \in Nat \ {0}
    BY <1>4, PowerHalf
  <2>2. PICK p \in Nat : p = Precision - 1
    BY <1>3
  <2>3. Pow2[p + e] = Pow2[p] * Pow2[e] /\ p + e = Precision + (e - 1)
    BY <1>1, <2>2, PowerSum
  <2> QED
    BY <1>1, <2>1, <2>2, <2>3
<1> QED
  BY <1>1, <1>2, <1>3, <1>4

LEMMA GridExists ==
  ASSUME NEW a \in Nat
  PROVE  \E e \in Nat : Grid(a, e)
<1> DEFINE S == {k \in Nat : a < Pow2[Precision + k] => \E e \in Nat : Grid(a, e)}
<1>1. 0 \in S
  BY DEF Grid
<1>2. ASSUME NEW k \in Nat, k \in S PROVE k + 1 \in S
  <2>1. PICK l \in Nat : l = k + 1 /\ l # 0 /\ l - 1 = k
    OBVIOUS
  <2>2. Pow2[Precision + k] \in Nat /\ Pow2[Precision + l] \in Nat
    BY GridPowers, PowerType
  <2>3. CASE a < Pow2[Precision + k]
    BY <1>2, <2>3
  <2>4. CASE Pow2[Precision + k] <= a
    BY <2>1, <2>4 DEF Grid
  <2> QED
    BY <2>2, <2>3, <2>4
<1> HIDE DEF S
<1>3. Nat \subseteq S
  BY <1>1, <1>2, SetInduction
<1>4. a < Pow2[Precision + a]
  <2>1. a < Pow2[a] /\ Pow2[a] \in Nat /\ Precision + a \in Nat /\ a <= Precision + a
    BY PowerType, PrecisionAssumption
  <2>2. Pow2[a] <= Pow2[Precision + a] /\ Pow2[Precision + a] \in Nat
    BY <2>1, PowerGrows, PowerType
  <2> QED
    BY <2>1, <2>2
<1> QED
  BY <1>3, <1>4 DEF S

(* A place beyond the grid of a is beyond a. *)
LEMMA GridBounds ==
  ASSUME NEW a \in Nat, NEW e \in Nat, Grid(a, e), NEW x \in Nat
  PROVE  a < Pow2[Precision + x] <=> e <= x
<1>1. /\ Precision + e \in Nat /\ Precision + x \in Nat
      /\ Pow2[Precision + e] \in Nat /\ Pow2[Precision + x] \in Nat
  BY GridPowers, PowerType
<1>2. CASE e <= x
  <2>1. Precision + e <= Precision + x
    BY <1>2, PrecisionAssumption
  <2>2. Pow2[Precision + e] <= Pow2[Precision + x]
    BY <1>1, <2>1, PowerGrows
  <2> QED
    BY <1>1, <1>2, <2>2 DEF Grid
<1>3. CASE x < e
  <2>1. e - 1 \in Nat /\ Precision + (e - 1) \in Nat /\ e # 0
    BY <1>3, GridPowers
  <2>2. Precision + x <= Precision + (e - 1)
    BY <1>3, PrecisionAssumption
  <2>3. Pow2[Precision + x] <= Pow2[Precision + (e - 1)] /\ Pow2[Precision + (e - 1)] \in Nat
    BY <1>1, <2>1, <2>2, PowerGrows, PowerType
  <2> QED
    BY <1>1, <1>3, <2>1, <2>3 DEF Grid
<1> QED
  BY <1>2, <1>3

LEMMA GridUnique ==
  ASSUME NEW a \in Nat, NEW e \in Nat, NEW f \in Nat, Grid(a, e), Grid(a, f)
  PROVE  e = f
<1>1. e <= f /\ f <= e
  BY GridBounds DEF Grid
<1> QED
  BY <1>1

--------------------------------------------------------------------------------
(* Ulp and ToFloat                                                         *)

LEMMA MagnitudeFacts ==
  ASSUME NEW x \in Int64
  PROVE  /\ x \in Int /\ Magnitude(x) \in Nat /\ Magnitude(x) <= IntMax - IntMin
         /\ IntMax - IntMin \in Nat
BY IntRangeAssumption DEF Int64, Magnitude

LEMMA UlpIs ==
  ASSUME NEW x \in Int64, NEW e \in Nat, Grid(Magnitude(x), e)
  PROVE  Ulp(x) = Pow2[e]
<1> DEFINE a       == Magnitude(x)
           Fits(i) == a < Pow2[Precision + i]
           Width64 == IntMax - IntMin
<1>1. a \in Nat /\ a <= Width64 /\ Width64 \in Nat
  BY MagnitudeFacts
<1>2. \A i \in Nat : Fits(i) <=> e <= i
  BY <1>1, GridBounds
<1>3. Ulp(x) = IF Fits(0) THEN 1 ELSE Pow2[CHOOSE i \in 1 .. Width64 : Fits(i) /\ ~Fits(i - 1)]
  BY DEF Ulp
<1>4. CASE e = 0
  <2>1. Fits(0)
    BY <1>2, <1>4
  <2> HIDE DEF Fits
  <2> QED
    BY <1>3, <1>4, <2>1, PowerRecursion
<1>5. CASE e # 0
  <2>1. e \in 1 .. Width64
    <3>1. Pow2[Precision + (e - 1)] <= a /\ Precision + (e - 1) \in Nat
      BY <1>5, GridPowers DEF Grid
    <3>2. Precision + (e - 1) < Pow2[Precision + (e - 1)] /\ Pow2[Precision + (e - 1)] \in Nat
      BY <3>1, PowerType
    <3>3. e <= Precision + (e - 1)
      BY PrecisionAssumption
    <3> QED
      BY <1>1, <1>5, <3>1, <3>2, <3>3, PrecisionAssumption
  <2>2. ~Fits(0)
    BY <1>2, <1>5
  <2> HIDE DEF Fits, Width64
  <2>3. \A i \in 1 .. Width64 : Fits(i) /\ ~Fits(i - 1) <=> i = e
    <3>1. ASSUME NEW i \in 1 .. Width64 PROVE Fits(i) /\ ~Fits(i - 1) <=> i = e
      <4>1. PICK j \in Nat : j = i - 1
        BY <1>1
      <4>2. i \in Nat
        BY <1>1
      <4>3. (Fits(i) <=> e <= i) /\ (Fits(j) <=> e <= j)
        BY <1>2, <4>1, <4>2
      <4> QED
        BY <4>1, <4>2, <4>3
    <3> QED
      BY <3>1
  <2>4. (CHOOSE i \in 1 .. Width64 : Fits(i) /\ ~Fits(i - 1)) = e
    BY <2>1, <2>3
  <2> QED
    BY <1>3, <2>2, <2>4
<1> QED
  BY <1>4, <1>5

LEMMA ToFloatIs ==
  ASSUME NEW x \in Int64, NEW e \in Nat, Grid(Magnitude(x), e)
  PROVE  ToFloat(x) = IF x < 0 THEN -Near(Magnitude(x), e) ELSE Near(Magnitude(x), e)
BY UlpIs DEF ToFloat, Near, Rounded

--------------------------------------------------------------------------------
(* What Near does to the magnitude of a counter                            *)

LEMMA NearType ==
  ASSUME NEW a \in Nat, NEW e \in Nat, Grid(a, e)
  PROVE  /\ Near(a, e) \in Nat /\ Near(a, e) <= Pow2[Precision + e]
         /\ Rounded(a, Pow2[e]) \in 0 .. Pow2[Precision]
         /\ e = 0 => Near(a, e) = a /\ Rounded(a, Pow2[e]) = a
         /\ e # 0 => Pow2[Precision - 1] <= Rounded(a, Pow2[e])
<1> DEFINE u == Pow2[e]
           P == Pow2[Precision]
           H == Pow2[Precision - 1]
<1>1. /\ u \in Nat \ {0} /\ P \in Nat \ {0} /\ H \in Nat \ {0}
      /\ Pow2[Precision + e] = P * u
      /\ e # 0 => Pow2[Precision + (e - 1)] = H * u
  BY GridPowers
<1>2. a < P * u /\ (e # 0 => H * u <= a)
  BY <1>1 DEF Grid
<1>3. e = 0 => u = 1
  BY PowerRecursion
<1>4. Near(a, e) = Rounded(a, u) * u /\ Pow2[Precision + e] = P * u
  BY <1>1 DEF Near
<1> HIDE DEF u, P, H
<1>0. PICK q \in Nat, r \in 0 .. u - 1 : Between(a, u, q, r)
  BY <1>1, RoundedBetween
<1>5. /\ a = q * u + r
      /\ \/ Rounded(a, u) = q /\ 2 * r <= u
         \/ Rounded(a, u) = q + 1 /\ 2 * r >= u
  BY <1>0 DEF Between
<1>6. q * u \in Int /\ (q + 1) * u = q * u + u /\ (q * u < P * u => q < P)
  BY <1>1, Multiples
<1>7. q < P /\ q + 1 <= P
  BY <1>1, <1>2, <1>5, <1>6
<1>8. Rounded(a, u) \in 0 .. P
  BY <1>1, <1>5, <1>7
<1>9. Rounded(a, u) * u <= P * u /\ Rounded(a, u) * u \in Nat
  BY <1>1, <1>8, Multiples
<1>10. ASSUME e = 0 PROVE Rounded(a, u) * u = a /\ Rounded(a, u) = a
  <2>1. Rounded(a * u, u) = a /\ a * u = a
    BY <1>1, <1>3, <1>10, RoundedExact
  <2> QED
    BY <2>1
<1>11. ASSUME e # 0 PROVE H <= Rounded(a, u)
  <2>1. H * u < (q + 1) * u
    BY <1>1, <1>2, <1>5, <1>6, <1>11
  <2>2. H < q + 1
    BY <1>1, <2>1, Multiples
  <2> QED
    BY <1>1, <1>5, <2>2
<1> QED
  BY <1>4, <1>8, <1>9, <1>10, <1>11 DEF u, P, H

(* A multiple of Pow2[e] that has Pow2[e] as its grid is a float already.  *)
LEMMA NearExact ==
  ASSUME NEW e \in Nat, NEW k \in Nat
  PROVE  k * Pow2[e] \in Nat /\ Near(k * Pow2[e], e) = k * Pow2[e]
BY RoundedExact, PowerType DEF Near

(* Powers of two are floats.                                               *)
LEMMA PowerIsFloat ==
  ASSUME NEW n \in Nat
  PROVE  \E e \in Nat : Grid(Pow2[n], e) /\ Near(Pow2[n], e) = Pow2[n]
<1>0. Pow2[n] \in Nat
  BY PowerType
<1>1. CASE n < Precision
  <2>1. 2 * Pow2[n] <= Pow2[Precision] /\ Pow2[Precision] \in Nat /\ Pow2[n] > 0
    BY <1>1, PowerGrows, PowerType, PrecisionAssumption
  <2>2. Grid(Pow2[n], 0)
    BY <1>0, <2>1, PrecisionAssumption DEF Grid
  <2> QED
    BY <1>0, <2>2, NearType
<1>2. CASE Precision <= n
  <2>1. PICK e \in Nat : e = n - Precision + 1 /\ e # 0
    BY <1>2, PrecisionAssumption
  <2>2. Precision + (e - 1) = n /\ Precision + e = n + 1
    BY <2>1, PrecisionAssumption
  <2>3. Pow2[n + 1] = 2 * Pow2[n] /\ Pow2[n] \in Nat \ {0}
    BY PowerRecursion, PowerType
  <2>4. Grid(Pow2[n], e)
    BY <2>1, <2>2, <2>3 DEF Grid
  <2>5. Pow2[n] = Pow2[Precision - 1] * Pow2[e] /\ Pow2[Precision - 1] \in Nat
    BY <2>1, <2>2, GridPowers
  <2> QED
    BY <2>4, <2>5, NearExact
<1> QED
  BY <1>1, <1>2, PrecisionAssumption

(* What Near yields is a float, and stays.                                 *)
LEMMA NearStays ==
  ASSUME NEW a \in Nat, NEW e \in Nat, Grid(a, e)
  PROVE  \E f \in Nat : Grid(Near(a, e), f) /\ Near(Near(a, e), f) = Near(a, e)
<1> DEFINE k == Rounded(a, Pow2[e])
           b == Near(a, e)
<1>1. /\ b \in Nat /\ b = k * Pow2[e] /\ k \in 0 .. Pow2[Precision]
      /\ e = 0 => b = a
      /\ e # 0 => Pow2[Precision - 1] <= k
  BY NearType DEF Near
<1>2. /\ Pow2[e] \in Nat \ {0} /\ Pow2[Precision] \in Nat
      /\ Pow2[Precision + e] = Pow2[Precision] * Pow2[e]
      /\ Pow2[Precision - 1] \in Nat
      /\ e # 0 => Pow2[Precision + (e - 1)] = Pow2[Precision - 1] * Pow2[e]
      /\ Precision + e \in Nat
  BY GridPowers
<1> HIDE DEF k, b
<1>3. CASE e = 0
  BY <1>1, <1>3 DEF b
<1>4. CASE e # 0 /\ k = Pow2[Precision]
  <2>1. b = Pow2[Precision + e]
    BY <1>1, <1>2, <1>4
  <2> QED
    BY <1>2, <2>1, PowerIsFloat DEF b
<1>5. CASE e # 0 /\ k < Pow2[Precision]
  <2>1. k \in Nat /\ k + 1 <= Pow2[Precision] /\ Pow2[Precision - 1] <= k
    BY <1>1, <1>2, <1>5
  <2>2. /\ (k + 1) * Pow2[e] <= Pow2[Precision] * Pow2[e]
        /\ (k + 1) * Pow2[e] = k * Pow2[e] + Pow2[e]
        /\ Pow2[Precision - 1] * Pow2[e] <= k * Pow2[e]
    BY <1>2, <2>1, Multiples
  <2>3. Grid(b, e)
    BY <1>1, <1>2, <1>5, <2>2 DEF Grid
  <2>4. Near(b, e) = b
    BY <1>1, <2>1, NearExact
  <2> QED
    BY <2>3, <2>4 DEF b
<1> QED
  BY <1>1, <1>2, <1>3, <1>4, <1>5

(* The order of magnitudes is kept.                                        *)
LEMMA NearMonotone ==
  ASSUME NEW a \in Nat, NEW b \in Nat, b = a + 1,
         NEW e \in Nat, NEW f \in Nat, Grid(a, e), Grid(b, f)
  PROVE  Near(a, e) <= Near(b, f)
<1>1. /\ Precision + e \in Nat /\ Pow2[Precision + e] \in Nat /\ Pow2[e] \in Nat \ {0}
      /\ e # 0 => Pow2[Precision + (e - 1)] \in Nat
  BY GridPowers, PowerType
<1>2. CASE b < Pow2[Precision + e]
  <2>1. Grid(b, e)
    BY <1>1, <1>2 DEF Grid
  <2>2. e = f
    BY <2>1, GridUnique
  <2>3. /\ Rounded(a, Pow2[e]) <= Rounded(b, Pow2[e])
        /\ Rounded(a, Pow2[e]) \in Int /\ Rounded(b, Pow2[e]) \in Int
    <4>1. Rounded(a, Pow2[e]) \in Nat /\ Rounded(b, Pow2[e]) \in Nat
      BY <1>1, RoundedType
    <4> QED
      BY <1>1, <4>1, RoundedMonotone
  <2>4. Rounded(a, Pow2[e]) * Pow2[e] <= Rounded(b, Pow2[e]) * Pow2[e]
    BY <1>1, <2>3, Multiples
  <2> QED
    BY <2>2, <2>4 DEF Near
<1>3. CASE b = Pow2[Precision + e]
  <2>1. Near(b, f) = b
    BY <1>1, <1>3, PowerIsFloat, GridUnique
  <2> QED
    BY <1>3, <2>1, NearType
<1> QED
  BY <1>1, <1>2, <1>3 DEF Grid

--------------------------------------------------------------------------------
(* The limits of the integers                                              *)

LEMMA Limits ==
  \E w \in Nat :
    /\ IntMin = -Pow2[w] /\ IntMax = Pow2[w] - 1
    /\ Pow2[w] \in Nat \ {0} /\ IntMin \in Int64 /\ IntMax \in Int64
    /\ Int64 \subseteq Int
    /\ \A x \in Int64 : Magnitude(x) <= Pow2[w]
<1>1. PICK w \in 0 .. IntMax : IntMin = -Pow2[w] /\ IntMax = Pow2[w] - 1
  BY WidthAssumption
<1>2. w \in Nat /\ Pow2[w] \in Nat \ {0}
  BY PowerType, IntRangeAssumption
<1> QED
  BY <1>1, <1>2, IntRangeAssumption DEF Int64, Magnitude

(* Nothing is rounded beyond the smallest integer ...                      *)
LEMMA NearLimited ==
  ASSUME NEW w \in Nat, NEW a \in Nat, a <= Pow2[w], NEW e \in Nat, Grid(a, e)
  PROVE  /\ Near(a, e) <= Pow2[w]
         /\ e # 0 => e <= w
         /\ e # 0 /\ a < Pow2[w] => Precision + e <= w
<1>1. Pow2[w] \in Nat /\ Precision + e \in Nat /\ Pow2[Precision + e] \in Nat
  BY PowerType, GridPowers
<1>2. ASSUME e # 0, a < Pow2[w] PROVE Precision + e <= w
  <2>1. /\ Precision + (e - 1) \in Nat /\ Pow2[Precision + (e - 1)] \in Nat
        /\ Pow2[Precision + (e - 1)] <= a
    BY <1>2, GridPowers, PowerType DEF Grid
  <2>2. Precision + (e - 1) < w
    BY <1>1, <1>2, <2>1, PowerGrows
  <2> QED
    BY <2>2, PrecisionAssumption
<1>3. CASE a = Pow2[w]
  <2>1. Near(a, e) = a
    BY <1>3, PowerIsFloat, GridUnique
  <2>2. ASSUME e # 0 PROVE e <= w
    <3>1. /\ Precision + (e - 1) \in Nat /\ Pow2[Precision + (e - 1)] \in Nat
          /\ Pow2[Precision + (e - 1)] <= Pow2[w]
      BY <1>3, <2>2, GridPowers, PowerType DEF Grid
    <3>2. ~(w < Precision + (e - 1))
      BY <1>1, <3>1, PowerGrows, PowerType
    <3> QED
      BY <3>1, <3>2, PrecisionAssumption
  <2> QED
    BY <1>1, <1>3, <2>1, <2>2
<1>4. CASE a < Pow2[w]
  <2>1. CASE e = 0
    BY <1>4, <2>1, NearType
  <2>2. CASE e # 0
    <3>1. Pow2[Precision + e] <= Pow2[w]
      BY <1>1, <1>2, <1>4, <2>2, PowerGrows
    <3> QED
      BY <1>1, <1>2, <1>4, <2>2, <3>1, NearType, PrecisionAssumption
  <2> QED
    BY <2>1, <2>2
<1> QED
  BY <1>1, <1>3, <1>4

(* ... and the largest integer is kept, or rounded to the power above it.  *)
LEMMA LargestRounds ==
  ASSUME NEW w \in Nat, NEW e \in Nat, Grid(Pow2[w] - 1, e)
  PROVE  Near(Pow2[w] - 1, e) \in {Pow2[w] - 1, Pow2[w]}
<1>0. Pow2[w] \in Nat \ {0}
  BY PowerType
<1>1. PICK a \in Nat : a = Pow2[w] - 1 /\ a < Pow2[w] /\ a <= Pow2[w]
  BY <1>0
<1>2. Grid(a, e)
  BY <1>1
<1>3. CASE e = 0
  BY <1>1, <1>2, <1>3, NearType
<1>4. CASE e # 0
  <2>1. Precision + e <= w
    BY <1>1, <1>2, <1>4, NearLimited
  <2>2. ~(Precision + e < w)
    <3>1. SUFFICES ASSUME Precision + e < w PROVE FALSE
      OBVIOUS
    <3>2. /\ 2 * Pow2[Precision + e] <= Pow2[w]
          /\ Pow2[Precision + e] \in Nat \ {0}
      BY <3>1, GridPowers, PowerGrows, PowerType
    <3> QED
      BY <1>0, <1>1, <1>2, <3>2 DEF Grid
  <2>3. w = Precision + e
    BY <2>1, <2>2, PrecisionAssumption
  <2> DEFINE u == Pow2[e]
             P == Pow2[Precision]
  <2>4. /\ u \in Nat \ {0} /\ P \in Nat \ {0} /\ Pow2[w] = P * u
        /\ \E x \in Nat \ {0} : u = 2 * x
        /\ \E x \in Nat \ {0} : P = 2 * x
    BY <1>4, <2>3, GridPowers
  <2> HIDE DEF u, P
  <2>5. PICK q \in Nat, r \in 0 .. u - 1 : q = P - 1 /\ r = u - 1 /\ P = q + 1
    BY <2>4
  <2>6. a = q * u + r
    <3>1. (q + 1) * u = q * u + u /\ q * u \in Int
      BY <2>4, Multiples
    <3> QED
      BY <1>1, <2>4, <2>5, <3>1
  <2>7. a \div u = q /\ a % u = r
    <3>1. u \in Nat \ {0}
      BY <2>4
    <3> QED
      BY <2>6, <3>1, DivisionUnique
  <2>8. q % 2 = 1 /\ (2 * r > u \/ 2 * r = u)
    BY <2>4, <2>5
  <2>9. Rounded(a, u) = P
    BY <2>5, <2>7, <2>8 DEF Rounded
  <2> QED
    BY <1>1, <2>4, <2>9 DEF Near, u
<1> QED
  BY <1>3, <1>4

(* An integer that is a float comes back as it was.                        *)
LEMMA FloatsSurvive ==
  ASSUME NEW x \in Int64, NEW e \in Nat, Grid(Magnitude(x), e),
         Near(Magnitude(x), e) = Magnitude(x)
  PROVE  ToFloat(x) = x /\ Decodings(x) = {x}
<1>1. ToFloat(x) = x
  BY ToFloatIs, MagnitudeFacts DEF Magnitude
<1> QED
  BY <1>1 DEF Decodings, ToInt

(* ToFloat does not fall below the smallest integer.                       *)
LEMMA ToFloatType ==
  ASSUME NEW x \in Int64
  PROVE  ToFloat(x) \in Int /\ ToFloat(x) >= IntMin
<1>1. PICK w \in Nat : IntMin = -Pow2[w] /\ Pow2[w] \in Nat \ {0} /\ Magnitude(x) <= Pow2[w]
  BY Limits
<1>2. Magnitude(x) \in Nat
  BY MagnitudeFacts
<1>3. PICK e \in Nat : Grid(Magnitude(x), e)
  BY <1>2, GridExists
<1>4. Near(Magnitude(x), e) \in Nat /\ Near(Magnitude(x), e) <= Pow2[w]
  BY <1>1, <1>2, <1>3, NearType, NearLimited
<1> QED
  BY <1>1, <1>3, <1>4, ToFloatIs

LEMMA OrderKept ==
  ASSUME NEW x \in Int64, NEW y \in Int64, y = x + 1
  PROVE  ToFloat(x) <= ToFloat(y)
<1> DEFINE a == Magnitude(x)
           b == Magnitude(y)
<1>1. a \in Nat /\ b \in Nat /\ x \in Int
  BY MagnitudeFacts
<1>2. PICK e \in Nat, f \in Nat : Grid(a, e) /\ Grid(b, f)
  BY <1>1, GridExists
<1>3. /\ ToFloat(x) = IF x < 0 THEN -Near(a, e) ELSE Near(a, e)
      /\ ToFloat(y) = IF y < 0 THEN -Near(b, f) ELSE Near(b, f)
      /\ Near(a, e) \in Nat /\ Near(b, f) \in Nat
  BY <1>1, <1>2, ToFloatIs, NearType
<1>4. CASE x >= 0
  <2>1. b = a + 1
    BY <1>1, <1>4 DEF Magnitude
  <2> HIDE DEF a, b
  <2>2. Near(a, e) <= Near(b, f)
    BY <1>1, <1>2, <2>1, NearMonotone
  <2> QED
    BY <1>1, <1>3, <1>4, <2>2
<1>5. CASE x < 0
  <2>1. a = b + 1 /\ (~(y < 0) => b = 0)
    BY <1>1, <1>5 DEF Magnitude
  <2> HIDE DEF a, b
  <2>2. Near(b, f) <= Near(a, e)
    BY <1>1, <1>2, <2>1, NearMonotone
  <2> QED
    BY <1>1, <1>3, <1>5, <2>2
<1> QED
  BY <1>1, <1>4, <1>5

--------------------------------------------------------------------------------
(* What the runs check                                                     *)

InRange == c \in Int64

LEMMA CounterType == Spec => []InRange
<1>1. Init => InRange
  BY IntRangeAssumption DEF Init, Int64, InRange
<1>2. InRange /\ [Next]_c => InRange'
  BY IntRangeAssumption DEF Next, Int64, InRange
<1> QED
  BY <1>1, <1>2, PTL DEF Spec

(* Counters below the mantissa of a float64 come back from the file as they*)
(* were saved (mem_storage.go:133-138): a loss needs a counter of more bits*)
(* than a float64 has.                                                     *)
THEOREM SmallCountersCorrect == Spec => []SmallCountersSurvive
<1>1. ASSUME c \in Int64, Magnitude(c) < Pow2[Precision] PROVE Decodings(c) = {c}
  <2>1. Magnitude(c) \in Nat
    BY <1>1, MagnitudeFacts
  <2>2. Precision + 0 = Precision /\ 0 \in Nat
    BY PrecisionAssumption
  <2>3. Grid(Magnitude(c), 0)
    BY <1>1, <2>2 DEF Grid
  <2> QED
    BY <1>1, <2>1, <2>3, NearType, FloatsSurvive
<1>2. InRange => SmallCountersSurvive
  BY <1>1 DEF InRange, SmallCountersSurvive
<1> QED
  BY <1>2, CounterType, PTL

(* After the first restart a counter stays as it is, at the limits of an   *)
(* int64 and next to them too (Flush and Load, mem_storage.go:93 and 133). *)
THEOREM RestartsDoNotDriftCorrect == Spec => []RestartsDoNotDrift
<1>1. ASSUME c \in Int64, NEW d \in Decodings(c) PROVE d \in Decodings(d)
  <2>1. PICK w \in Nat :
          /\ IntMin = -Pow2[w] /\ IntMax = Pow2[w] - 1 /\ Pow2[w] \in Nat \ {0}
          /\ IntMin \in Int64 /\ IntMax \in Int64
    BY Limits
  <2>2. CASE ToFloat(c) \in Int64 /\ d = ToFloat(c)
    <3>1. Magnitude(c) \in Nat /\ c \in Int
      BY <1>1, MagnitudeFacts
    <3>2. PICK e \in Nat : Grid(Magnitude(c), e)
      BY <3>1, GridExists
    <3>3. /\ d = IF c < 0 THEN -Near(Magnitude(c), e) ELSE Near(Magnitude(c), e)
          /\ Near(Magnitude(c), e) \in Nat
      BY <1>1, <2>2, <3>1, <3>2, ToFloatIs, NearType
    <3>4. Magnitude(d) = Near(Magnitude(c), e)
      BY <3>3 DEF Magnitude
    <3>5. \E f \in Nat : Grid(Magnitude(d), f) /\ Near(Magnitude(d), f) = Magnitude(d)
      BY <3>1, <3>2, <3>4, NearStays
    <3> QED
      BY <2>2, <3>5, FloatsSurvive
  <2>3. CASE d = IntMin
    <3>1. Magnitude(d) = Pow2[w]
      BY <2>1, <2>3 DEF Magnitude
    <3> QED
      BY <2>1, <2>3, <3>1, PowerIsFloat, FloatsSurvive
  <2>4. CASE d = IntMax
    <3>1. Magnitude(d) = Pow2[w] - 1 /\ Magnitude(d) \in Nat /\ ~(d < 0)
      BY <2>1, <2>4 DEF Magnitude
    <3>2. PICK e \in Nat : Grid(Magnitude(d), e)
      BY <3>1, GridExists
    <3>3. ToFloat(d) \in {IntMax, Pow2[w]}
      BY <2>1, <2>4, <3>1, <3>2, ToFloatIs, LargestRounds
    <3>4. Pow2[w] \notin Int64
      BY <2>1 DEF Int64
    <3> QED
      BY <2>1, <2>4, <3>3, <3>4 DEF Decodings, ToInt
  <2>5. Decodings(c) \subseteq {ToFloat(c), IntMin, IntMax}
        /\ (ToFloat(c) \in Decodings(c) => ToFloat(c) \in Int64)
    BY <2>1 DEF Decodings, ToInt
  <2> QED
    BY <2>2, <2>3, <2>4, <2>5
<1>2. InRange => RestartsDoNotDrift
  BY <1>1 DEF RestartsDoNotDrift, InRange
<1> QED
  BY <1>2, CounterType, PTL

(* A restart never turns a larger counter into the smaller one, unless its *)
(* float is beyond the largest int64 (mem_storage.go:136).                 *)
THEOREM OrderSurvivesCorrect == Spec => OrderSurvivesRestart
<1> DEFINE Kept == ToFloat(c') <= IntMax => \A d \in Decodings(c), e \in Decodings(c') : d <= e
<1>1. ASSUME c \in Int64, Next PROVE Kept
  <2>1. c' \in Int64 /\ c' = c + 1
    BY <1>1, IntRangeAssumption DEF Next, Int64
  <2>2. ToFloat(c) <= ToFloat(c')
    BY <1>1, <2>1, OrderKept
  <2>3. /\ ToFloat(c) \in Int /\ ToFloat(c) >= IntMin
        /\ ToFloat(c') \in Int /\ ToFloat(c') >= IntMin
    BY <1>1, <2>1, ToFloatType
  <2>4. ASSUME ToFloat(c') <= IntMax
        PROVE  Decodings(c) = {ToFloat(c)} /\ Decodings(c') = {ToFloat(c')}
    BY <2>2, <2>3, <2>4, IntRangeAssumption DEF Decodings, ToInt, Int64
  <2> QED
    BY <2>2, <2>4
<1>2. InRange /\ [Next]_c => [Kept]_c
  BY <1>1 DEF InRange
<1> QED
  BY <1>2, CounterType, PTL DEF Spec, OrderSurvivesRestart
================================================================================
