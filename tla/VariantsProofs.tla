---------------------------- MODULE VariantsProofs ----------------------------
(***************************************************************************)
(* Proofs about Variants, for integer types of any widths and expressions  *)
(* of any length: expressions have the values of integer arithmetic while  *)
(* they stay in range, the types described for them, and the order of      *)
(* values.                                                                 *)
(***************************************************************************)
EXTENDS Variants, WellFoundedInduction, TLAPS

-----------------------------------------------------------------------------
(* Induction and recursion over numbers.                                   *)

\* A non-empty set of numbers has a least element.
LEMMA LeastNat ==
  ASSUME NEW T, T \subseteq Nat, T # {}
  PROVE  \E x \in T : \A y \in T : x <= y
<1> DEFINE R == {p \in Nat \X Nat : p[1] < p[2]}
<1>1. IsWellFoundedOn(R, Nat)
  BY NatLessThanWellFounded, Zenon DEF OpToRel
<1>2. \E x \in T : \A y \in T : ~(<<y, x>> \in R)
  <2> HIDE DEF R
  <2> QED
    BY <1>1, WFMin, Zenon
<1>3. \A x, y \in T : ~(<<y, x>> \in R) => x <= y
  <2> SUFFICES ASSUME NEW x \in T, NEW y \in T, ~(x <= y)
               PROVE  <<y, x>> \in R
    OBVIOUS
  <2>1. x \in Nat /\ y \in Nat /\ y < x
    OBVIOUS
  <2>2. <<y, x>> \in Nat \X Nat /\ <<y, x>>[1] < <<y, x>>[2]
    BY <2>1
  <2> QED
    BY <2>2, Zenon
<1> HIDE DEF R
<1> QED
  BY <1>2, <1>3, Zenon

\* Induction, for a property given as a set.
LEMMA SetInduction ==
  ASSUME NEW S, 0 \in S, \A n \in Nat : n \in S => n + 1 \in S
  PROVE  \A n \in Nat : n \in S
<1> SUFFICES ASSUME Nat \ S # {} PROVE FALSE
  OBVIOUS
<1> DEFINE T == Nat \ S
<1>1. PICK x \in T : \A y \in T : x <= y
  <2>1. T \subseteq Nat /\ T # {}
    OBVIOUS
  <2> HIDE DEF T
  <2> QED
    BY <2>1, LeastNat
<1>2. x # 0 /\ x \in Nat
  OBVIOUS
<1>3. x - 1 \in Nat /\ ~(x <= x - 1)
  BY <1>2
<1>4. x - 1 \in S
  BY <1>1, <1>3
<1>5. (x - 1) + 1 = x
  BY <1>2
<1>6. x \in S
  BY <1>3, <1>4, <1>5
<1> QED
  BY <1>6

\* f takes values in D, and f[i] is F[i] of f[i - 1].
Iterates(f, D, N, x0, F) ==
  /\ f \in [0..N -> D] /\ f[0] = x0
  /\ \A i \in 1..N : f[i] = F[i][f[i - 1]]

\* A function that is defined by recursion over the first numbers exists.
LEMMA RecursionExists ==
  ASSUME NEW D, NEW x0 \in D, NEW N \in Nat, NEW F \in [1..N -> [D -> D]]
  PROVE  \E f : Iterates(f, D, N, x0, F)
<1> DEFINE S == {n \in Nat : n <= N => \E f : Iterates(f, D, n, x0, F)}
<1>1. 0 \in S
  <2>1. Iterates([i \in 0..0 |-> x0], D, 0, x0, F)
    BY DEF Iterates
  <2> QED
    BY <2>1
<1>2. ASSUME NEW n \in Nat, n \in S PROVE n + 1 \in S
  <2> SUFFICES ASSUME n + 1 <= N PROVE \E f : Iterates(f, D, n + 1, x0, F)
    OBVIOUS
  <2>1. PICK f : Iterates(f, D, n, x0, F)
    <3>1. n <= N
      OBVIOUS
    <3> QED
      BY <1>2, <3>1
  <2> DEFINE g == [i \in 0..(n + 1) |-> IF i = n + 1 THEN F[n + 1][f[n]] ELSE f[i]]
  <2>2. /\ n + 1 \in 1..N /\ n \in 0..n /\ 0 \in 0..n
        /\ \A i \in 0..(n + 1) : i = n + 1 \/ i \in 0..n
        /\ \A i \in 1..(n + 1) : i - 1 \in 0..n /\ i - 1 \in 0..(n + 1) /\ i - 1 # n + 1
        /\ 0 \in 0..(n + 1) /\ 0 # n + 1
    OBVIOUS
  <2>3. F[n + 1][f[n]] \in D
    BY <2>1, <2>2 DEF Iterates
  <2>4. g \in [0..(n + 1) -> D] /\ g[0] = x0
    BY <2>1, <2>2, <2>3 DEF Iterates
  <2>5. ASSUME NEW i \in 1..(n + 1) PROVE g[i] = F[i][g[i - 1]]
    <3>1. g[i - 1] = f[i - 1] /\ i \in 0..(n + 1)
      BY <2>2
    <3>2. CASE i = n + 1
      <4>1. i - 1 = n
        BY <3>2
      <4> QED
        BY <3>1, <3>2, <4>1
    <3>3. CASE i # n + 1
      <4>1. i \in 1..n
        BY <3>3
      <4>2. g[i] = f[i]
        BY <3>1, <3>3
      <4> QED
        BY <2>1, <3>1, <4>1, <4>2 DEF Iterates
    <3> QED
      BY <3>2, <3>3
  <2> HIDE DEF g
  <2> QED
    BY <2>4, <2>5 DEF Iterates
<1>3. N \in S
  <2> HIDE DEF S
  <2>1. \A n \in Nat : n \in S => n + 1 \in S
    BY <1>2
  <2> QED
    BY <1>1, <2>1, SetInduction
<1> QED
  BY <1>3

-----------------------------------------------------------------------------
(* Powers of two.                                                          *)

LEMMA PowerRecursion ==
  /\ W64 + 1 \in Nat
  /\ Power2[0] = 1
  /\ \A n \in 1..(W64 + 1) : Power2[n] = 2 * Power2[n - 1]
<1> DEFINE N == W64 + 1
           F == [i \in 1..N |-> [d \in Nat |-> 2 * d]]
           Rec(h) == [n \in 0..N |-> IF n = 0 THEN 1 ELSE 2 * h[n - 1]]
<1>1. N \in Nat
  BY WidthAssumption
<1>2. F \in [1..N -> [Nat -> Nat]]
  OBVIOUS
<1>3. \A i \in 1..N, d \in Nat : F[i][d] = 2 * d
  OBVIOUS
<1>4. PICK f : Iterates(f, Nat, N, 1, F)
  <2> HIDE DEF F, N
  <2>1. 1 \in Nat
    OBVIOUS
  <2> QED
    BY <1>1, <1>2, <2>1, RecursionExists, Zenon
<1> HIDE DEF F
<1>5. \A i \in 1..N : f[i] = 2 * f[i - 1]
  <2>1. \A i \in 1..N : i - 1 \in 0..N
    BY <1>1
  <2> QED
    BY <1>3, <1>4, <2>1 DEF Iterates
<1>6. f = Rec(f)
  <2>1. \A n \in 0..N : n = 0 \/ n \in 1..N
    OBVIOUS
  <2>2. \A n \in 0..N : f[n] = IF n = 0 THEN 1 ELSE 2 * f[n - 1]
    BY <1>4, <1>5, <2>1 DEF Iterates
  <2>3. f = [n \in 0..N |-> f[n]]
    BY <1>4 DEF Iterates
  <2> QED
    BY <2>2, <2>3
<1>7. Power2 = Rec(Power2)
  BY <1>6, Zenon DEF Power2
<1>8. /\ 0 \in 0..N /\ \A n \in 1..N : n \in 0..N /\ n # 0
  BY <1>1
<1> QED
  BY <1>1, <1>7, <1>8

LEMMA PowerPositive == \A n \in 0..(W64 + 1) : Power2[n] \in Nat \ {0}
<1> DEFINE S == {n \in Nat : n <= W64 + 1 => Power2[n] \in Nat \ {0}}
<1>1. 0 \in S
  BY PowerRecursion
<1>2. ASSUME NEW n \in Nat, n \in S PROVE n + 1 \in S
  <2>1. SUFFICES ASSUME n + 1 <= W64 + 1 PROVE Power2[n + 1] \in Nat \ {0}
    OBVIOUS
  <2>2. n <= W64 + 1 /\ n + 1 \in 1..(W64 + 1) /\ (n + 1) - 1 = n
    BY <2>1, PowerRecursion
  <2>3. Power2[n + 1] = 2 * Power2[n]
    BY <2>2, PowerRecursion
  <2>4. Power2[n] \in Nat \ {0}
    BY <1>2, <2>2
  <2> QED
    BY <2>3, <2>4
<1>3. \A n \in Nat : n \in S
  <2> HIDE DEF S
  <2>1. \A n \in Nat : n \in S => n + 1 \in S
    BY <1>2
  <2> QED
    BY <1>1, <2>1, SetInduction
<1> QED
  BY <1>3, PowerRecursion

\* A power of two divides the later ones.
LEMMA PowerDivides ==
  ASSUME NEW a \in Nat, NEW b \in Nat, a <= b, b <= W64 + 1
  PROVE  \E k \in Nat \ {0} : Power2[b] = k * Power2[a]
<1> DEFINE S == {n \in Nat : a + n <= W64 + 1 => \E k \in Nat \ {0} : Power2[a + n] = k * Power2[a]}
<1>0. a \in 0..(W64 + 1) /\ Power2[a] \in Nat \ {0}
  BY PowerPositive, PowerRecursion
<1>1. 0 \in S
  <2>1. a + 0 = a /\ Power2[a] = 1 * Power2[a]
    BY <1>0
  <2> QED
    BY <2>1
<1>2. ASSUME NEW n \in Nat, n \in S PROVE n + 1 \in S
  <2>1. SUFFICES ASSUME a + (n + 1) <= W64 + 1
                 PROVE  \E k \in Nat \ {0} : Power2[a + (n + 1)] = k * Power2[a]
    OBVIOUS
  <2>2. a + n <= W64 + 1 /\ a + (n + 1) \in 1..(W64 + 1) /\ (a + (n + 1)) - 1 = a + n
    BY <2>1, PowerRecursion
  <2>3. Power2[a + (n + 1)] = 2 * Power2[a + n]
    BY <2>2, PowerRecursion
  <2>4. PICK k \in Nat \ {0} : Power2[a + n] = k * Power2[a]
    BY <1>2, <2>2
  <2>5. PICK p \in Nat : p = Power2[a]
    BY <1>0
  <2>6. 2 * (k * p) = (2 * k) * p /\ 2 * k \in Nat \ {0}
    OBVIOUS
  <2>7. Power2[a + (n + 1)] = (2 * k) * Power2[a]
    BY <2>3, <2>4, <2>5, <2>6
  <2> QED
    BY <2>6, <2>7
<1>3. \A n \in Nat : n \in S
  <2> HIDE DEF S
  <2>1. \A n \in Nat : n \in S => n + 1 \in S
    BY <1>2
  <2> QED
    BY <1>1, <2>1, SetInduction
<1>4. b - a \in Nat /\ a + (b - a) = b
  OBVIOUS
<1> QED
  BY <1>3, <1>4

\* A later power is at least twice as large.
LEMMA PowerGrows ==
  ASSUME NEW a \in Nat, NEW b \in Nat, a < b, b <= W64 + 1
  PROVE  2 * Power2[a] <= Power2[b]
<1>1. a + 1 \in 1..(W64 + 1) /\ (a + 1) - 1 = a /\ a + 1 \in Nat /\ a + 1 <= b
  BY PowerRecursion
<1>2. Power2[a + 1] = 2 * Power2[a]
  BY <1>1, PowerRecursion
<1>3. PICK k \in Nat \ {0} : Power2[b] = k * Power2[a + 1]
  BY <1>1, PowerDivides
<1>4. PICK p \in Nat : p = Power2[a + 1]
  BY <1>1, PowerPositive
<1>5. p <= k * p
  OBVIOUS
<1> QED
  BY <1>2, <1>3, <1>4, <1>5

-----------------------------------------------------------------------------
(* The integer types.                                                      *)

\* The number of values of a type, and the number of those below zero if it
\* is signed.
Modulus(t) == Power2[Bits(t)]
Half(t) == Power2[Bits(t) - 1]

LEMMA BitsOfTypes ==
  /\ \A t \in {"Int8", "UInt8"} : Bits(t) = W8
  /\ \A t \in {"Int16", "UInt16"} : Bits(t) = W16
  /\ \A t \in {"Int32", "UInt32"} : Bits(t) = W32
  /\ \A t \in {"Int64", "UInt64"} : Bits(t) = W64
BY DEF Bits

LEMMA BitsRange == \A t \in IntTypes : Bits(t) \in 2..W64
BY WidthAssumption, BitsOfTypes DEF IntTypes, Signed, Unsigned

LEMMA ModulusFacts ==
  ASSUME NEW t \in IntTypes
  PROVE  /\ Modulus(t) \in Nat /\ Half(t) \in Nat /\ 2 <= Half(t)
         /\ Modulus(t) = 2 * Half(t)
<1>1. PICK n : n = Bits(t)
  OBVIOUS
<1>2. n \in 2..W64 /\ n \in Nat /\ W64 \in Nat
  BY <1>1, BitsRange, WidthAssumption
<1>3. n \in 1..(W64 + 1) /\ n - 1 \in Nat /\ n - 1 \in 0..(W64 + 1) /\ 0 < n - 1 /\ n - 1 <= W64 + 1
  BY <1>2
<1>4. Power2[n] = 2 * Power2[n - 1]
  BY <1>3, PowerRecursion
<1>5. Power2[n - 1] \in Nat
  BY <1>3, PowerPositive
<1>6. 2 * Power2[0] <= Power2[n - 1] /\ Power2[0] = 1
  BY <1>3, PowerGrows, PowerRecursion
<1> QED
  BY <1>1, <1>4, <1>5, <1>6 DEF Modulus, Half

LEMMA WiderType ==
  ASSUME NEW s \in IntTypes, NEW t \in IntTypes
  PROVE  /\ Bits(s) = Bits(t) => Modulus(s) = Modulus(t) /\ Half(s) = Half(t)
         /\ Bits(s) < Bits(t) => Modulus(s) <= Half(t)
<1>1. Bits(s) = Bits(t) => Modulus(s) = Modulus(t) /\ Half(s) = Half(t)
  BY DEF Modulus, Half
<1>2. ASSUME Bits(s) < Bits(t) PROVE Modulus(s) <= Half(t)
  <2>1. PICK n, m : n = Bits(s) /\ m = Bits(t)
    OBVIOUS
  <2>2. n \in Nat /\ m \in Nat /\ n < m /\ m <= W64 + 1 /\ W64 \in Nat
    BY <1>2, <2>1, BitsRange, WidthAssumption
  <2>3. 2 * Power2[n] <= Power2[m]
    BY <2>2, PowerGrows
  <2> QED
    BY <2>1, <2>3, ModulusFacts DEF Modulus
<1> QED
  BY <1>1, <1>2

LEMMA RangeBounds ==
  ASSUME NEW t \in IntTypes
  PROVE  RangeOf(t) = IF t \in Signed THEN -Half(t)..(Half(t) - 1) ELSE 0..(Modulus(t) - 1)
BY DEF RangeOf, Half, Modulus

\* What Wrap leaves of a number.
LEMMA WrapBounds ==
  ASSUME NEW t \in IntTypes, NEW n
  PROVE  Wrap(t, n) = IF t \in Signed /\ n % Modulus(t) >= Half(t)
                      THEN (n % Modulus(t)) - Modulus(t) ELSE n % Modulus(t)
BY DEF Wrap, Half, Modulus

-----------------------------------------------------------------------------
(* Numbers modulo a width.                                                 *)

LEMMA Division ==
  ASSUME NEW n \in Int, NEW M \in Nat, 0 < M
  PROVE  /\ n \div M \in Int /\ n % M \in Int /\ 0 <= n % M /\ n % M < M
         /\ n = (n \div M) * M + (n % M)
<1>1. n \div M \in Int /\ n % M \in 0..(M - 1)
  OBVIOUS
<1>2. n - (n % M) = M * (n \div M)
  BY Z3
<1>3. PICK q \in Int, r \in Int : q = n \div M /\ r = n % M
  BY <1>1
<1>4. n - r = M * q
  BY <1>2, <1>3
<1>5. M * q = q * M
  OBVIOUS
<1>6. n = q * M + r
  BY <1>4, <1>5
<1>7. n = (n \div M) * M + (n % M)
  BY <1>3, <1>6, Zenon
<1>8. n % M \in Int /\ 0 <= n % M /\ n % M < M
  BY <1>1
<1> QED
  BY <1>1, <1>7, <1>8, Zenon

LEMMA ModuloUnique ==
  ASSUME NEW n \in Int, NEW M \in Nat, 0 < M, NEW q \in Int, NEW r \in Int,
         n = q * M + r, 0 <= r, r < M
  PROVE  n % M = r
BY SMTT(30)

\* A multiple of the modulus makes no difference.
LEMMA ModuloShift ==
  ASSUME NEW n \in Int, NEW M \in Nat, 0 < M, NEW k \in Int
  PROVE  (n + k * M) % M = n % M
<1>1. PICK q \in Int, r \in Int : n = q * M + r /\ 0 <= r /\ r < M /\ r = n % M
  BY Division
<1>2. n + k * M = (q + k) * M + r
  BY <1>1
<1>3. n + k * M \in Int /\ q + k \in Int
  OBVIOUS
<1> QED
  BY <1>1, <1>2, <1>3, ModuloUnique

LEMMA WrapInRange ==
  ASSUME NEW t \in IntTypes, NEW n \in Int
  PROVE  Wrap(t, n) \in Int /\ Wrap(t, n) \in RangeOf(t)
<1>1. PICK M \in Nat, H \in Nat : M = Modulus(t) /\ H = Half(t) /\ M = 2 * H /\ 2 <= H
  BY ModulusFacts
<1>2. PICK u \in Int : u = n % M /\ 0 <= u /\ u < M
  BY <1>1, Division
<1>3. Wrap(t, n) = IF t \in Signed /\ u >= H THEN u - M ELSE u
  BY <1>1, <1>2, WrapBounds
<1>4. RangeOf(t) = IF t \in Signed THEN -H..(H - 1) ELSE 0..(M - 1)
  BY <1>1, RangeBounds
<1>5. CASE t \in Signed
  <2>1. Wrap(t, n) = (IF u >= H THEN u - M ELSE u) /\ RangeOf(t) = -H..(H - 1)
    BY <1>3, <1>4, <1>5
  <2>2. (IF u >= H THEN u - M ELSE u) \in -H..(H - 1)
    BY <1>1, <1>2
  <2>3. \A x \in -H..(H - 1) : x \in Int
    OBVIOUS
  <2> QED
    BY <2>1, <2>2, <2>3, Zenon
<1>6. CASE t \notin Signed
  <2>1. Wrap(t, n) = u /\ RangeOf(t) = 0..(M - 1)
    BY <1>3, <1>4, <1>6, Zenon
  <2>2. u \in 0..(M - 1)
    BY <1>1, <1>2
  <2> QED
    BY <2>1, <2>2, Zenon
<1> QED
  BY <1>5, <1>6

\* A number and what is left of it differ by a multiple of the modulus.
LEMMA WrapCongruent ==
  ASSUME NEW t \in IntTypes, NEW n \in Int
  PROVE  \E k \in Int : Wrap(t, n) = n + k * Modulus(t)
<1>1. PICK M \in Nat : M = Modulus(t) /\ 0 < M
  BY ModulusFacts
<1>2. PICK q \in Int, r \in Int : n = q * M + r /\ r = n % M
  BY <1>1, Division
<1>3. r = n + (-q) * M /\ r - M = n + (-q - 1) * M /\ -q \in Int /\ -q - 1 \in Int
  BY <1>2
<1>4. Wrap(t, n) = r \/ Wrap(t, n) = r - M
  BY <1>1, <1>2, WrapBounds
<1> QED
  BY <1>1, <1>3, <1>4, Zenon

LEMMA WrapShift ==
  ASSUME NEW t \in IntTypes, NEW n \in Int, NEW k \in Int
  PROVE  Wrap(t, n + k * Modulus(t)) = Wrap(t, n)
<1>1. PICK M \in Nat : M = Modulus(t) /\ 0 < M
  BY ModulusFacts
<1>2. (n + k * M) % M = n % M
  BY <1>1, ModuloShift
<1>3. PICK m : m = n + k * M
  OBVIOUS
<1>4. m % M = n % M
  BY <1>2, <1>3, Zenon
<1>5. Wrap(t, m) = Wrap(t, n)
  BY <1>1, <1>4, Zenon DEF Wrap, Modulus
<1> QED
  BY <1>1, <1>3, <1>5, Zenon

\* A number in the range of the type stays what it is.
LEMMA WrapIdentity ==
  ASSUME NEW t \in IntTypes, NEW n \in Int, n \in RangeOf(t)
  PROVE  Wrap(t, n) = n
<1>1. PICK M \in Nat, H \in Nat : M = Modulus(t) /\ H = Half(t) /\ M = 2 * H /\ 2 <= H
  BY ModulusFacts
<1>2. RangeOf(t) = IF t \in Signed THEN -H..(H - 1) ELSE 0..(M - 1)
  BY <1>1, RangeBounds
<1>3. CASE 0 <= n
  <2>1. n < M
    BY <1>1, <1>2, <1>3
  <2>2. n = 0 * M + n
    OBVIOUS
  <2>3. n % M = n
    BY <1>3, <2>1, <2>2, ModuloUnique
  <2>4. t \in Signed => ~(n >= H)
    BY <1>1, <1>2
  <2> QED
    BY <1>1, <2>3, <2>4, WrapBounds
<1>4. CASE n < 0
  <2>1. t \in Signed /\ -H <= n
    BY <1>1, <1>2, <1>4
  <2>2. n = (-1) * M + (n + M) /\ 0 <= n + M /\ n + M < M /\ n + M \in Int /\ n + M >= H
    BY <1>1, <1>4, <2>1
  <2>3. n % M = n + M
    <3>1. 0 < M /\ -1 \in Int
      BY <1>1
    <3> QED
      BY <2>2, <3>1, ModuloUnique
  <2>4. (n + M) - M = n
    BY <1>1
  <2> QED
    BY <1>1, <2>1, <2>2, <2>3, <2>4, WrapBounds
<1> QED
  BY <1>3, <1>4

\* Sums, differences and products may be taken before or after.
LEMMA WrapOfSum ==
  ASSUME NEW t \in IntTypes, NEW a \in Int, NEW b \in Int
  PROVE  Wrap(t, Wrap(t, a) + Wrap(t, b)) = Wrap(t, a + b)
<1>1. PICK M \in Nat : M = Modulus(t)
  BY ModulusFacts
<1>2. PICK k \in Int, l \in Int : Wrap(t, a) = a + k * M /\ Wrap(t, b) = b + l * M
  BY <1>1, WrapCongruent
<1>3. (a + k * M) + (b + l * M) = (a + b) + (k + l) * M
  OBVIOUS
<1>4. PICK c \in Int, j \in Int : c = a + b /\ j = k + l
  OBVIOUS
<1>5. Wrap(t, a) + Wrap(t, b) = c + j * M
  BY <1>2, <1>3, <1>4, Zenon
<1>6. Wrap(t, c + j * M) = Wrap(t, c)
  BY <1>1, WrapShift, Zenon
<1> QED
  BY <1>4, <1>5, <1>6, Zenon

LEMMA WrapOfDifference ==
  ASSUME NEW t \in IntTypes, NEW a \in Int, NEW b \in Int
  PROVE  Wrap(t, Wrap(t, a) - Wrap(t, b)) = Wrap(t, a - b)
<1>1. PICK M \in Nat : M = Modulus(t)
  BY ModulusFacts
<1>2. PICK k \in Int, l \in Int : Wrap(t, a) = a + k * M /\ Wrap(t, b) = b + l * M
  BY <1>1, WrapCongruent
<1>3. (a + k * M) - (b + l * M) = (a - b) + (k - l) * M
  OBVIOUS
<1>4. PICK c \in Int, j \in Int : c = a - b /\ j = k - l
  OBVIOUS
<1>5. Wrap(t, a) - Wrap(t, b) = c + j * M
  BY <1>2, <1>3, <1>4, Zenon
<1>6. Wrap(t, c + j * M) = Wrap(t, c)
  BY <1>1, WrapShift, Zenon
<1> QED
  BY <1>4, <1>5, <1>6, Zenon

LEMMA WrapOfProduct ==
  ASSUME NEW t \in IntTypes, NEW a \in Int, NEW b \in Int
  PROVE  Wrap(t, Wrap(t, a) * Wrap(t, b)) = Wrap(t, a * b)
<1>1. PICK M \in Nat : M = Modulus(t)
  BY ModulusFacts
<1>2. PICK k \in Int, l \in Int : Wrap(t, a) = a + k * M /\ Wrap(t, b) = b + l * M
  BY <1>1, WrapCongruent
<1>3. PICK j \in Int : j = a * l + k * b + (k * l) * M
  OBVIOUS
<1>4. (a + k * M) * (b + l * M) = a * b + (a * l + k * b + (k * l) * M) * M
  OBVIOUS
<1>5. PICK c \in Int : c = a * b
  OBVIOUS
<1>6. Wrap(t, a) * Wrap(t, b) = c + j * M
  BY <1>2, <1>3, <1>4, <1>5, Zenon
<1>7. Wrap(t, c + j * M) = Wrap(t, c)
  BY <1>1, WrapShift, Zenon
<1> QED
  BY <1>5, <1>6, <1>7, Zenon

-----------------------------------------------------------------------------
(* Types of results.                                                       *)

LEMMA RankOfTypes ==
  /\ Rank["Int8"] = 2 /\ Rank["UInt8"] = 3 /\ Rank["Int16"] = 4 /\ Rank["UInt16"] = 5
  /\ Rank["Int32"] = 6 /\ Rank["UInt32"] = 7 /\ Rank["Int64"] = 8 /\ Rank["UInt64"] = 9
BY DEF Rank

LEMMA TypeNames ==
  /\ IntTypes \subseteq Types /\ "Null" \in Types /\ "Bool" \in Types /\ "String" \in Types
  /\ "Null" \notin IntTypes /\ "Bool" \notin IntTypes /\ "String" \notin IntTypes
  /\ Types = IntTypes \cup {"Null", "Bool", "String"}
  /\ "Nothing" \notin Types /\ "Error" \notin Types /\ "Trap" \notin Types
BY DEF Types, Rank, IntTypes, Signed, Unsigned

LEMMA PromotedTypes ==
  /\ \A t \in {"Int8", "UInt8", "Int16", "UInt16", "Int32"} : Promoted(t) = "Int32"
  /\ \A t \in {"UInt32", "Int64", "UInt64"} : Promoted(t) = t
<1>1. /\ \A t \in {"Int8", "UInt8", "Int16", "UInt16"} : Bits(t) < W32
      /\ \A t \in {"Int32", "UInt32", "Int64", "UInt64"} : ~(Bits(t) < W32)
  BY BitsOfTypes, WidthAssumption
<1> QED
  BY <1>1 DEF Promoted

\* What is described for a sum is its type: Bits decide about the type of the
\* value, and the order of the enumeration about the described one.
LEMMA CommonTypeDescribed ==
  ASSUME NEW s \in IntTypes, NEW t \in IntTypes
  PROVE  CommonType(s, t) = NumericResultType(s, t) /\ CommonType(s, t) \in IntTypes
<1> DEFINE Wide == {"Int32", "UInt32", "Int64", "UInt64"}
           p == Promoted(s)
           q == Promoted(t)
<1>1. p \in Wide /\ q \in Wide
  BY PromotedTypes DEF IntTypes, Signed, Unsigned
<1>2. CommonType(s, t) = IF Bits(p) > Bits(q) \/ (Bits(p) = Bits(q) /\ p \in Unsigned) THEN p ELSE q
  BY DEF CommonType
<1>3. Later(s, "Int32") = p /\ Later(t, "Int32") = q
  BY PromotedTypes, RankOfTypes DEF IntTypes, Signed, Unsigned, Later
<1>4. NumericResultType(s, t) = Later(p, q)
  <2>1. \A x \in IntTypes : Rank[x] \in Int
    BY RankOfTypes DEF IntTypes, Signed, Unsigned
  <2>2. \A x, y \in IntTypes : Rank[x] = Rank[y] => x = y
    BY RankOfTypes DEF IntTypes, Signed, Unsigned
  <2>3. "Int32" \in IntTypes
    BY DEF IntTypes, Signed
  <2> QED
    BY <1>3, <2>1, <2>2, <2>3 DEF NumericResultType, Later
<1> HIDE DEF p, q
<1>5. Later(p, q) = IF Bits(p) > Bits(q) \/ (Bits(p) = Bits(q) /\ p \in Unsigned) THEN p ELSE q
  <2>1. /\ Bits("Int32") = W32 /\ Bits("UInt32") = W32 /\ Bits("Int64") = W64 /\ Bits("UInt64") = W64
        /\ W32 \in Nat /\ W64 \in Nat /\ W32 < W64
    BY BitsOfTypes, WidthAssumption
  <2>2. "UInt32" \in Unsigned /\ "UInt64" \in Unsigned /\ "Int32" \notin Unsigned /\ "Int64" \notin Unsigned
    BY DEF Unsigned
  <2>3. CASE p = "Int32"
    BY <1>1, <2>1, <2>2, <2>3, RankOfTypes DEF Later
  <2>4. CASE p = "UInt32"
    BY <1>1, <2>1, <2>2, <2>4, RankOfTypes DEF Later
  <2>5. CASE p = "Int64"
    BY <1>1, <2>1, <2>2, <2>5, RankOfTypes DEF Later
  <2>6. CASE p = "UInt64"
    BY <1>1, <2>1, <2>2, <2>6, RankOfTypes DEF Later
  <2> QED
    BY <1>1, <2>3, <2>4, <2>5, <2>6
<1>6. p \in IntTypes /\ q \in IntTypes
  BY <1>1 DEF IntTypes, Signed, Unsigned
<1> QED
  BY <1>2, <1>4, <1>5, <1>6

LEMMA PromotedDescribed ==
  ASSUME NEW s \in IntTypes
  PROVE  /\ Promoted(s) \in IntTypes
         /\ DescribedUnary("~", s) = Promoted(s)
         /\ s \notin {"UInt32", "UInt64"} =>
              DescribedUnary("minus", s) = Promoted(s) /\ DescribedUnary("plus", s) = Promoted(s)
         /\ \A t \in IntTypes : ~(Rank[t] > Rank[Later(s, "Int32")]) => NumericResultType(s, t) = Promoted(s)
<1>1. Promoted(s) = Later(s, "Int32") /\ Promoted(s) \in IntTypes
  BY PromotedTypes, RankOfTypes DEF IntTypes, Signed, Unsigned, Later
<1>2. DescribedUnary("~", s) = Promoted(s)
  BY <1>1, RankOfTypes DEF DescribedUnary, Later, IntTypes, Signed, Unsigned
<1>3. ASSUME s \notin {"UInt32", "UInt64"}, NEW op \in {"minus", "plus"}
      PROVE  DescribedUnary(op, s) = Promoted(s)
  <2>1. CASE s = "Int64"
    <3>1. ~(Rank[s] <= Rank["Int32"]) /\ SignedColumnType(s) = s /\ Promoted(s) = s
      BY <1>1, <2>1, RankOfTypes DEF SignedColumnType, Later
    <3> QED
      BY <1>3, <3>1 DEF DescribedUnary
  <2>2. CASE s # "Int64"
    <3>1. Rank[s] <= Rank["Int32"] /\ Promoted(s) = "Int32"
      BY <1>1, <1>3, <2>2, RankOfTypes DEF IntTypes, Signed, Unsigned, Later
    <3> QED
      BY <3>1 DEF DescribedUnary
  <2> QED
    BY <2>1, <2>2
<1>4. ASSUME NEW t \in IntTypes, ~(Rank[t] > Rank[Later(s, "Int32")])
      PROVE  NumericResultType(s, t) = Promoted(s)
  <2>1. \A x \in IntTypes : Rank[x] \in Int
    BY RankOfTypes DEF IntTypes, Signed, Unsigned
  <2>2. \A x, y \in IntTypes : Rank[x] = Rank[y] => x = y
    BY RankOfTypes DEF IntTypes, Signed, Unsigned
  <2>3. "Int32" \in IntTypes
    BY DEF IntTypes, Signed
  <2> QED
    BY <1>1, <1>4, <2>1, <2>2, <2>3 DEF NumericResultType, Later
<1> QED
  BY <1>1, <1>2, <1>3, <1>4 DEF DescribedUnary

-----------------------------------------------------------------------------
(* Values.                                                                 *)

InItsRange(x) ==
  /\ x.type \in IntTypes => x.v \in RangeOf(x.type)
  /\ x.type = "Bool" => x.v \in {0, 1}

Values == {x \in [type : Types, v : Int] : InItsRange(x)}

LEMMA ValFields ==
  ASSUME NEW t, NEW n
  PROVE  Val(t, n).type = t /\ Val(t, n).v = n
BY DEF Val

LEMMA FieldsOfValue ==
  ASSUME NEW x \in Values
  PROVE  /\ x.type \in Types /\ x.v \in Int /\ x = Val(x.type, x.v)
         /\ x.type \in IntTypes => x.v \in RangeOf(x.type)
         /\ x.type = "Bool" => x.v \in {0, 1}
BY DEF Values, InItsRange, Val

\* The outcomes that are no values.
LEMMA NoValues ==
  /\ Nothing \notin Values /\ Error \notin Values /\ Trap \notin Values
  /\ Error # Trap /\ Nothing # Error /\ Nothing # Trap
<1>1. Nothing.type = "Nothing" /\ Error.type = "Error" /\ Trap.type = "Trap"
  BY ValFields DEF Nothing, Error, Trap
<1>2. \A x \in Values : x.type # "Nothing" /\ x.type # "Error" /\ x.type # "Trap"
  BY FieldsOfValue, TypeNames
<1> QED
  BY <1>1, <1>2

LEMMA MakeValue ==
  ASSUME NEW t \in Types, NEW n \in Int,
         t \in IntTypes => n \in RangeOf(t), t = "Bool" => n \in {0, 1}
  PROVE  Val(t, n) \in Values
BY DEF Values, InItsRange, Val

LEMMA PlainValues ==
  /\ NullValue \in Values /\ NullValue.type = "Null" /\ NullValue.v = 0
  /\ \A b \in BOOLEAN : Bool(b) \in Values /\ Bool(b).type = "Bool"
<1>1. NullValue \in Values /\ NullValue.type = "Null" /\ NullValue.v = 0
  BY MakeValue, ValFields, TypeNames DEF NullValue
<1>2. ASSUME NEW b \in BOOLEAN PROVE Bool(b) \in Values /\ Bool(b).type = "Bool"
  <2>1. PICK n \in {0, 1} : Bool(b) = Val("Bool", n)
    BY DEF Bool
  <2> QED
    BY <2>1, MakeValue, ValFields, TypeNames
<1> QED
  BY <1>1, <1>2

\* A number taken modulo the width of its type is a value.
LEMMA WrappedValue ==
  ASSUME NEW t \in IntTypes, NEW n \in Int
  PROVE  Val(t, Wrap(t, n)) \in Values
<1>1. Wrap(t, n) \in Int /\ Wrap(t, n) \in RangeOf(t)
  BY WrapInRange
<1>2. t \in Types /\ t # "Bool"
  BY TypeNames
<1> QED
  BY <1>1, <1>2, MakeValue

\* Zero and one are in every range.
LEMMA SmallNumbers ==
  ASSUME NEW t \in IntTypes
  PROVE  0 \in RangeOf(t) /\ 1 \in RangeOf(t)
<1>1. PICK M \in Nat, H \in Nat : M = Modulus(t) /\ H = Half(t) /\ M = 2 * H /\ 2 <= H
  BY ModulusFacts
<1>2. 0 \in -H..(H - 1) /\ 1 \in -H..(H - 1) /\ 0 \in 0..(M - 1) /\ 1 \in 0..(M - 1)
  BY <1>1
<1> QED
  BY <1>1, <1>2, RangeBounds

LEMMA RangesAreIntegers ==
  ASSUME NEW t \in IntTypes
  PROVE  RangeOf(t) \subseteq Int
<1>1. PICK M \in Nat, H \in Nat : M = Modulus(t) /\ H = Half(t)
  BY ModulusFacts
<1>2. -H..(H - 1) \subseteq Int /\ 0..(M - 1) \subseteq Int
  OBVIOUS
<1> QED
  BY <1>1, <1>2, RangeBounds

-----------------------------------------------------------------------------
(* Operators on integers.                                                  *)

LEMMA QuotientIsInteger ==
  ASSUME NEW a \in Int, NEW b \in Int, b # 0
  PROVE  Quotient(a, b) \in Int /\ Remainder(a, b) \in Int
<1>1. PICK m \in Nat, n \in Nat : m = Abs(a) /\ n = Abs(b) /\ 0 < n
  BY DEF Abs
<1>2. m \div n \in Int
  BY <1>1
<1>3. PICK q \in Int : q = Quotient(a, b)
  BY <1>1, <1>2 DEF Quotient
<1> QED
  BY <1>3 DEF Remainder

\* The tables of the operators on bits.
Tables == [0..1 -> [0..1 -> 0..1]]

LEMMA BitsAreIntegers ==
  ASSUME NEW a \in Int, NEW b \in Int, NEW table \in Tables
  PROVE  BitByBit(a, b, table) \in Int
<1> DEFINE N == W64
           At(i) == Power2[i - 1] * table[BitOf(a, i - 1)][BitOf(b, i - 1)]
           F == [i \in 1..N |-> [d \in Int |-> d + At(i)]]
           Rec(h) == [k \in 0..N |-> IF k = 0 THEN 0 ELSE h[k - 1] + At(k)]
<1>1. N \in Nat
  BY WidthAssumption
<1>2. ASSUME NEW i \in 1..N PROVE At(i) \in Int
  <2>1. i - 1 \in 0..(W64 + 1)
    BY <1>1
  <2>2. PICK p \in Nat : p = Power2[i - 1] /\ p # 0
    BY <2>1, PowerPositive
  <2>3. BitOf(a, i - 1) \in 0..1 /\ BitOf(b, i - 1) \in 0..1
    <3>1. (a \div p) \in Int /\ (b \div p) \in Int
      BY <2>2
    <3>2. \A n \in Int : n % 2 \in 0..1
      OBVIOUS
    <3> QED
      BY <2>2, <3>1, <3>2 DEF BitOf
  <2>4. PICK x \in 0..1 : x = table[BitOf(a, i - 1)][BitOf(b, i - 1)]
    BY <2>3 DEF Tables
  <2>5. p * x \in Int
    OBVIOUS
  <2> QED
    BY <2>2, <2>4, <2>5
<1> HIDE DEF At
<1>3. F \in [1..N -> [Int -> Int]] /\ \A i \in 1..N, d \in Int : F[i][d] = d + At(i)
  BY <1>2
<1>4. PICK f : Iterates(f, Int, N, 0, F)
  <2> HIDE DEF F, N
  <2>1. 0 \in Int
    OBVIOUS
  <2> QED
    BY <1>1, <1>3, <2>1, RecursionExists, Zenon
<1> HIDE DEF F
<1>5. \A i \in 1..N : f[i] = f[i - 1] + At(i)
  <2>1. \A i \in 1..N : i - 1 \in 0..N
    BY <1>1
  <2> QED
    BY <1>3, <1>4, <2>1 DEF Iterates
<1>6. f = Rec(f)
  <2>1. \A n \in 0..N : n = 0 \/ n \in 1..N
    BY <1>1
  <2>2. \A n \in 0..N : f[n] = IF n = 0 THEN 0 ELSE f[n - 1] + At(n)
    BY <1>4, <1>5, <2>1 DEF Iterates
  <2>3. f = [n \in 0..N |-> f[n]]
    BY <1>4 DEF Iterates
  <2> QED
    BY <2>2, <2>3
<1> DEFINE low == CHOOSE h : h = Rec(h)
<1>7. low = Rec(low)
  BY <1>6, Zenon
<1>8. BitByBit(a, b, table) = low[N]
  BY DEF BitByBit, At
<1> HIDE DEF low
<1> DEFINE S == {n \in Nat : n <= N => low[n] \in Int}
<1>9. 0 \in S
  BY <1>1, <1>7
<1>10. ASSUME NEW n \in Nat, n \in S PROVE n + 1 \in S
  <2>1. SUFFICES ASSUME n + 1 <= N PROVE low[n + 1] \in Int
    OBVIOUS
  <2>2. n <= N /\ n + 1 \in 1..N /\ n + 1 \in 0..N /\ (n + 1) - 1 = n /\ n + 1 # 0
    BY <1>1, <2>1
  <2>3. low[n + 1] = low[n] + At(n + 1)
    BY <1>7, <2>2
  <2>4. low[n] \in Int /\ At(n + 1) \in Int
    BY <1>2, <1>10, <2>2
  <2> QED
    BY <2>3, <2>4
<1>11. \A n \in Nat : n \in S
  <2> HIDE DEF S
  <2>1. \A n \in Nat : n \in S => n + 1 \in S
    BY <1>10
  <2> QED
    BY <1>9, <2>1, SetInduction
<1> QED
  BY <1>1, <1>8, <1>11

LEMMA BitOperators ==
  ASSUME NEW a \in Int, NEW b \in Int
  PROVE  OrBits(a, b) \in Int /\ AndBits(a, b) \in Int /\ XorBits(a, b) \in Int
<1>1. [x \in 0..1 |-> [y \in 0..1 |-> IF x + y = 0 THEN 0 ELSE 1]] \in Tables
  BY DEF Tables
<1>2. [x \in 0..1 |-> [y \in 0..1 |-> x * y]] \in Tables
  <2>1. \A x, y \in 0..1 : x * y \in 0..1
    OBVIOUS
  <2> QED
    BY <2>1 DEF Tables
<1>3. [x \in 0..1 |-> [y \in 0..1 |-> (x + y) % 2]] \in Tables
  <2>1. \A x, y \in 0..1 : (x + y) % 2 \in 0..1
    OBVIOUS
  <2> QED
    BY <2>1 DEF Tables
<1> QED
  BY <1>1, <1>2, <1>3, BitsAreIntegers, Zenon DEF OrBits, AndBits, XorBits

\* m is what op computes in type t, up to multiples of the modulus.
Computes(op, l, r, t, m) ==
  /\ op = "+" => Wrap(t, m) = Wrap(t, l.v + r.v)
  /\ op = "-" => Wrap(t, m) = Wrap(t, l.v - r.v)
  /\ op = "*" => Wrap(t, m) = Wrap(t, l.v * r.v)
  /\ op = "/" => (l.v \in RangeOf(t) /\ r.v \in RangeOf(t) => m = Quotient(l.v, r.v))
  /\ op = "%" => (l.v \in RangeOf(t) /\ r.v \in RangeOf(t) => m = Remainder(l.v, r.v))

\* The type in which it is computed.
TypeOfBinary(op, l, r) == IF op \in ShiftOps THEN Promoted(l.type) ELSE CommonType(l.type, r.type)

BinaryResult(op, l, r, x) ==
  \/ x \in {Error, Trap}
  \/ x = NullValue /\ (l.type = "Null" \/ r.type = "Null")
  \/ /\ l.type \in IntTypes /\ r.type \in IntTypes
     /\ \E m \in Int :
          /\ x = Val(TypeOfBinary(op, l, r), Wrap(TypeOfBinary(op, l, r), m))
          /\ Computes(op, l, r, TypeOfBinary(op, l, r), m)

LEMMA ArithmeticShape ==
  ASSUME NEW op, op \notin ShiftOps, NEW l, l.type \in IntTypes, NEW r, r.type \in IntTypes,
         NEW t, t = CommonType(l.type, r.type), NEW m \in Int, NEW x,
         x = Val(t, Wrap(t, m)), Computes(op, l, r, t, m)
  PROVE  BinaryResult(op, l, r, x)
<1>1. t = TypeOfBinary(op, l, r)
  BY DEF TypeOfBinary
<1> QED
  BY <1>1, Zenon DEF BinaryResult

\* The operators + - * / % | & ^ on integers.
LEMMA ArithmeticValues ==
  ASSUME NEW op \in BinaryOps \ ShiftOps, NEW l \in Values, NEW r \in Values,
         l.type \in IntTypes, r.type \in IntTypes, NEW x, x = Binary(op, l, r)
  PROVE  BinaryResult(op, l, r, x)
<1>1. "Null" \notin {l.type, r.type} /\ {l.type, r.type} \subseteq IntTypes
  BY TypeNames
<1>2. PICK t \in IntTypes : /\ t = CommonType(l.type, r.type) /\ l.v \in Int /\ r.v \in Int
                            /\ op \notin ShiftOps /\ l.type \in IntTypes /\ r.type \in IntTypes
  BY CommonTypeDescribed, FieldsOfValue
<1>3. PICK a \in Int, b \in Int : a = Wrap(t, l.v) /\ b = Wrap(t, r.v) /\ t = CommonType(l.type, r.type)
  BY <1>2, WrapInRange
<1>4. CASE op = "+"
  <2>1. x = Add(l, r)
    BY <1>1, <1>4 DEF Binary
  <2>2. x = Val(t, Wrap(t, a + b))
    BY <1>1, <1>3, <2>1 DEF Add, OnIntegers, Plus
  <2>3. PICK m \in Int : m = a + b
    BY <1>3
  <2>4. Wrap(t, m) = Wrap(t, l.v + r.v)
    <3>1. PICK u \in Int, v \in Int : u = l.v /\ v = r.v
      BY <1>2
    <3>2. Wrap(t, Wrap(t, u) + Wrap(t, v)) = Wrap(t, u + v)
      BY WrapOfSum, Zenon
    <3>3. m = Wrap(t, u) + Wrap(t, v)
      BY <1>3, <2>3, <3>1, Zenon
    <3> QED
      BY <3>1, <3>2, <3>3, Zenon
  <2>5. Computes(op, l, r, t, m)
    BY <1>4, <2>4 DEF Computes
  <2>6. x = Val(t, Wrap(t, m))
    BY <2>2, <2>3, Zenon
  <2> QED
    BY <1>2, <2>5, <2>6, <1>4, ArithmeticShape
<1>5. CASE op = "-"
  <2>1. x = Subtract(l, r)
    BY <1>1, <1>5 DEF Binary
  <2>2. x = Val(t, Wrap(t, a - b))
    BY <1>1, <1>3, <2>1 DEF Subtract, OnIntegers, Minus
  <2>3. PICK m \in Int : m = a - b
    BY <1>3
  <2>4. Wrap(t, m) = Wrap(t, l.v - r.v)
    <3>1. PICK u \in Int, v \in Int : u = l.v /\ v = r.v
      BY <1>2
    <3>2. Wrap(t, Wrap(t, u) - Wrap(t, v)) = Wrap(t, u - v)
      BY WrapOfDifference, Zenon
    <3>3. m = Wrap(t, u) - Wrap(t, v)
      BY <1>3, <2>3, <3>1, Zenon
    <3> QED
      BY <3>1, <3>2, <3>3, Zenon
  <2>5. Computes(op, l, r, t, m)
    BY <1>5, <2>4 DEF Computes
  <2>6. x = Val(t, Wrap(t, m))
    BY <2>2, <2>3, Zenon
  <2> QED
    BY <1>2, <2>5, <2>6, <1>5, ArithmeticShape
<1>6. CASE op = "*"
  <2>1. x = Multiply(l, r)
    BY <1>1, <1>6 DEF Binary
  <2>2. x = Val(t, Wrap(t, a * b))
    BY <1>1, <1>3, <2>1 DEF Multiply, OnIntegers, Times
  <2>3. PICK m \in Int : m = a * b
    BY <1>3
  <2>4. Wrap(t, m) = Wrap(t, l.v * r.v)
    <3>1. PICK u \in Int, v \in Int : u = l.v /\ v = r.v
      BY <1>2
    <3>2. Wrap(t, Wrap(t, u) * Wrap(t, v)) = Wrap(t, u * v)
      BY WrapOfProduct, Zenon
    <3>3. m = Wrap(t, u) * Wrap(t, v)
      BY <1>3, <2>3, <3>1, Zenon
    <3> QED
      BY <3>1, <3>2, <3>3, Zenon
  <2>5. Computes(op, l, r, t, m)
    BY <1>6, <2>4 DEF Computes
  <2>6. x = Val(t, Wrap(t, m))
    BY <2>2, <2>3, Zenon
  <2> QED
    BY <1>2, <2>5, <2>6, <1>6, ArithmeticShape
<1>7. CASE op = "/"
  <2>1. x = Divide(l, r)
    BY <1>1, <1>7 DEF Binary
  <2>2. CASE Traps(l, r)
    BY <2>1, <2>2 DEF Divide, BinaryResult
  <2>3. CASE ~Traps(l, r)
    <3>1. x = Val(t, Wrap(t, Quotient(a, b)))
      BY <1>1, <1>3, <2>1, <2>3 DEF Divide, OnIntegers
    <3>2. b # 0
      BY <1>1, <1>3, <2>3 DEF Traps
    <3>3. PICK m \in Int : m = Quotient(a, b)
      BY <1>3, <3>2, QuotientIsInteger
    <3>4. l.v \in RangeOf(t) /\ r.v \in RangeOf(t) => a = l.v /\ b = r.v
      BY <1>2, <1>3, WrapIdentity, Zenon
    <3>5. l.v \in RangeOf(t) /\ r.v \in RangeOf(t) => m = Quotient(l.v, r.v)
      BY <3>3, <3>4, Zenon
    <3>6. Computes(op, l, r, t, m)
      BY <1>7, <3>5 DEF Computes
    <3>7. x = Val(t, Wrap(t, m))
      BY <3>1, <3>3, Zenon
    <3> QED
      BY <1>2, <3>6, <3>7, <1>7, ArithmeticShape
  <2> QED
    BY <2>2, <2>3
<1>8. CASE op = "%"
  <2>1. x = Modulo(l, r)
    BY <1>1, <1>8 DEF Binary
  <2>2. CASE Traps(l, r)
    BY <2>1, <2>2 DEF Modulo, BinaryResult
  <2>3. CASE ~Traps(l, r)
    <3>1. x = Val(t, Wrap(t, Remainder(a, b)))
      BY <1>1, <1>3, <2>1, <2>3 DEF Modulo, OnIntegers
    <3>2. b # 0
      BY <1>1, <1>3, <2>3 DEF Traps
    <3>3. PICK m \in Int : m = Remainder(a, b)
      BY <1>3, <3>2, QuotientIsInteger
    <3>4. l.v \in RangeOf(t) /\ r.v \in RangeOf(t) => a = l.v /\ b = r.v
      BY <1>2, <1>3, WrapIdentity, Zenon
    <3>5. l.v \in RangeOf(t) /\ r.v \in RangeOf(t) => m = Remainder(l.v, r.v)
      BY <3>3, <3>4, Zenon
    <3>6. Computes(op, l, r, t, m)
      BY <1>8, <3>5 DEF Computes
    <3>7. x = Val(t, Wrap(t, m))
      BY <3>1, <3>3, Zenon
    <3> QED
      BY <1>2, <3>6, <3>7, <1>8, ArithmeticShape
  <2> QED
    BY <2>2, <2>3
<1>9. CASE op = "|"
  <2>1. x = BitwiseOr(l, r)
    BY <1>1, <1>9 DEF Binary
  <2>2. x = Val(t, Wrap(t, OrBits(a, b)))
    BY <1>1, <1>3, <2>1 DEF BitwiseOr, OnIntegers
  <2>3. PICK m \in Int : m = OrBits(a, b)
    BY <1>3, BitOperators
  <2>4. Computes(op, l, r, t, m)
    BY <1>9 DEF Computes
  <2>5. x = Val(t, Wrap(t, m))
    BY <2>2, <2>3, Zenon
  <2> QED
    BY <1>2, <2>4, <2>5, <1>9, ArithmeticShape
<1>10. CASE op = "&"
  <2>1. x = BitwiseAnd(l, r)
    BY <1>1, <1>10 DEF Binary
  <2>2. x = Val(t, Wrap(t, AndBits(a, b)))
    BY <1>1, <1>3, <2>1 DEF BitwiseAnd, OnIntegers
  <2>3. PICK m \in Int : m = AndBits(a, b)
    BY <1>3, BitOperators
  <2>4. Computes(op, l, r, t, m)
    BY <1>10 DEF Computes
  <2>5. x = Val(t, Wrap(t, m))
    BY <2>2, <2>3, Zenon
  <2> QED
    BY <1>2, <2>4, <2>5, <1>10, ArithmeticShape
<1>11. CASE op = "^"
  <2>1. x = BitwiseXor(l, r)
    BY <1>1, <1>11 DEF Binary
  <2>2. x = Val(t, Wrap(t, XorBits(a, b)))
    BY <1>1, <1>3, <2>1 DEF BitwiseXor, OnIntegers
  <2>3. PICK m \in Int : m = XorBits(a, b)
    BY <1>3, BitOperators
  <2>4. Computes(op, l, r, t, m)
    BY <1>11 DEF Computes
  <2>5. x = Val(t, Wrap(t, m))
    BY <2>2, <2>3, Zenon
  <2> QED
    BY <1>2, <2>4, <2>5, <1>11, ArithmeticShape
<1> QED
  BY <1>4, <1>5, <1>6, <1>7, <1>8, <1>9, <1>10, <1>11 DEF BinaryOps, ArithmeticOps, ShiftOps

LEMMA ShiftValues ==
  ASSUME NEW op \in ShiftOps, NEW l \in Values, NEW r \in Values,
         l.type \in IntTypes, r.type \in IntTypes, NEW x, x = Binary(op, l, r)
  PROVE  BinaryResult(op, l, r, x)
<1>1. "Null" \notin {l.type, r.type} /\ {l.type, r.type} \subseteq IntTypes
  BY TypeNames
<1>2. PICK t \in IntTypes : /\ t = Promoted(l.type) /\ l.v \in Int /\ r.v \in Int
                            /\ l.type \in IntTypes /\ r.type \in IntTypes
  BY PromotedDescribed, FieldsOfValue
<1>3. PICK c, p \in Nat : c = r.v % Bits(t) /\ p = Power2[c] /\ p # 0
  <2>1. PICK n \in Nat : n = Bits(t) /\ 0 < n /\ n <= W64 /\ W64 \in Nat
    BY BitsRange, WidthAssumption
  <2>2. PICK c \in Int : c = r.v % n /\ 0 <= c /\ c < n
    BY <1>2, <2>1, Division
  <2>3. c \in 0..(W64 + 1)
    BY <2>1, <2>2
  <2>4. Power2[c] \in Nat /\ Power2[c] # 0
    BY <2>3, PowerPositive
  <2> QED
    BY <2>1, <2>2, <2>4
<1>4. CASE op = "<<"
  <2>1. x = LeftShift(l, r)
    BY <1>1, <1>4 DEF Binary
  <2>2. x = Val(t, Wrap(t, TimesPower(l.v, c)))
    BY <1>1, <1>2, <1>3, <2>1 DEF LeftShift, Shifted
  <2>3. l.v * p \in Int
    BY <1>2, <1>3
  <2>4. TimesPower(l.v, c) = l.v * p
    BY <1>3 DEF TimesPower
  <2>5. x = Val(t, Wrap(t, l.v * p))
    BY <2>2, <2>4, Zenon
  <2>6. Computes(op, l, r, t, l.v * p)
    BY <1>4 DEF Computes
  <2>7. t = TypeOfBinary(op, l, r)
    BY <1>2, <1>4 DEF TypeOfBinary, ShiftOps
  <2> QED
    BY <1>2, <2>3, <2>5, <2>6, <2>7, Zenon DEF BinaryResult
<1>5. CASE op = ">>"
  <2>1. x = RightShift(l, r)
    BY <1>1, <1>5 DEF Binary
  <2>2. x = Val(t, Wrap(t, DivPower(l.v, c)))
    BY <1>1, <1>2, <1>3, <2>1 DEF RightShift, Shifted
  <2>3. l.v \div p \in Int
    BY <1>2, <1>3
  <2>4. DivPower(l.v, c) = l.v \div p
    BY <1>3 DEF DivPower
  <2>5. x = Val(t, Wrap(t, l.v \div p))
    BY <2>2, <2>4, Zenon
  <2>6. Computes(op, l, r, t, l.v \div p)
    BY <1>5 DEF Computes
  <2>7. t = TypeOfBinary(op, l, r)
    BY <1>2, <1>5 DEF TypeOfBinary, ShiftOps
  <2> QED
    BY <1>2, <2>3, <2>5, <2>6, <2>7, Zenon DEF BinaryResult
<1> QED
  BY <1>4, <1>5 DEF ShiftOps

LEMMA BinaryValues ==
  ASSUME NEW op \in BinaryOps, NEW l \in Values, NEW r \in Values, NEW x, x = Binary(op, l, r)
  PROVE  BinaryResult(op, l, r, x)
<1>1. CASE "Null" \in {l.type, r.type}
  BY <1>1 DEF Binary, BinaryResult
<1>2. CASE "Null" \notin {l.type, r.type} /\ ~(l.type \in IntTypes /\ r.type \in IntTypes)
  <2>1. ~({l.type, r.type} \subseteq IntTypes)
    BY <1>2
  <2>2. ~Traps(l, r)
    BY <2>1 DEF Traps
  <2>3. /\ Add(l, r) = Error /\ Subtract(l, r) = Error /\ Multiply(l, r) = Error
        /\ Divide(l, r) = Error /\ Modulo(l, r) = Error
    BY <2>1, <2>2, Zenon DEF Add, Subtract, Multiply, Divide, Modulo, OnIntegers
  <2>4. /\ BitwiseOr(l, r) = Error /\ BitwiseAnd(l, r) = Error /\ BitwiseXor(l, r) = Error
        /\ LeftShift(l, r) = Error /\ RightShift(l, r) = Error
    BY <2>1, Zenon DEF BitwiseOr, BitwiseAnd, BitwiseXor, OnIntegers, LeftShift, RightShift, Shifted
  <2>5. x = Error
    BY <1>2, <2>3, <2>4 DEF Binary, BinaryOps, ArithmeticOps, ShiftOps
  <2> QED
    BY <2>5 DEF BinaryResult
<1>3. CASE l.type \in IntTypes /\ r.type \in IntTypes
  <2>1. CASE op \in ShiftOps
    BY <1>3, <2>1, ShiftValues
  <2>2. CASE op \notin ShiftOps
    BY <1>3, <2>2, ArithmeticValues
  <2> QED
    BY <2>1, <2>2
<1> QED
  BY <1>1, <1>2, <1>3

\* What a unary operator gives for an integer.
Negated(op, n) == CASE op = "minus" -> -n [] op = "plus" -> n [] op = "~" -> -n - 1

LEMMA NegatedIsInteger ==
  ASSUME NEW op \in UnaryOps, NEW n \in Int
  PROVE  Negated(op, n) \in Int
BY DEF Negated, UnaryOps

LEMMA UnaryValues ==
  ASSUME NEW op \in UnaryOps, NEW y \in Values
  PROVE  /\ y.type = "Null" => Unary(op, y) = NullValue
         /\ y.type \in IntTypes => Unary(op, y) = Val(Promoted(y.type), Wrap(Promoted(y.type), Negated(op, y.v)))
         /\ y.type \notin IntTypes \cup {"Null"} => Unary(op, y) = Error
<1>1. CASE y.type = "Null"
  BY <1>1, TypeNames DEF Unary
<1>2. CASE y.type \in IntTypes
  <2>1. y.type # "Null"
    BY <1>2, TypeNames
  <2> QED
    BY <1>2, <2>1 DEF Unary, Negated
<1>3. CASE y.type \notin IntTypes \cup {"Null"}
  BY <1>3 DEF Unary
<1> QED
  BY <1>1, <1>2, <1>3, TypeNames

LEMMA CompareValues ==
  ASSUME NEW op \in Comparisons, NEW l \in Values, NEW r \in Values
  PROVE  Compare(op, l, r) = Error \/ (Compare(op, l, r) \in Values /\ Compare(op, l, r).type = "Bool")
<1>1. PICK b : b = CASE op = "=" -> compatibleEqual(l, r)
              [] op = "<>" -> ~compatibleEqual(l, r)
              [] op = "<" -> compatibleLess(l, r)
              [] op = "<=" -> compatibleLessOrEqual(l, r)
              [] op = ">" -> compatibleGreater(l, r)
              [] op = ">=" -> compatibleGreaterOrEqual(l, r)
  OBVIOUS
<1>2. Bool(b) \in Values /\ Bool(b).type = "Bool"
  <2>1. PICK n \in {0, 1} : Bool(b) = Val("Bool", n)
    BY DEF Bool
  <2> QED
    BY <2>1, MakeValue, ValFields, TypeNames
<1>3. Compare(op, l, r) \in {Bool(FALSE), Error, Bool(b)}
  BY <1>1 DEF Compare
<1> QED
  BY <1>2, <1>3, PlainValues

-----------------------------------------------------------------------------
(* Conversions.                                                            *)

LEMMA TextToIntValues ==
  ASSUME NEW t \in IntTypes, NEW n \in Int
  PROVE  TextToInt(t, n) = Error \/ (TextToInt(t, n) \in Values /\ TextToInt(t, n).type = t)
<1>1. PICK m : m = IF t \in Signed THEN n ELSE Wrap("UInt64", n)
  OBVIOUS
<1>2. TextToInt(t, n) = Error \/ (TextToInt(t, n) = Val(t, m) /\ m \in RangeOf(t))
  BY <1>1 DEF TextToInt
<1>3. ASSUME m \in RangeOf(t) PROVE Val(t, m) \in Values /\ Val(t, m).type = t
  <2>1. m \in Int /\ t \in Types /\ t # "Bool"
    BY <1>3, RangesAreIntegers, TypeNames
  <2> QED
    BY <1>3, <2>1, MakeValue, ValFields
<1> QED
  BY <1>2, <1>3

LEMMA AsIntValues ==
  ASSUME NEW t \in IntTypes, NEW y \in Values
  PROVE  /\ AsInt(t, y) = Error \/ (AsInt(t, y) \in Values /\ AsInt(t, y).type = t)
         /\ y.type \in IntTypes /\ ~SignLost(y, t) /\ y.v \in RangeOf(t) => AsInt(t, y) = Val(t, y.v)
<1>0. y.v \in Int /\ y.type \in Types
  BY FieldsOfValue
<1>1. CASE y.type \in IntTypes
  <2>1. PICK m : m = IF y.type = "Int8" /\ t \in ReadsInt8AsUnsigned THEN Wrap("UInt8", y.v) ELSE y.v
    OBVIOUS
  <2>2. AsInt(t, y) = Val(t, Wrap(t, m))
    BY <1>1, <2>1, TypeNames DEF AsInt
  <2>3. "UInt8" \in IntTypes
    BY DEF IntTypes, Unsigned
  <2>4. m \in Int
    BY <1>0, <2>1, <2>3, WrapInRange
  <2>5. AsInt(t, y) \in Values /\ AsInt(t, y).type = t
    BY <2>2, <2>4, WrappedValue, ValFields
  <2>6. ASSUME ~SignLost(y, t), y.v \in RangeOf(t) PROVE AsInt(t, y) = Val(t, y.v)
    <3>1. ASSUME y.type = "Int8", t \in ReadsInt8AsUnsigned PROVE Wrap("UInt8", y.v) = y.v
      <4>1. 0 <= y.v
        BY <1>0, <2>6, <3>1 DEF SignLost
      <4>2. y.v \in RangeOf("Int8") /\ "Int8" \in IntTypes /\ "Int8" \in Signed /\ "UInt8" \notin Signed
        BY <1>1, <3>1, FieldsOfValue DEF IntTypes, Signed
      <4>3. PICK M \in Nat, H \in Nat : /\ M = Modulus("UInt8") /\ M = 2 * H
                                          /\ RangeOf("UInt8") = 0..(M - 1) /\ RangeOf("Int8") = -H..(H - 1)
        <5>1. Bits("UInt8") = Bits("Int8")
          BY BitsOfTypes
        <5>2. Modulus("UInt8") = Modulus("Int8")
          BY <5>1, Zenon DEF Modulus
        <5>3. /\ Modulus("Int8") \in Nat /\ Half("Int8") \in Nat /\ Modulus("Int8") = 2 * Half("Int8")
          BY <4>2, ModulusFacts
        <5>4. /\ RangeOf("UInt8") = 0..(Modulus("UInt8") - 1)
              /\ RangeOf("Int8") = -Half("Int8")..(Half("Int8") - 1)
          BY <2>3, <4>2, RangeBounds
        <5> QED
          BY <5>2, <5>3, <5>4
      <4>4. y.v \in RangeOf("UInt8")
        BY <1>0, <4>1, <4>2, <4>3
      <4> QED
        BY <1>0, <2>3, <4>4, WrapIdentity
    <3>2. m = y.v
      BY <2>1, <3>1
    <3>3. Wrap(t, y.v) = y.v
      BY <1>0, <2>6, WrapIdentity
    <3> QED
      BY <2>2, <3>2, <3>3
  <2> QED
    BY <2>5, <2>6
<1>2. CASE y.type = "Bool"
  <2>1. AsInt(t, y) = Val(t, y.v)
    BY <1>2, TypeNames DEF AsInt
  <2>2. y.v \in {0, 1}
    BY <1>2, FieldsOfValue
  <2>3. y.v \in RangeOf(t) /\ t \in Types /\ t # "Bool"
    BY <2>2, SmallNumbers, TypeNames
  <2> QED
    BY <1>0, <1>2, <2>1, <2>3, MakeValue, ValFields, TypeNames
<1>3. CASE y.type = "String"
  <2>1. AsInt(t, y) = TextToInt(t, y.v)
    BY <1>3, TypeNames DEF AsInt
  <2> QED
    BY <1>0, <1>3, <2>1, TextToIntValues, TypeNames
<1>4. CASE y.type = "Null"
  BY <1>4, TypeNames DEF AsInt
<1> QED
  BY <1>0, <1>1, <1>2, <1>3, <1>4, TypeNames

LEMMA AsValues ==
  ASSUME NEW t \in Types \ {"Null"}, NEW y \in Values
  PROVE  /\ As(t, y) = Error \/ (As(t, y) \in Values /\ As(t, y).type = t)
         /\ t \in IntTypes => As(t, y) = AsInt(t, y)
<1>0. y.v \in Int /\ y.type \in Types
  BY FieldsOfValue
<1>1. CASE t = "Bool"
  <2>1. As(t, y) = AsBool(y)
    BY <1>1 DEF As
  <2>2. AsBool(y) \in {Error, y, Bool(TRUE), Bool(FALSE)} /\ (AsBool(y) = y => y.type = "Bool" \/ AsBool(y).type = "Bool")
    <3>1. CASE y.type \in IntTypes
      <4>1. AsBool(y) = Bool(y.v # 0)
        BY <3>1, TypeNames DEF AsBool
      <4>2. Bool(y.v # 0) \in {Bool(TRUE), Bool(FALSE)}
        OBVIOUS
      <4> QED
        BY <4>1, <4>2, PlainValues
    <3>2. CASE y.type = "Bool"
      BY <3>2, TypeNames DEF AsBool
    <3>3. CASE y.type = "String" /\ y.v \in {TextOfBool(0), TextOfBool(1)}
      <4>1. AsBool(y) = Bool(y.v = TextOfBool(1))
        BY <3>3, TypeNames DEF AsBool
      <4>2. Bool(y.v = TextOfBool(1)) \in {Bool(TRUE), Bool(FALSE)}
        OBVIOUS
      <4> QED
        BY <4>1, <4>2, PlainValues
    <3>4. CASE y.type \notin IntTypes \cup {"Bool"} /\ ~(y.type = "String" /\ y.v \in {TextOfBool(0), TextOfBool(1)})
      <4>1. AsBool(y) = Error
        BY <3>4 DEF AsBool
      <4>2. Error # y
        BY NoValues
      <4> QED
        BY <4>1, <4>2
    <3> QED
      BY <3>1, <3>2, <3>3, <3>4
  <2> QED
    BY <1>1, <2>1, <2>2, PlainValues, TypeNames
<1>2. CASE t = "String"
  <2>1. As(t, y) = AsString(y)
    BY <1>2 DEF As
  <2>2. "String" \in Types /\ "String" \notin IntTypes /\ "String" # "Bool"
    BY TypeNames
  <2>3. \A n \in Int : Val("String", n) \in Values /\ Val("String", n).type = "String"
    BY <2>2, MakeValue, ValFields
  <2>4. TextOfBool(y.v) \in Int
    <3>1. Power2[W64 + 1] \in Nat
      BY PowerPositive, PowerRecursion
    <3> QED
      BY <1>0, <3>1 DEF TextOfBool
  <2>5. CASE y.type \in IntTypes
    BY <1>0, <1>2, <2>1, <2>2, <2>3, <2>5, TypeNames DEF AsString
  <2>6. CASE y.type = "Bool"
    BY <1>0, <1>2, <2>1, <2>2, <2>3, <2>4, <2>6, TypeNames DEF AsString
  <2>7. CASE y.type = "String"
    BY <1>2, <2>1, <2>2, <2>7, TypeNames DEF AsString
  <2>8. CASE y.type = "Null"
    BY <1>2, <2>1, <2>2, <2>8, TypeNames DEF AsString
  <2> QED
    BY <1>0, <2>5, <2>6, <2>7, <2>8, TypeNames
<1>3. CASE t \in IntTypes
  <2>1. t # "Bool" /\ t # "String"
    BY <1>3, TypeNames
  <2>2. As(t, y) = AsInt(t, y)
    BY <2>1 DEF As
  <2> QED
    BY <1>3, <2>2, AsIntValues
<1> QED
  BY <1>1, <1>2, <1>3, TypeNames

LEMMA CastValues ==
  ASSUME NEW t \in Types \ {"Null"}, NEW y \in Values
  PROVE  /\ CastTo(t, y) \in Values \cup {Error}
         /\ ~CastException(t) => CastTo(t, y) = As(t, y)
<1>1. {"Int8", "UInt8", "Int32", "UInt32"} \subseteq IntTypes
  BY DEF IntTypes, Signed, Unsigned
<1>2. CASE t = "UInt8"
  <2>1. CASE AsInt(t, y) = Error
    <3>1. CastTo(t, y) = As(t, y) /\ As(t, y) = AsInt(t, y)
      BY <1>1, <1>2, <2>1, AsValues DEF CastTo
    <3> QED
      BY <2>1, <3>1
  <2>2. CASE AsInt(t, y) # Error
    <3>1. AsInt(t, y) \in Values
      BY <1>1, <1>2, <2>2, AsIntValues
    <3>2. AsInt(t, y).v \in Int
      BY <3>1, FieldsOfValue
    <3>3. CastTo(t, y) = Val("Int8", Wrap("Int8", AsInt(t, y).v))
      BY <1>2, <2>2 DEF CastTo
    <3>4. CastTo(t, y) \in Values
      BY <1>1, <3>2, <3>3, WrappedValue
    <3> QED
      BY <1>2, <3>4 DEF CastException
  <2> QED
    BY <2>1, <2>2
<1>3. CASE t = "UInt32"
  <2>1. CastTo(t, y) = AsInt("Int32", y)
    BY <1>3 DEF CastTo
  <2> QED
    BY <1>1, <1>3, <2>1, AsIntValues DEF CastException
<1>4. CASE t \notin {"UInt8", "UInt32"}
  <2>1. CastTo(t, y) = As(t, y)
    BY <1>4 DEF CastTo
  <2> QED
    BY <2>1, AsValues
<1> QED
  BY <1>2, <1>3, <1>4

-----------------------------------------------------------------------------
(* The inductive invariant.  Matches(x, n, t): a value x of which type t   *)
(* is described is of that type or NULL, and it is the number n, if there  *)
(* is one.                                                                 *)

Exacts == Int \cup {Inexact}

Matches(x, n, t) ==
  /\ x.type \in {t, "Null"}
  /\ n # Inexact => t \in IntTypes /\ x.type = t /\ x.v = n

ExpressionOK ==
  /\ acc \in Values \cup {Nothing} /\ described \in Types /\ exact \in Exacts /\ agree \in BOOLEAN
  /\ valid \in BOOLEAN
  /\ acc = Nothing => exact = Inexact
  /\ agree /\ acc # Nothing => Matches(acc, exact, described)

CellsOK ==
  /\ cells \in [Columns -> Values] /\ cellExact \in [Columns -> Exacts]
  /\ \A c \in Columns : Matches(cells[c], cellExact[c], ColumnType[c])

ProcessOK == alive \in BOOLEAN /\ steps \in 0..MaxSteps

IInv == ExpressionOK /\ CellsOK /\ ProcessOK

LEMMA ColumnTypes == \A c \in Columns : ColumnType[c] \in Types \ {"Null"}
BY ColumnAssumption DEF Columns

\* A number that leaves its type is forgotten.
LEMMA InRangeFacts ==
  ASSUME NEW t, NEW n \in Exacts
  PROVE  /\ InRange(t, n) \in Exacts
         /\ InRange(t, n) # Inexact =>
              InRange(t, n) = n /\ n # Inexact /\ n \in Int /\ t \in IntTypes /\ n \in RangeOf(t)
BY DEF InRange, Exacts

LEMMA MatchesInRange ==
  ASSUME NEW x, NEW t, NEW n \in Exacts, Matches(x, n, t)
  PROVE  Matches(x, InRange(t, n), t)
<1>1. InRange(t, n) # Inexact => InRange(t, n) = n /\ n # Inexact
  BY InRangeFacts, Zenon
<1> QED
  BY <1>1 DEF Matches

\* What the accumulator may be given.
Evaluable(x, t, n, ok, v) ==
  /\ x \in Values \cup {Error, Trap} /\ t \in Types /\ n \in Exacts /\ ok \in BOOLEAN /\ v \in BOOLEAN
  /\ x \in Values /\ ok => Matches(x, InRange(t, n), t)

LEMMA StepCounts ==
  ASSUME ProcessOK, Step, alive' \in BOOLEAN
  PROVE  ProcessOK'
BY BoundAssumption DEF ProcessOK, Step

LEMMA CellsStay ==
  ASSUME CellsOK, UNCHANGED <<cells, cellExact>>
  PROVE  CellsOK'
<1>1. cells' = cells /\ cellExact' = cellExact
  OBVIOUS
<1> QED
  BY <1>1 DEF CellsOK

\* Without an expression, there is nothing to be right or wrong.
LEMMA NothingOK ==
  ASSUME NoExpression
  PROVE  ExpressionOK'
<1>1. "Null" \in Types
  BY TypeNames
<1> QED
  BY <1>1 DEF ExpressionOK, Exacts, NoExpression

LEMMA EvaluatedKeeps ==
  ASSUME IInv, Step, NEW x, NEW t, NEW n, NEW ok, NEW v,
         Evaluable(x, t, n, ok, v), Evaluated(x, t, n, ok, v)
  PROVE  IInv'
<1>1. CellsOK'
  BY CellsStay DEF Evaluated, IInv
<1>2. ProcessOK'
  BY StepCounts DEF Evaluated, IInv
<1>3. CASE x \in {Error, Trap}
  <2>1. ExpressionOK'
    BY <1>3, NothingOK DEF Evaluated
  <2> QED
    BY <1>1, <1>2, <2>1 DEF IInv
<1>4. CASE x \notin {Error, Trap}
  <2>1. acc' = x /\ described' = t /\ agree' = ok /\ exact' = InRange(t, n) /\ valid' = v
    BY <1>4 DEF Evaluated
  <2>2. x \in Values /\ t \in Types /\ n \in Exacts /\ ok \in BOOLEAN /\ v \in BOOLEAN
    BY <1>4 DEF Evaluable
  <2>3. x # Nothing
    BY <2>2, NoValues
  <2>4. InRange(t, n) \in Exacts
    BY <2>2, InRangeFacts
  <2>5. ok => Matches(x, InRange(t, n), t)
    BY <2>2 DEF Evaluable
  <2>6. PICK e : e = InRange(t, n)
    OBVIOUS
  <2>7. acc' = x /\ described' = t /\ agree' = ok /\ exact' = e /\ valid' = v /\ e \in Exacts
        /\ (ok => Matches(x, e, t))
    BY <2>1, <2>4, <2>5, <2>6, Zenon
  <2>8. ExpressionOK'
    BY <2>2, <2>3, <2>7 DEF ExpressionOK, Matches
  <2> QED
    BY <1>1, <1>2, <2>8 DEF IInv
<1> QED
  BY <1>3, <1>4

-----------------------------------------------------------------------------
(* Literals and columns.                                                   *)

\* The operand is a value and what is described of it is right.
IsOperand(o) ==
  /\ o.val \in Values /\ o.type \in Types /\ o.exact \in Exacts
  /\ Matches(o.val, o.exact, o.type)

LEMMA LiteralValues ==
  ASSUME NEW n \in 0..(Power2[W64] - 1)
  PROVE  /\ n \in Int
         /\ LiteralValue(n) \in Values /\ LiteralValue(n).v = n
         /\ LiteralValue(n).type \in Unsigned
<1> DEFINE P(t) == n \in RangeOf(t) /\ \A s \in Unsigned : n \in RangeOf(s) => Rank[t] <= Rank[s]
<1>1. n \in Int /\ n \in RangeOf("UInt64")
  <2>1. "UInt64" \in IntTypes /\ "UInt64" \notin Signed
    BY DEF IntTypes, Unsigned, Signed
  <2>2. RangeOf("UInt64") = 0..(Modulus("UInt64") - 1)
    BY <2>1, RangeBounds
  <2>3. Modulus("UInt64") = Power2[W64]
    BY BitsOfTypes DEF Modulus
  <2>4. Power2[W64] \in Nat
    <3>1. W64 \in 0..(W64 + 1)
      BY WidthAssumption
    <3> QED
      BY <3>1, PowerPositive
  <2> QED
    BY <2>2, <2>3, <2>4
<1>2. \E t \in Unsigned : P(t)
  <2>1. CASE n \in RangeOf("UInt8")
    <3>1. P("UInt8") /\ "UInt8" \in Unsigned
      BY <2>1, RankOfTypes DEF Unsigned
    <3> QED
      BY <3>1
  <2>2. CASE n \notin RangeOf("UInt8") /\ n \in RangeOf("UInt16")
    <3>1. P("UInt16") /\ "UInt16" \in Unsigned
      BY <2>2, RankOfTypes DEF Unsigned
    <3> QED
      BY <3>1
  <2>3. CASE n \notin RangeOf("UInt8") /\ n \notin RangeOf("UInt16") /\ n \in RangeOf("UInt32")
    <3>1. P("UInt32") /\ "UInt32" \in Unsigned
      BY <2>3, RankOfTypes DEF Unsigned
    <3> QED
      BY <3>1
  <2>4. CASE n \notin RangeOf("UInt8") /\ n \notin RangeOf("UInt16") /\ n \notin RangeOf("UInt32")
    <3>1. P("UInt64") /\ "UInt64" \in Unsigned
      BY <1>1, <2>4, RankOfTypes DEF Unsigned
    <3> QED
      BY <3>1
  <2> QED
    BY <2>1, <2>2, <2>3, <2>4
<1>3. PICK t : t = CHOOSE u \in Unsigned : P(u)
  OBVIOUS
<1>4. t \in Unsigned /\ n \in RangeOf(t)
  BY <1>2, <1>3
<1>5. LiteralValue(n) = Val(t, n)
  BY <1>3, Zenon DEF LiteralValue
<1>6. t \in IntTypes /\ t \in Types /\ t # "Bool"
  BY <1>4, TypeNames DEF IntTypes
<1> QED
  BY <1>1, <1>4, <1>5, <1>6, MakeValue, ValFields

LEMMA OperandsAreRight ==
  ASSUME CellsOK, NEW o \in Operands
  PROVE  IsOperand(o)
<1>1. CASE \E n \in Literals : o = [val |-> LiteralValue(n), type |-> LiteralValue(n).type, exact |-> n]
  <2>1. PICK n \in Literals : o = [val |-> LiteralValue(n), type |-> LiteralValue(n).type, exact |-> n]
    BY <1>1
  <2>2. /\ n \in Int /\ LiteralValue(n) \in Values /\ LiteralValue(n).v = n
        /\ LiteralValue(n).type \in Unsigned
    BY LiteralAssumption, LiteralValues
  <2>3. LiteralValue(n).type \in IntTypes /\ LiteralValue(n).type \in Types
    BY <2>2, TypeNames DEF IntTypes
  <2>4. o.val = LiteralValue(n) /\ o.type = LiteralValue(n).type /\ o.exact = n
    BY <2>1
  <2> QED
    BY <2>2, <2>3, <2>4 DEF IsOperand, Matches, Exacts
<1>2. CASE \E c \in Columns : o = [val |-> cells[c], type |-> ColumnType[c], exact |-> cellExact[c]]
  <2>1. PICK c \in Columns : o = [val |-> cells[c], type |-> ColumnType[c], exact |-> cellExact[c]]
    BY <1>2
  <2>2. /\ cells[c] \in Values /\ cellExact[c] \in Exacts /\ Matches(cells[c], cellExact[c], ColumnType[c])
        /\ ColumnType[c] \in Types
    BY ColumnTypes DEF CellsOK
  <2>3. o.val = cells[c] /\ o.type = ColumnType[c] /\ o.exact = cellExact[c]
    BY <2>1
  <2> QED
    BY <2>2, <2>3 DEF IsOperand
<1> QED
  BY <1>1, <1>2 DEF Operands

-----------------------------------------------------------------------------
(* One lemma per action.                                                   *)

LEMMA StartKeeps ==
  ASSUME IInv, Start
  PROVE  IInv'
<1>1. PICK o \in Operands : Step /\ Evaluated(o.val, o.type, o.exact, TRUE, TRUE)
  BY DEF Start
<1>2. IsOperand(o)
  BY OperandsAreRight DEF IInv
<1>3. Evaluable(o.val, o.type, o.exact, TRUE, TRUE)
  BY <1>2, MatchesInRange DEF IsOperand, Evaluable
<1> QED
  BY <1>1, <1>3, EvaluatedKeeps

LEMMA UnaryKeeps ==
  ASSUME IInv, NEW op \in UnaryOps, ApplyUnary(op)
  PROVE  IInv'
<1> DEFINE x == Unary(op, acc)
           T == DescribedUnary(op, described)
           n == IF exact = Inexact THEN Inexact
                ELSE CASE op = "minus" -> -exact [] op = "plus" -> exact [] op = "~" -> -exact - 1
           ok == agree /\ ~UnaryException(op, described)
           v == valid /\ ValidOperand(described)
<1>1. Step /\ acc # Nothing /\ Evaluated(x, T, n, ok, v)
  BY DEF ApplyUnary
<1>2. /\ acc \in Values /\ acc.type \in Types /\ acc.v \in Int /\ described \in Types
      /\ exact \in Exacts /\ agree \in BOOLEAN /\ valid \in BOOLEAN
  BY <1>1, FieldsOfValue DEF IInv, ExpressionOK
<1>3. n = (IF exact = Inexact THEN Inexact ELSE Negated(op, exact))
  BY DEF Negated
<1>4. n \in Exacts
  BY <1>2, <1>3, NegatedIsInteger DEF Exacts
<1>5. T \in Types
  <2>1. \A t \in IntTypes : SignedColumnType(t) \in IntTypes
    BY DEF SignedColumnType, IntTypes, Signed, Unsigned
  <2>2. "Int32" \in IntTypes
    BY DEF IntTypes, Signed
  <2> QED
    BY <2>1, <2>2, TypeNames DEF DescribedUnary
<1>6. x \in Values \cup {Error}
  <2>1. CASE acc.type \in IntTypes
    <3>1. x = Val(Promoted(acc.type), Wrap(Promoted(acc.type), Negated(op, acc.v)))
      BY <1>2, <2>1, UnaryValues
    <3>2. Promoted(acc.type) \in IntTypes /\ Negated(op, acc.v) \in Int
      BY <1>2, <2>1, PromotedDescribed, NegatedIsInteger
    <3> QED
      BY <3>1, <3>2, WrappedValue
  <2>2. CASE acc.type \notin IntTypes
    BY <1>2, <2>2, UnaryValues, PlainValues
  <2> QED
    BY <2>1, <2>2
<1>7. ok \in BOOLEAN /\ v \in BOOLEAN
  BY <1>2 DEF ValidOperand
<1>8. ASSUME x \in Values, ok PROVE Matches(x, InRange(T, n), T)
  <2>1. Matches(acc, exact, described)
    BY <1>1, <1>8 DEF IInv, ExpressionOK
  <2>2. CASE acc.type = "Null"
    <3>1. exact = Inexact
      BY <2>1, <2>2, TypeNames DEF Matches
    <3>2. n = Inexact
      BY <3>1
    <3>3. InRange(T, n) = Inexact
      BY <3>2 DEF InRange
    <3>4. x.type = "Null"
      BY <1>2, <2>2, UnaryValues, PlainValues
    <3> QED
      BY <3>3, <3>4 DEF Matches
  <2>3. CASE acc.type # "Null"
    <3>1. acc.type = described /\ described \in IntTypes
      BY <1>2, <1>8, <2>1, <2>3, UnaryValues, NoValues DEF Matches
    <3>2. T = Promoted(described) /\ T \in IntTypes
      BY <1>8, <3>1, PromotedDescribed DEF UnaryException, UnaryOps
    <3>3. x = Val(T, Wrap(T, Negated(op, acc.v)))
      BY <1>2, <3>1, <3>2, UnaryValues
    <3>4. x.type = T /\ x.v = Wrap(T, Negated(op, acc.v))
      BY <3>3, ValFields
    <3>5. ASSUME InRange(T, n) # Inexact PROVE x.v = InRange(T, n)
      <4>1. InRange(T, n) = n /\ n # Inexact /\ n \in Int /\ n \in RangeOf(T)
        BY <1>4, <3>5, InRangeFacts
      <4>2. exact # Inexact /\ n = Negated(op, exact)
        BY <1>3, <4>1
      <4>3. acc.v = exact
        BY <2>1, <4>2 DEF Matches
      <4>4. Wrap(T, n) = n
        BY <3>2, <4>1, WrapIdentity
      <4> QED
        BY <3>4, <4>1, <4>2, <4>3, <4>4, Zenon
    <3> QED
      BY <3>2, <3>4, <3>5 DEF Matches
  <2> QED
    BY <2>2, <2>3
<1> HIDE DEF x, T, n, ok, v
<1>9. Evaluable(x, T, n, ok, v)
  BY <1>4, <1>5, <1>6, <1>7, <1>8 DEF Evaluable
<1> QED
  BY <1>1, <1>9, EvaluatedKeeps

\* The integer of a binary operation.
LEMMA ExactBinaryIsInteger ==
  ASSUME exact \in Exacts, NEW op, NEW o, o.exact \in Exacts
  PROVE  /\ ExactBinary(op, o) \in Exacts
         /\ ExactBinary(op, o) # Inexact => exact # Inexact /\ o.exact # Inexact /\ op \in ArithmeticOps
<1>1. CASE exact = Inexact \/ o.exact = Inexact \/ op \notin ArithmeticOps
  BY <1>1 DEF ExactBinary, Exacts
<1>2. CASE ~(exact = Inexact \/ o.exact = Inexact \/ op \notin ArithmeticOps)
  <2>1. PICK a \in Int, b \in Int : a = exact /\ b = o.exact
    BY <1>2 DEF Exacts
  <2>2. /\ a + b \in Int /\ a - b \in Int /\ a * b \in Int
        /\ b # 0 => Quotient(a, b) \in Int /\ Remainder(a, b) \in Int
    BY QuotientIsInteger
  <2>3. CASE op \in {"/", "%"}
    <3>1. ExactBinary(op, o) \in {Inexact, Quotient(a, b), Remainder(a, b)}
      BY <1>2, <2>1, <2>3 DEF ExactBinary
    <3>2. b = 0 => ExactBinary(op, o) = Inexact
      BY <1>2, <2>1, <2>3 DEF ExactBinary
    <3> QED
      BY <1>2, <2>2, <3>1, <3>2 DEF Exacts
  <2>4. CASE op \notin {"/", "%"}
    <3>1. ExactBinary(op, o) \in {a + b, a - b, a * b}
      BY <1>2, <2>1, <2>4 DEF ExactBinary, ArithmeticOps
    <3> QED
      BY <1>2, <2>2, <3>1 DEF Exacts
  <2> QED
    BY <2>3, <2>4
<1> QED
  BY <1>1, <1>2

\* What is computed in the type is the integer of the operation, if that is in
\* its range.
LEMMA SameNumber ==
  ASSUME NEW op \in ArithmeticOps, exact # Inexact, NEW o, o.exact # Inexact,
         acc.v = exact, o.val.v = o.exact, NEW T, T = DescribedBinary(described, o.type),
         NEW n, n = ExactBinary(op, o), n # Inexact, Wrap(T, n) = n,
         NEW m, Computes(op, acc, o.val, T, m)
  PROVE  Wrap(T, m) = n
<1>1. CASE op = "+"
  <2>1. n = exact + o.exact
    BY <1>1 DEF ExactBinary, ArithmeticOps
  <2>2. Wrap(T, m) = Wrap(T, acc.v + o.val.v)
    BY <1>1 DEF Computes
  <2> QED
    BY <2>1, <2>2, Zenon
<1>2. CASE op = "-"
  <2>1. n = exact - o.exact
    BY <1>2 DEF ExactBinary, ArithmeticOps
  <2>2. Wrap(T, m) = Wrap(T, acc.v - o.val.v)
    BY <1>2 DEF Computes
  <2> QED
    BY <2>1, <2>2, Zenon
<1>3. CASE op = "*"
  <2>1. n = exact * o.exact
    BY <1>3 DEF ExactBinary, ArithmeticOps
  <2>2. Wrap(T, m) = Wrap(T, acc.v * o.val.v)
    BY <1>3 DEF Computes
  <2> QED
    BY <2>1, <2>2, Zenon
<1>4. CASE op = "/"
  <2>1. exact \in RangeOf(T) /\ o.exact \in RangeOf(T) /\ n = Quotient(exact, o.exact)
    BY <1>4 DEF ExactBinary, ArithmeticOps
  <2>2. m = Quotient(acc.v, o.val.v)
    BY <1>4, <2>1 DEF Computes
  <2> QED
    BY <2>1, <2>2, Zenon
<1>5. CASE op = "%"
  <2>1. exact \in RangeOf(T) /\ o.exact \in RangeOf(T) /\ n = Remainder(exact, o.exact)
    BY <1>5 DEF ExactBinary, ArithmeticOps
  <2>2. m = Remainder(acc.v, o.val.v)
    BY <1>5, <2>1 DEF Computes
  <2> QED
    BY <2>1, <2>2, Zenon
<1> QED
  BY <1>1, <1>2, <1>3, <1>4, <1>5 DEF ArithmeticOps

\* A binary operation on operands that are what they should be.
LEMMA BinaryMatches ==
  ASSUME NEW op \in BinaryOps, acc \in Values, exact \in Exacts, Matches(acc, exact, described),
         NEW o, IsOperand(o),
         ~ShiftException(op, described, o.type), NEW x \in Values, x = Binary(op, acc, o.val),
         NEW T, T = DescribedBinary(described, o.type), NEW n, n = ExactBinary(op, o)
  PROVE  Matches(x, InRange(T, n), T)
<1>1. /\ n \in Exacts
      /\ n # Inexact => exact # Inexact /\ o.exact # Inexact /\ op \in ArithmeticOps
  BY ExactBinaryIsInteger DEF IsOperand
<1>2. BinaryResult(op, acc, o.val, x) /\ x \notin {Error, Trap}
  BY BinaryValues, NoValues DEF IsOperand
<1>3. CASE x = NullValue /\ (acc.type = "Null" \/ o.val.type = "Null")
  <2>1. n = Inexact
    BY <1>1, <1>3, TypeNames DEF IsOperand, Matches
  <2>2. InRange(T, n) = Inexact
    BY <2>1 DEF InRange
  <2> QED
    BY <1>3, <2>2, PlainValues DEF Matches
<1>4. CASE acc.type \in IntTypes /\ o.val.type \in IntTypes
  <2>1. acc.type = described /\ o.val.type = o.type /\ described \in IntTypes /\ o.type \in IntTypes
    BY <1>4, TypeNames DEF Matches, IsOperand
  <2>2. T = NumericResultType(described, o.type)
    BY <2>1 DEF DescribedBinary
  <2>3. T = TypeOfBinary(op, acc, o.val) /\ T \in IntTypes
    BY <2>1, <2>2, CommonTypeDescribed, PromotedDescribed DEF TypeOfBinary, ShiftException
  <2>4. PICK m \in Int : x = Val(T, Wrap(T, m)) /\ Computes(op, acc, o.val, T, m)
    <3>1. x # NullValue
      <4>1. \/ acc.type = "Null" \/ o.val.type = "Null"
            \/ \E m \in Int : x = Val(T, Wrap(T, m))
        BY <1>2, <2>3, Zenon DEF BinaryResult
      <4>2. acc.type # "Null" /\ o.val.type # "Null" /\ T # "Null"
        BY <1>4, <2>3, TypeNames
      <4>3. PICK m \in Int : x = Val(T, Wrap(T, m))
        BY <4>1, <4>2, Zenon
      <4>4. x.type = T
        BY <4>3, ValFields
      <4> QED
        BY <4>2, <4>4, PlainValues
    <3> QED
      BY <1>2, <2>3, <3>1, Zenon DEF BinaryResult
  <2>5. x.type = T /\ x.v = Wrap(T, m)
    BY <2>4, ValFields
  <2>6. ASSUME InRange(T, n) # Inexact PROVE Wrap(T, m) = n /\ InRange(T, n) = n
    <3>1. InRange(T, n) = n /\ n # Inexact /\ n \in Int /\ n \in RangeOf(T)
      BY <1>1, <2>6, InRangeFacts
    <3>2. exact # Inexact /\ o.exact # Inexact /\ op \in ArithmeticOps
      BY <1>1, <3>1
    <3>3. acc.v = exact /\ o.val.v = o.exact
      BY <3>2 DEF Matches, IsOperand
    <3>4. Wrap(T, n) = n
      BY <2>3, <3>1, WrapIdentity
    <3>5. Wrap(T, m) = n
      BY <2>4, <3>1, <3>2, <3>3, <3>4, SameNumber
    <3> QED
      BY <3>1, <3>5
  <2> QED
    BY <2>3, <2>5, <2>6 DEF Matches
<1> QED
  BY <1>2, <1>3, <1>4 DEF BinaryResult

LEMMA BinaryKeeps ==
  ASSUME IInv, NEW op \in BinaryOps, ApplyBinary(op)
  PROVE  IInv'
<1>1. PICK o \in Operands :
        /\ Step /\ acc # Nothing
        /\ Evaluated(Binary(op, acc, o.val), DescribedBinary(described, o.type), ExactBinary(op, o),
                     agree /\ ~ShiftException(op, described, o.type),
                     valid /\ ValidOperand(described) /\ ValidOperand(o.type))
  BY DEF ApplyBinary
<1> DEFINE x == Binary(op, acc, o.val)
           T == DescribedBinary(described, o.type)
           n == ExactBinary(op, o)
           ok == agree /\ ~ShiftException(op, described, o.type)
           v == valid /\ ValidOperand(described) /\ ValidOperand(o.type)
<1>2. IsOperand(o)
  BY OperandsAreRight DEF IInv
<1>3. acc \in Values /\ described \in Types /\ exact \in Exacts /\ agree \in BOOLEAN /\ valid \in BOOLEAN
  BY <1>1 DEF IInv, ExpressionOK
<1>4. n \in Exacts
  BY <1>2, <1>3, ExactBinaryIsInteger DEF IsOperand
<1>5. T \in Types
  <2>1. described \in IntTypes /\ o.type \in IntTypes => NumericResultType(described, o.type) \in IntTypes
    BY CommonTypeDescribed
  <2> QED
    BY <2>1, TypeNames DEF DescribedBinary
<1>6. x \in Values \cup {Error, Trap}
  <2>1. BinaryResult(op, acc, o.val, x)
    BY <1>2, <1>3, BinaryValues DEF IsOperand
  <2>2. acc.type \in IntTypes /\ o.val.type \in IntTypes => TypeOfBinary(op, acc, o.val) \in IntTypes
    BY CommonTypeDescribed, PromotedDescribed DEF TypeOfBinary
  <2> HIDE DEF x
  <2>3. CASE x = NullValue
    BY <2>3, PlainValues
  <2>4. CASE x \notin {Error, Trap} /\ x # NullValue
    <3>1. PICK t \in IntTypes, m \in Int : x = Val(t, Wrap(t, m))
      BY <2>1, <2>2, <2>4 DEF BinaryResult
    <3> QED
      BY <3>1, WrappedValue
  <2> QED
    BY <2>3, <2>4
<1>7. ok \in BOOLEAN /\ v \in BOOLEAN
  BY <1>3 DEF ValidOperand
<1>8. ASSUME x \in Values, ok PROVE Matches(x, InRange(T, n), T)
  <2>1. Matches(acc, exact, described) /\ ~ShiftException(op, described, o.type)
    BY <1>1, <1>8 DEF IInv, ExpressionOK
  <2> QED
    BY <1>1, <1>2, <1>3, <1>8, <2>1, BinaryMatches
<1> HIDE DEF x, T, n, ok, v
<1>9. Evaluable(x, T, n, ok, v)
  BY <1>4, <1>5, <1>6, <1>7, <1>8 DEF Evaluable
<1>10. Step /\ Evaluated(x, T, n, ok, v)
  BY <1>1 DEF x, T, n, ok, v
<1> QED
  BY <1>9, <1>10, EvaluatedKeeps

LEMMA ComparisonKeeps ==
  ASSUME IInv, NEW op \in Comparisons, ApplyComparison(op)
  PROVE  IInv'
<1>1. PICK o \in Operands : /\ Step /\ acc # Nothing
                            /\ Evaluated(Compare(op, acc, o.val), "Bool", Inexact, TRUE, valid)
  BY DEF ApplyComparison
<1>2. acc \in Values /\ o.val \in Values /\ valid \in BOOLEAN
  BY <1>1, OperandsAreRight DEF IInv, ExpressionOK, IsOperand
<1>3. PICK x : x = Compare(op, acc, o.val)
  OBVIOUS
<1>4. x = Error \/ (x \in Values /\ x.type = "Bool")
  BY <1>2, <1>3, CompareValues
<1>5. InRange("Bool", Inexact) = Inexact
  BY DEF InRange
<1>6. Inexact \in Exacts /\ "Bool" \in Types
  BY TypeNames DEF Exacts
<1>7. Evaluable(x, "Bool", Inexact, TRUE, valid)
  BY <1>2, <1>4, <1>5, <1>6, NoValues DEF Evaluable, Matches
<1> QED
  BY <1>1, <1>3, <1>7, EvaluatedKeeps

\* A conversion keeps the number, if the target has a place for it.
LEMMA ConversionMatches ==
  ASSUME NEW y \in Values, NEW n \in Exacts, NEW u, Matches(y, n, u),
         NEW t \in Types \ {"Null"}, NEW x \in Values, x = As(t, y), ~SignLost(y, t)
  PROVE  Matches(x, InRange(t, n), t)
<1>1. x.type = t
  BY AsValues, NoValues
<1>2. ASSUME InRange(t, n) # Inexact PROVE InRange(t, n) = n /\ t \in IntTypes /\ x.v = n
  <2>1. InRange(t, n) = n /\ n # Inexact /\ t \in IntTypes /\ n \in RangeOf(t)
    BY <1>2, InRangeFacts
  <2>2. y.type \in IntTypes /\ y.v = n
    BY <2>1 DEF Matches
  <2>3. x = Val(t, y.v)
    BY <2>1, <2>2, AsValues, AsIntValues
  <2> QED
    BY <2>1, <2>2, <2>3, ValFields
<1> QED
  BY <1>1, <1>2 DEF Matches

LEMMA CastKeeps ==
  ASSUME IInv, NEW t \in Types \ {"Null"}, ApplyCast(t)
  PROVE  IInv'
<1> DEFINE x == CastTo(t, acc)
           n == IF ~agree \/ SignLost(acc, t) \/ CastException(t) THEN Inexact ELSE exact
           ok == ~CastException(t)
<1>1. Step /\ acc # Nothing /\ Evaluated(x, t, n, ok, valid)
  BY DEF ApplyCast
<1>2. acc \in Values /\ exact \in Exacts /\ valid \in BOOLEAN
  BY <1>1 DEF IInv, ExpressionOK
<1>3. n \in Exacts
  BY <1>2 DEF Exacts
<1>4. x \in Values \cup {Error}
  BY <1>2, CastValues
<1>5. ASSUME x \in Values, ok PROVE Matches(x, InRange(t, n), t)
  <2>1. x = As(t, acc)
    BY <1>2, <1>5, CastValues
  <2>2. CASE ~agree \/ SignLost(acc, t)
    <3>1. n = Inexact
      BY <2>2
    <3>2. InRange(t, n) = Inexact
      BY <3>1 DEF InRange
    <3>3. x.type = t
      BY <1>2, <1>5, <2>1, AsValues, NoValues
    <3> QED
      BY <3>2, <3>3 DEF Matches
  <2>3. CASE agree /\ ~SignLost(acc, t)
    <3>1. n = exact
      BY <1>5, <2>3
    <3>2. Matches(acc, exact, described)
      BY <1>1, <2>3 DEF IInv, ExpressionOK
    <3> HIDE DEF x, n
    <3> QED
      BY <1>2, <1>5, <2>1, <2>3, <3>1, <3>2, ConversionMatches
  <2> QED
    BY <2>2, <2>3
<1>6. ok \in BOOLEAN
  BY DEF CastException
<1> HIDE DEF x, n, ok
<1>7. Evaluable(x, t, n, ok, valid)
  BY <1>2, <1>3, <1>4, <1>5, <1>6 DEF Evaluable
<1> QED
  BY <1>1, <1>7, EvaluatedKeeps

\* The end of a statement that writes column c.
LEMMA EndStatementKeeps ==
  ASSUME IInv, Step, NEW c \in Columns, NEW x, NEW n \in Exacts, EndStatement(c, x, n),
         x \in Values \cup {Error}, x \in Values => Matches(x, InRange(ColumnType[c], n), ColumnType[c])
  PROVE  IInv'
<1>1. ExpressionOK'
  BY NothingOK DEF EndStatement
<1>2. ProcessOK'
  BY StepCounts DEF EndStatement, IInv, ProcessOK
<1>3. CASE x = Error
  <2>1. CellsOK'
    BY <1>3, CellsStay DEF EndStatement, IInv
  <2> QED
    BY <1>1, <1>2, <2>1 DEF IInv
<1>4. CASE x # Error
  <2>1. PICK e : e = InRange(ColumnType[c], n)
    OBVIOUS
  <2>2. e \in Exacts
    BY <2>1, InRangeFacts
  <2>3. cells' = [cells EXCEPT ![c] = x] /\ cellExact' = [cellExact EXCEPT ![c] = e]
    BY <1>4, <2>1 DEF EndStatement
  <2>4. x \in Values /\ Matches(x, e, ColumnType[c])
    BY <1>4, <2>1
  <2>5. cells \in [Columns -> Values] /\ cellExact \in [Columns -> Exacts]
    BY DEF IInv, CellsOK
  <2>6. cells' \in [Columns -> Values] /\ cellExact' \in [Columns -> Exacts]
    BY <2>2, <2>3, <2>4, <2>5
  <2>7. ASSUME NEW d \in Columns PROVE Matches(cells'[d], cellExact'[d], ColumnType[d])
    <3>1. CASE d = c
      <4>1. cells'[d] = x /\ cellExact'[d] = e
        BY <2>3, <2>5, <3>1
      <4> QED
        BY <2>4, <3>1, <4>1
    <3>2. CASE d # c
      <4>1. cells'[d] = cells[d] /\ cellExact'[d] = cellExact[d]
        BY <2>3, <2>5, <3>2
      <4>2. Matches(cells[d], cellExact[d], ColumnType[d])
        BY DEF IInv, CellsOK
      <4> QED
        BY <4>1, <4>2
    <3> QED
      BY <3>1, <3>2
  <2>8. CellsOK'
    BY <2>6, <2>7 DEF CellsOK, Matches
  <2> QED
    BY <1>1, <1>2, <2>8 DEF IInv
<1> QED
  BY <1>3, <1>4

LEMMA StoreKeeps ==
  ASSUME IInv, NEW c \in Columns, Store(c)
  PROVE  IInv'
<1> DEFINE t == ColumnType[c]
           x == Stored(c, acc)
           n == IF ~agree \/ SignLost(acc, t) THEN Inexact ELSE exact
<1>1. Step /\ acc # Nothing /\ EndStatement(c, x, n)
  BY DEF Store
<1>2. acc \in Values /\ exact \in Exacts /\ t \in Types \ {"Null"}
  BY <1>1, ColumnTypes DEF IInv, ExpressionOK
<1>3. n \in Exacts
  BY <1>2 DEF Exacts
<1>4. agree => Matches(acc, exact, described)
  BY <1>1 DEF IInv, ExpressionOK
<1>5. x \in Values \cup {Error} /\ (x \in Values => Matches(x, InRange(t, n), t))
  <2>1. CASE acc.type = "Null"
    <3>1. x \in {Error, NullValue}
      BY <2>1 DEF Stored
    <3>2. n = Inexact
      BY <1>4, <2>1, TypeNames DEF Matches
    <3>3. InRange(t, n) = Inexact
      BY <3>2 DEF InRange
    <3> HIDE DEF x, n, t
    <3> QED
      BY <3>1, <3>3, PlainValues, NoValues DEF Matches
  <2>2. CASE acc.type # "Null" /\ acc.type = t
    <3>1. x = acc
      BY <2>2 DEF Stored
    <3>2. InRange(t, n) # Inexact => InRange(t, n) = exact /\ t \in IntTypes /\ exact # Inexact /\ agree
      BY <1>3, InRangeFacts
    <3>3. InRange(t, n) # Inexact => acc.v = InRange(t, n)
      BY <1>4, <3>2 DEF Matches
    <3> HIDE DEF x, n, t
    <3> QED
      BY <1>2, <2>2, <3>1, <3>2, <3>3 DEF Matches
  <2>3. CASE acc.type # "Null" /\ acc.type # t
    <3>1. x = As(t, acc)
      BY <2>3 DEF Stored
    <3>2. x = Error \/ (x \in Values /\ x.type = t)
      BY <1>2, <3>1, AsValues
    <3>3. CASE ~agree \/ SignLost(acc, t)
      <4>1. n = Inexact
        BY <3>3
      <4>2. InRange(t, n) = Inexact
        BY <4>1 DEF InRange
      <4> HIDE DEF x, n, t
      <4> QED
        BY <3>2, <4>2, NoValues DEF Matches
    <3>4. CASE agree /\ ~SignLost(acc, t)
      <4>1. n = exact
        BY <3>4
      <4> HIDE DEF x, n, t
      <4> QED
        BY <1>2, <1>4, <3>1, <3>2, <3>4, <4>1, ConversionMatches
    <3> QED
      BY <3>3, <3>4
  <2> QED
    BY <2>1, <2>2, <2>3
<1> HIDE DEF x, n
<1> QED
  BY <1>1, <1>3, <1>5, EndStatementKeeps

\* Modulo a narrower width, a number of 64 bits is what it stands for.
LEMMA WrapThroughWidest ==
  ASSUME NEW t \in IntTypes, NEW n \in Int
  PROVE  Wrap(t, Wrap("UInt64", n)) = Wrap(t, n)
<1>1. "UInt64" \in IntTypes
  BY DEF IntTypes, Unsigned
<1>2. PICK M \in Nat, m \in Nat : M = Modulus("UInt64") /\ m = Modulus(t)
  BY <1>1, ModulusFacts
<1>3. PICK j \in Nat : M = j * m
  <2>1. PICK b : b = Bits(t)
    OBVIOUS
  <2>2. b \in Nat /\ b <= W64 /\ W64 \in Nat /\ W64 <= W64 + 1
    BY <2>1, BitsRange, WidthAssumption
  <2>3. PICK j \in Nat \ {0} : Power2[W64] = j * Power2[b]
    BY <2>2, PowerDivides
  <2>4. M = Power2[W64] /\ m = Power2[b]
    BY <1>2, <2>1, BitsOfTypes DEF Modulus
  <2> QED
    BY <2>3, <2>4
<1>4. PICK k \in Int : Wrap("UInt64", n) = n + k * M
  BY <1>1, <1>2, WrapCongruent
<1>5. k * (j * m) = (k * j) * m
  OBVIOUS
<1>6. PICK i \in Int : i = k * j
  OBVIOUS
<1>7. Wrap("UInt64", n) = n + i * m
  BY <1>3, <1>4, <1>5, <1>6, Zenon
<1>8. Wrap(t, n + i * m) = Wrap(t, n)
  BY <1>2, WrapShift, Zenon
<1> QED
  BY <1>7, <1>8, Zenon

LEMMA StoreDefaultKeeps ==
  ASSUME IInv, NEW c \in Columns, StoreDefault(c)
  PROVE  IInv'
<1>1. PICK n \in Literals \ {0} :
        Step /\ EndStatement(c, Stored(c, LiteralValue(Wrap("UInt64", -n))), -n)
  BY DEF StoreDefault
<1> DEFINE t == ColumnType[c]
           w == Wrap("UInt64", -n)
           y == LiteralValue(w)
           x == Stored(c, y)
<1>2. n \in Nat /\ 0 < n /\ -n \in Int /\ -n \in Exacts
  <2>1. Power2[W64] \in Nat
    <3>1. W64 \in 0..(W64 + 1)
      BY WidthAssumption
    <3> QED
      BY <3>1, PowerPositive
  <2>2. n \in 0..(Power2[W64] - 1) /\ n # 0
    BY LiteralAssumption
  <2> QED
    BY <2>1, <2>2 DEF Exacts
<1>3. "UInt64" \in IntTypes /\ "UInt64" \notin Signed
  BY DEF IntTypes, Unsigned, Signed
<1>4. w \in 0..(Power2[W64] - 1)
  <2>1. w \in RangeOf("UInt64")
    BY <1>2, <1>3, WrapInRange
  <2>2. RangeOf("UInt64") = 0..(Modulus("UInt64") - 1)
    BY <1>3, RangeBounds
  <2>3. Modulus("UInt64") = Power2[W64]
    BY BitsOfTypes DEF Modulus
  <2> HIDE DEF w
  <2> QED
    BY <2>1, <2>2, <2>3, Zenon
<1> HIDE DEF w
<1>5. y \in Values /\ y.v = w /\ y.type \in Unsigned /\ w \in Int
  BY <1>4, LiteralValues
<1> HIDE DEF y
<1>6. y.type # "Null" /\ y.type \in IntTypes /\ y.type # "Int8" /\ y.type \notin Signed
  BY <1>5 DEF Unsigned, IntTypes, Signed
<1>7. t \in Types \ {"Null"}
  BY ColumnTypes
<1>8. x = IF y.type = t THEN y ELSE As(t, y)
  BY <1>6 DEF Stored
<1>9. x \in Values \cup {Error} /\ (x \in Values => x.type = t)
  BY <1>5, <1>7, <1>8, AsValues, NoValues
<1> HIDE DEF x
<1>10. ASSUME InRange(t, -n) # Inexact PROVE InRange(t, -n) = -n /\ t \in IntTypes /\ x.v = -n
  <2>1. InRange(t, -n) = -n /\ t \in IntTypes /\ -n \in RangeOf(t)
    BY <1>2, <1>10, InRangeFacts
  <2>2. t \in Signed
    <3>1. PICK M \in Nat : M = Modulus(t)
      BY <2>1, ModulusFacts
    <3>2. -n \notin 0..(M - 1)
      BY <1>2
    <3> HIDE DEF t
    <3> QED
      BY <2>1, <3>1, <3>2, RangeBounds
  <2>3. x = AsInt(t, y)
    BY <1>5, <1>6, <1>7, <1>8, <2>1, <2>2, AsValues
  <2>4. AsInt(t, y) = Val(t, Wrap(t, w))
    BY <1>5, <1>6, TypeNames DEF AsInt
  <2>5. Wrap(t, w) = Wrap(t, -n)
    BY <1>2, <2>1, WrapThroughWidest DEF w
  <2>6. Wrap(t, -n) = -n
    BY <1>2, <2>1, WrapIdentity
  <2>7. x = Val(t, -n)
    BY <2>3, <2>4, <2>5, <2>6, Zenon
  <2> QED
    BY <2>1, <2>7, ValFields
<1>11. Matches(x, InRange(t, -n), t)  \/ x \notin Values
  BY <1>9, <1>10 DEF Matches
<1>12. Step /\ EndStatement(c, x, -n)
  BY <1>1 DEF x, y, w
<1> QED
  BY <1>2, <1>9, <1>11, <1>12, EndStatementKeeps

-----------------------------------------------------------------------------
(* The theorems.                                                           *)

LEMMA InitInv == Init => IInv
<1> SUFFICES ASSUME Init PROVE IInv
  OBVIOUS
<1>1. ExpressionOK
  BY TypeNames DEF Init, ExpressionOK, Exacts
<1>2. ProcessOK
  BY BoundAssumption DEF Init, ProcessOK
<1>3. ASSUME NEW c \in Columns
      PROVE  /\ cells[c] \in Values /\ cellExact[c] \in Exacts
             /\ Matches(cells[c], cellExact[c], ColumnType[c])
  <2>1. PICK t \in Types : t = ColumnType[c]
    BY ColumnTypes
  <2>2. CASE c \in NotNull
    <3>1. cells[c] = Val(t, 0) /\ cellExact[c] = InRange(t, 0)
      BY <2>1, <2>2 DEF Init
    <3>2. 0 \in Exacts /\ 0 \in Int
      BY DEF Exacts
    <3>3. Val(t, 0) \in Values /\ Val(t, 0).type = t /\ Val(t, 0).v = 0
      BY <3>2, SmallNumbers, MakeValue, ValFields
    <3>4. InRange(t, 0) \in Exacts /\ (InRange(t, 0) # Inexact => InRange(t, 0) = 0 /\ t \in IntTypes)
      BY <3>2, InRangeFacts
    <3> QED
      BY <2>1, <3>1, <3>3, <3>4 DEF Matches
  <2>3. CASE c \notin NotNull
    <3>1. cells[c] = NullValue /\ cellExact[c] = Inexact
      BY <2>3 DEF Init
    <3> QED
      BY <3>1, PlainValues DEF Matches, Exacts
  <2> QED
    BY <2>2, <2>3
<1>4. cells = [c \in Columns |-> cells[c]] /\ cellExact = [c \in Columns |-> cellExact[c]]
  BY DEF Init
<1>5. CellsOK
  BY <1>3, <1>4 DEF CellsOK
<1> QED
  BY <1>1, <1>2, <1>5 DEF IInv

LEMMA NextInv == IInv /\ [Next]_vars => IInv'
<1> SUFFICES ASSUME IInv, [Next]_vars PROVE IInv'
  OBVIOUS
<1>1. CASE Start
  BY <1>1, StartKeeps
<1>2. CASE \E op \in UnaryOps : ApplyUnary(op)
  BY <1>2, UnaryKeeps
<1>3. CASE \E op \in BinaryOps : ApplyBinary(op)
  BY <1>3, BinaryKeeps
<1>4. CASE \E op \in Comparisons : ApplyComparison(op)
  BY <1>4, ComparisonKeeps
<1>5. CASE \E t \in Types \ {"Null"} : ApplyCast(t)
  BY <1>5, CastKeeps
<1>6. CASE \E c \in Columns : Store(c) \/ StoreDefault(c)
  BY <1>6, StoreKeeps, StoreDefaultKeeps
<1>7. CASE UNCHANGED vars
  BY <1>7 DEF vars, IInv, ExpressionOK, CellsOK, ProcessOK
<1> QED
  BY <1>1, <1>2, <1>3, <1>4, <1>5, <1>6, <1>7 DEF Next

THEOREM VariantInvariant == Spec => []IInv
BY InitInv, NextInv, PTL DEF Spec

\* Values keep to the ranges of their types, in expressions and columns.
THEOREM TypeCorrect == Spec => []TypeOK
<1>1. IInv => TypeOK
  <2> SUFFICES ASSUME IInv PROVE TypeOK
    OBVIOUS
  <2>1. ASSUME NEW x \in Values \cup {Nothing}
        PROVE  /\ x.type \in Types \cup {"Nothing"}
               /\ x.type \in IntTypes => x.v \in RangeOf(x.type)
    <3>1. Nothing.type = "Nothing"
      BY ValFields DEF Nothing
    <3> QED
      BY <3>1, FieldsOfValue, TypeNames
  <2>2. \A x \in {acc} \cup {cells[c] : c \in Columns} : x \in Values \cup {Nothing}
    BY DEF IInv, ExpressionOK, CellsOK
  <2>3. \A c \in Columns : cells[c].type \in {"Null", ColumnType[c]}
    BY DEF IInv, CellsOK, Matches
  <2> QED
    BY <2>1, <2>2, <2>3 DEF TypeOK, IInv, ExpressionOK, ProcessOK
<1> QED
  BY <1>1, VariantInvariant, PTL

\* For any widths, expressions of any length that stay within their described
\* types, and the columns they are stored in, have the values of integer
\* arithmetic: C++ promotions and conversions modulo the width (operator+ ...
\* operator%, asInt8 ... asUInt64, Column::writeRecord) never change them.
THEOREM ArithmeticIsExact == Spec => []ExactWhileInRange
<1>1. IInv => ExactWhileInRange
  BY DEF IInv, ExpressionOK, CellsOK, Matches, ExactWhileInRange
<1> QED
  BY <1>1, VariantInvariant, PTL

\* For any widths, the type by which SELECT describes a column, getColumnDataType,
\* is that of the value in the row, but for NULL and the named operators.
THEOREM DescribedTypesAreActual == Spec => []DescribedTypeIsActual
<1>1. IInv => DescribedTypeIsActual
  BY DEF IInv, ExpressionOK, Matches, DescribedTypeIsActual
<1> QED
  BY <1>1, VariantInvariant, PTL

\* A value that its signed type holds is compared as the number it is.
LEMMA ComparedAsItself ==
  ASSUME NEW x \in Values, x.type \in IntTypes, NEW y, NEW b,
         FitsSigned(x) \/ y.type \notin Signed
  PROVE  ComparedAs(x, y, b) = x.v
<1>1. CASE x.type \in {"UInt32", "UInt64"} /\ y.type \in Signed
  <2>1. x.type \in Unsigned /\ SignedTypeOf(x.type) \in IntTypes
    BY <1>1 DEF Unsigned, SignedTypeOf, IntTypes, Signed
  <2>2. x.v \in RangeOf(SignedTypeOf(x.type)) /\ x.v \in Int
    BY <1>1, <2>1, FieldsOfValue DEF FitsSigned
  <2>3. Wrap(SignedTypeOf(x.type), x.v) = x.v
    BY <2>1, <2>2, WrapIdentity
  <2> QED
    BY <2>3 DEF ComparedAs
<1>2. CASE ~(x.type \in {"UInt32", "UInt64"} /\ y.type \in Signed)
  BY <1>2 DEF ComparedAs
<1> QED
  BY <1>1, <1>2

\* For any widths, comparisons (compatibleEqual, compatibleLess, ...) agree with
\* the order of the integers in both directions, unless an unsigned operand is
\* too large for the signed type of its width.
THEOREM ComparisonsAreExact == Spec => []OrderIsExact
<1>1. IInv => OrderIsExact
  <2> SUFFICES ASSUME IInv, NEW c \in Columns, NEW x, x = acc, NEW y, y = cells[c],
                      {x.type, y.type} \subseteq IntTypes,
                      {x.type, y.type} \subseteq Unsigned \/ (FitsSigned(x) /\ FitsSigned(y))
               PROVE  /\ compatibleLess(x, y) <=> x.v < y.v
                      /\ compatibleGreater(x, y) <=> x.v > y.v
                      /\ compatibleLessOrEqual(x, y) <=> x.v <= y.v
                      /\ compatibleGreaterOrEqual(x, y) <=> x.v >= y.v
                      /\ compatibleEqual(x, y) <=> x.v = y.v
                      /\ compatibleEqual(y, x) <=> x.v = y.v
                      /\ compatibleLess(y, x) <=> x.v > y.v
    BY Zenon DEF OrderIsExact
  <2>1. x \in Values /\ y \in Values /\ x.type \in IntTypes /\ y.type \in IntTypes
    <3>1. Nothing.type = "Nothing"
      BY ValFields DEF Nothing
    <3> QED
      BY <3>1, TypeNames DEF IInv, ExpressionOK, CellsOK
  <2>2. \A t \in Unsigned : t \notin Signed
    BY DEF Unsigned, Signed
  <2>3. (FitsSigned(x) \/ y.type \notin Signed) /\ (FitsSigned(y) \/ x.type \notin Signed)
    BY <2>2
  <2>4. /\ ComparedAs(x, y, FALSE) = x.v /\ ComparedAs(x, y, TRUE) = x.v
        /\ ComparedAs(y, x, FALSE) = y.v /\ ComparedAs(y, x, TRUE) = y.v
    BY <2>1, <2>3, ComparedAsItself
  <2>5. x.v \in Int /\ y.v \in Int
    BY <2>1, FieldsOfValue
  <2> QED
    BY <2>4, <2>5 DEF compatibleLess, compatibleGreater, compatibleLessOrEqual, compatibleGreaterOrEqual,
                      compatibleEqual
<1> QED
  BY <1>1, VariantInvariant, PTL
=============================================================================
