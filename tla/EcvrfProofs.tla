---------------------------- MODULE EcvrfProofs ----------------------------
(***************************************************************************)
(* Proofs about packages/ecvrf.  First Ecvrf: every group of a prime order *)
(* times a cofactor, every radix and every length of the encodings that    *)
(* SuiteAssumption allows.  Then VrfStream: every length of bytes, words   *)
(* and blocks, every set of paths and of arguments that StreamAssumption   *)
(* allows.                                                                 *)
(***************************************************************************)
EXTENDS Ecvrf, VrfStream, Integers, FiniteSetTheorems, FunctionTheorems,
        WellFoundedInduction, TLAPS

-----------------------------------------------------------------------------
(* Division.                                                               *)

\* A nonempty set of naturals has a least element: the form of induction the
\* provers can use, for it is about a set and not about an operator.
LEMMA LeastNatural ==
    ASSUME NEW T, T \subseteq Nat, T # {}
    PROVE  \E m \in T : \A n \in T : m <= n
  <1> DEFINE R == {ss \in Nat \X Nat : ss[1] < ss[2]}
  <1>1. IsWellFoundedOn(R, Nat)
    BY NatLessThanWellFounded, Zenon DEF OpToRel
  <1>2. \A m, n \in Nat : <<m, n>> \in R <=> m < n
    OBVIOUS
  <1> HIDE DEF R
  <1>3. PICK m \in T : \A n \in T : ~ (<<n, m>> \in R)
    BY <1>1, WFMin, Zenon
  <1>4. \A n \in T : ~(n < m)
    BY <1>2, <1>3
  <1> QED BY <1>4

LEMMA DivMod ==
    ASSUME NEW a \in Nat, NEW n \in Nat \ {0}
    PROVE  /\ a = n * (a \div n) + (a % n)
           /\ a % n \in 0..n - 1 /\ a \div n \in Nat
  <1>1. a = n * (a \div n) + (a % n) /\ a % n \in 0..n - 1 /\ a \div n \in Int
    OBVIOUS
  <1>2. ~(a \div n <= -1)
    <2> SUFFICES ASSUME a \div n <= -1 PROVE FALSE
      OBVIOUS
    <2>1. n * (a \div n) <= -n
      BY <1>1
    <2> QED BY <1>1, <2>1
  <1> QED BY <1>1, <1>2

LEMMA Division ==
    ASSUME NEW a \in Nat, NEW n \in Nat \ {0}
    PROVE  \E d \in Nat, r \in 0..n - 1 :
              d = a \div n /\ r = a % n /\ a = n * d + r
  BY DivMod

\* A number below n that is a multiple of n from another one is that one.
LEMMA SameResidue ==
    ASSUME NEW n \in Nat \ {0}, NEW m \in Int, NEW r \in 0..n - 1,
           NEW s \in 0..n - 1, r = s + m * n
    PROVE  r = s /\ m = 0
  <1>1. CASE m = 0
    BY <1>1
  <1>2. CASE m >= 1
    <2>1. m * n >= n
      BY <1>2
    <2> QED BY <2>1
  <1>3. CASE m <= -1
    <2>1. m * n <= -n
      BY <1>3
    <2> QED BY <2>1
  <1> QED BY <1>1, <1>2, <1>3

LEMMA DivUnique ==
    ASSUME NEW a \in Nat, NEW n \in Nat \ {0}, NEW m \in Int,
           NEW r \in 0..n - 1, a = n * m + r
    PROVE  a \div n = m /\ a % n = r
  <1>1. PICK d \in Nat, e \in 0..n - 1 : d = a \div n /\ e = a % n
    BY DivMod
  <1>2. a = n * d + e
    BY <1>1, DivMod
  <1>3. r = e + (d - m) * n
    BY <1>2
  <1>4. r = e /\ d - m = 0
    BY <1>3, SameResidue
  <1> QED BY <1>1, <1>4

\* Residues agree exactly when the numbers differ by a multiple.
LEMMA ModEqual ==
    ASSUME NEW a \in Nat, NEW b \in Nat, NEW n \in Nat \ {0}
    PROVE  /\ a % n = b % n => \E m \in Int : a = b + m * n
           /\ (\E m \in Int : a = b + m * n) => a % n = b % n
  <1>1. PICK d \in Nat, r \in 0..n - 1 :
            d = a \div n /\ r = a % n /\ a = n * d + r
    BY DivMod
  <1>2. PICK e \in Nat, s \in 0..n - 1 :
            e = b \div n /\ s = b % n /\ b = n * e + s
    BY DivMod
  <1>3. ASSUME r = s PROVE \E m \in Int : a = b + m * n
    <2>1. d - e \in Int /\ a = b + (d - e) * n
      BY <1>1, <1>2, <1>3
    <2> QED BY <2>1
  <1>4. ASSUME NEW m \in Int, a = b + m * n PROVE r = s
    <2>1. r = s + (m + e - d) * n
      <3>1. n * d + r = n * e + s + m * n
        BY <1>1, <1>2, <1>4
      <3> QED BY <3>1
    <2> QED BY <2>1, SameResidue
  <1> QED BY <1>1, <1>2, <1>3, <1>4

Congruent(a, b, n) == \E m \in Int : a = b + m * n

LEMMA CongruentResidues ==
    ASSUME NEW a \in Nat, NEW b \in Nat, NEW n \in Nat \ {0}
    PROVE  a % n = b % n <=> Congruent(a, b, n)
  BY ModEqual, Zenon DEF Congruent

LEMMA DivDiv ==
    ASSUME NEW a \in Nat, NEW n \in Nat \ {0}, NEW r \in Nat \ {0}
    PROVE  (a \div n) \div r = a \div (r * n)
  <1>1. PICK d \in Nat, u \in 0..n - 1 : d = a \div n /\ a = n * d + u
    BY DivMod
  <1>2. PICK e \in Nat, v \in 0..r - 1 : e = d \div r /\ d = r * e + v
    BY DivMod
  <1>3. r * n \in Nat \ {0}
    OBVIOUS
  <1>4. a = (r * n) * e + (n * v + u)
    <2>1. a = n * (r * e + v) + u
      BY <1>1, <1>2, Zenon
    <2>2. n * (r * e + v) + u = (r * n) * e + (n * v + u)
      OBVIOUS
    <2> QED BY <2>1, <2>2
  <1>5. n * v + u \in 0..r * n - 1
    <2>1. n * v <= n * (r - 1)
      OBVIOUS
    <2>2. n * (r - 1) = r * n - n
      OBVIOUS
    <2>3. n * v \in Nat /\ r * n \in Nat
      OBVIOUS
    <2> QED BY <2>1, <2>2, <2>3
  <1>6. a \div (r * n) = e
    BY <1>3, <1>4, <1>5, DivUnique
  <1> QED BY <1>1, <1>2, <1>6

\* A common factor goes through the residue.
LEMMA ScaledMod ==
    ASSUME NEW a \in Nat, NEW n \in Nat \ {0}, NEW h \in Nat \ {0}
    PROVE  (h * a) % (h * n) = h * (a % n)
  <1>1. PICK d \in Nat, r \in 0..n - 1 : r = a % n /\ a = n * d + r
    BY DivMod
  <1>2. h * n \in Nat \ {0} /\ h * a \in Nat
    OBVIOUS
  <1>3. h * a = (h * n) * d + h * r
    BY <1>1
  <1>4. h * r \in 0..h * n - 1
    <2>1. h * r <= h * (n - 1)
      OBVIOUS
    <2>2. h * (n - 1) = h * n - h
      OBVIOUS
    <2>3. h * r \in Nat /\ h * n \in Nat
      OBVIOUS
    <2> QED BY <2>1, <2>2, <2>3
  <1>5. (h * a) % (h * n) = h * r
    <2>1. PICK c \in Nat, q \in Nat \ {0} : c = h * a /\ q = h * n
      BY <1>2
    <2>2. PICK s \in 0..q - 1 : s = h * r
      BY <1>4, <2>1
    <2>3. c = q * d + s
      BY <1>3, <2>1, <2>2
    <2>4. c % q = s
      BY <2>3, DivUnique
    <2> QED BY <2>1, <2>4, <2>2
  <1> QED BY <1>1, <1>5

-----------------------------------------------------------------------------
(* Powers.                                                                 *)

PowerBody(base, g, n) == IF n = 0 THEN 1 ELSE base * g[n - 1]

IsPower(base, n, g) == g = [k \in 0..n |-> PowerBody(base, g, k)]

\* The recursion has a value up to every exponent: by induction on it.
LEMMA PowerExists ==
    ASSUME NEW base
    PROVE  \A n \in Nat : \E g : IsPower(base, n, g)
  <1> DEFINE T == {n \in Nat : ~ \E g : IsPower(base, n, g)}
  <1> SUFFICES ASSUME T # {} PROVE FALSE
    OBVIOUS
  <1>1. PICK m \in T : \A y \in T : m <= y
    BY LeastNatural, T \subseteq Nat
  <1>2. CASE m = 0
    <2> DEFINE g == [k \in 0..0 |-> 1]
    <2>1. g = [k \in 0..0 |-> PowerBody(base, g, k)]
      BY DEF PowerBody
    <2> QED BY <1>1, <1>2, <2>1 DEF IsPower
  <1>3. CASE m # 0
    <2>1. m - 1 \in Nat /\ m - 1 \notin T
      BY <1>1, <1>3
    <2>2. PICK f : IsPower(base, m - 1, f)
      BY <2>1
    <2> DEFINE g == [k \in 0..m |-> IF k < m THEN f[k] ELSE PowerBody(base, f, m)]
    <2>3. f = [k \in 0..(m - 1) |-> PowerBody(base, f, k)]
      BY <2>2 DEF IsPower
    <2>4. ASSUME NEW k \in 0..m
          PROVE  g[k] = PowerBody(base, g, k)
      <3>1. PowerBody(base, g, k) = PowerBody(base, f, k)
        <4>1. k # 0 => g[k - 1] = f[k - 1]
          BY <2>1
        <4> HIDE DEF g
        <4> QED BY <4>1 DEF PowerBody
      <3>2. k < m => f[k] = PowerBody(base, f, k)
        <4>1. k < m => k \in 0..(m - 1)
          BY <2>1
        <4> QED BY <2>3, <4>1, Zenon
      <3>3. k = m \/ k < m
        BY <2>1
      <3> QED BY <3>1, <3>2, <3>3
    <2>5. g = [k \in 0..m |-> g[k]]
      OBVIOUS
    <2> HIDE DEF g
    <2>6. g = [k \in 0..m |-> PowerBody(base, g, k)]
      BY <2>4, <2>5, Zenon
    <2> QED BY <1>1, <2>6 DEF IsPower
  <1> QED BY <1>2, <1>3

\* Two such values agree wherever both are defined.
LEMMA PowerAgrees ==
    ASSUME NEW base, NEW n \in Nat, NEW m \in Nat, NEW f, IsPower(base, n, f),
           NEW g, IsPower(base, m, g)
    PROVE  \A k \in Nat : k <= n /\ k <= m => f[k] = g[k]
  <1> DEFINE T == {k \in Nat : k <= n /\ k <= m /\ f[k] # g[k]}
  <1> SUFFICES ASSUME T # {} PROVE FALSE
    OBVIOUS
  <1>1. PICK k \in T : \A y \in T : k <= y
    BY LeastNatural, T \subseteq Nat
  <1>2. f[k] = PowerBody(base, f, k) /\ g[k] = PowerBody(base, g, k)
    <2>1. k \in 0..n /\ k \in 0..m
      BY <1>1
    <2>2. /\ f = [i \in 0..n |-> PowerBody(base, f, i)]
          /\ g = [i \in 0..m |-> PowerBody(base, g, i)]
      BY DEF IsPower
    <2>3. f[k] = PowerBody(base, f, k)
      BY <2>1, <2>2, Zenon
    <2>4. g[k] = PowerBody(base, g, k)
      BY <2>1, <2>2, Zenon
    <2> QED BY <2>3, <2>4
  <1>3. k # 0 => f[k - 1] = g[k - 1]
    <2>1. k # 0 => k - 1 \in Nat /\ k - 1 \notin T
      <3>1. k # 0 => k - 1 \in Nat /\ ~(k <= k - 1)
        BY <1>1
      <3> HIDE DEF T
      <3> QED BY <1>1, <3>1
    <2> QED BY <1>1, <2>1
  <1>4. f[k] = g[k]
    BY <1>2, <1>3 DEF PowerBody
  <1> QED BY <1>1, <1>4

Powers(power, base) ==
    power[0] = 1 /\ \A n \in Nat : power[n + 1] = base * power[n]

LEMMA PowerFunction ==
    ASSUME NEW base, NEW power,
           power = CHOOSE g : g = [n \in Nat |-> PowerBody(base, g, n)]
    PROVE  Powers(power, base)
  <1> DEFINE G(n) == CHOOSE g : IsPower(base, n, g)
             f == [n \in Nat |-> G(n)[n]]
  <1>1. \A n \in Nat : IsPower(base, n, G(n))
    BY PowerExists, Zenon
  <1>2. ASSUME NEW n \in Nat PROVE f[n] = PowerBody(base, f, n)
    <2>1. G(n)[n] = PowerBody(base, G(n), n)
      <3>1. G(n) = [k \in 0..n |-> PowerBody(base, G(n), k)]
        BY <1>1, Zenon DEF IsPower
      <3>2. n \in 0..n
        OBVIOUS
      <3> HIDE DEF G
      <3> QED BY <3>1, <3>2, Zenon
    <2>2. n # 0 => G(n)[n - 1] = G(n - 1)[n - 1]
      <3> HIDE DEF G
      <3> SUFFICES ASSUME n # 0 PROVE G(n)[n - 1] = G(n - 1)[n - 1]
        OBVIOUS
      <3>1. PICK m \in Nat : m = n - 1
        OBVIOUS
      <3>2. PICK a, b : a = G(n) /\ b = G(m)
        OBVIOUS
      <3>3. IsPower(base, n, a) /\ IsPower(base, m, b)
        BY <1>1, <3>2
      <3>4. m <= n /\ m <= m
        BY <3>1
      <3>5. a[m] = b[m]
        BY <3>3, <3>4, PowerAgrees
      <3> QED BY <3>1, <3>2, <3>5
    <2>3. f[n] = G(n)[n] /\ (n # 0 => f[n - 1] = G(n - 1)[n - 1])
      <3> HIDE DEF G
      <3> QED OBVIOUS
    <2> HIDE DEF f, G
    <2> QED BY <2>1, <2>2, <2>3 DEF PowerBody
  <1>3. f = [n \in Nat |-> PowerBody(base, f, n)]
    <2>1. f = [n \in Nat |-> f[n]]
      OBVIOUS
    <2> HIDE DEF f
    <2> QED BY <1>2, <2>1, Zenon
  <1> HIDE DEF f, G
  <1>4. power = [n \in Nat |-> PowerBody(base, power, n)]
    BY <1>3, Zenon
  <1>5. \A n \in Nat : power[n] = PowerBody(base, power, n)
    BY <1>4, Zenon
  <1>6. power[0] = 1
    BY <1>5 DEF PowerBody
  <1>7. ASSUME NEW n \in Nat
        PROVE  power[n + 1] = base * power[n]
    <2>1. n + 1 \in Nat /\ n + 1 # 0 /\ (n + 1) - 1 = n
      OBVIOUS
    <2> QED BY <1>5, <2>1 DEF PowerBody
  <1> QED BY <1>6, <1>7 DEF Powers

LEMMA PowerFacts ==
    /\ RadixPower[0] = 1
    /\ \A n \in Nat : RadixPower[n + 1] = Radix * RadixPower[n]
  <1>1. RadixPower = CHOOSE g : g = [n \in Nat |-> PowerBody(Radix, g, n)]
    BY Zenon DEF RadixPower, PowerBody
  <1>2. Powers(RadixPower, Radix)
    BY <1>1, PowerFunction, Zenon
  <1> QED BY <1>2, Zenon DEF Powers

LEMMA RadixFacts ==
    /\ Radix \in Nat \ {0} /\ MAX_CTR \in Nat \ {0}
    /\ PT_LEN \in Nat \ {0} /\ C_LEN \in Nat \ {0} /\ Q_LEN \in Nat \ {0}
    /\ COFACTOR \in Nat \ {0} /\ CURVE_ORDER \in Nat \ {0}
  BY SuiteAssumption

LEMMA PowerType == \A n \in Nat : RadixPower[n] \in Nat \ {0}
  <1> DEFINE T == {n \in Nat : RadixPower[n] \notin Nat \ {0}}
  <1> SUFFICES ASSUME T # {} PROVE FALSE
    OBVIOUS
  <1>1. PICK m \in T : \A y \in T : m <= y
    BY LeastNatural, T \subseteq Nat
  <1>2. m # 0
    BY <1>1, PowerFacts
  <1>3. PICK n \in Nat : m = n + 1
    <2>1. m - 1 \in Nat /\ m = (m - 1) + 1
      BY <1>1, <1>2
    <2> QED BY <2>1
  <1>4. RadixPower[n] \in Nat \ {0}
    BY <1>1, <1>3
  <1>5. PICK p \in Nat \ {0} : p = RadixPower[n]
    BY <1>4
  <1>6. Radix * p \in Nat \ {0}
    BY RadixFacts
  <1>7. RadixPower[m] \in Nat \ {0}
    BY <1>3, <1>5, <1>6, PowerFacts
  <1> QED BY <1>1, <1>7

-----------------------------------------------------------------------------
(* Encodings.                                                              *)

Bytes == 0..Radix - 1

\* The loop of bytesToBigIntLE.
DecodeBody(bytes, g, k) ==
    IF k = 0 THEN 0 ELSE g[k - 1] * Radix + bytes[Len(bytes) - k + 1]

IsDecode(bytes, n, g) == g = [k \in 0..n |-> DecodeBody(bytes, g, k)]

LEMMA DecodeExists ==
    ASSUME NEW bytes
    PROVE  \A n \in Nat : \E g : IsDecode(bytes, n, g)
  <1> DEFINE T == {n \in Nat : ~ \E g : IsDecode(bytes, n, g)}
  <1> SUFFICES ASSUME T # {} PROVE FALSE
    OBVIOUS
  <1>1. PICK m \in T : \A y \in T : m <= y
    BY LeastNatural, T \subseteq Nat
  <1>2. CASE m = 0
    <2> DEFINE g == [k \in 0..0 |-> 0]
    <2>1. g = [k \in 0..0 |-> DecodeBody(bytes, g, k)]
      BY DEF DecodeBody
    <2> QED BY <1>1, <1>2, <2>1 DEF IsDecode
  <1>3. CASE m # 0
    <2>1. m - 1 \in Nat /\ m - 1 \notin T
      BY <1>1, <1>3
    <2>2. PICK f : IsDecode(bytes, m - 1, f)
      BY <2>1
    <2> DEFINE g == [k \in 0..m |->
                        IF k < m THEN f[k] ELSE DecodeBody(bytes, f, m)]
    <2>3. f = [k \in 0..(m - 1) |-> DecodeBody(bytes, f, k)]
      BY <2>2 DEF IsDecode
    <2>4. ASSUME NEW k \in 0..m
          PROVE  g[k] = DecodeBody(bytes, g, k)
      <3>1. DecodeBody(bytes, g, k) = DecodeBody(bytes, f, k)
        <4>1. k # 0 => g[k - 1] = f[k - 1]
          BY <2>1
        <4> HIDE DEF g
        <4> QED BY <4>1 DEF DecodeBody
      <3>2. k < m => f[k] = DecodeBody(bytes, f, k)
        <4>1. k < m => k \in 0..(m - 1)
          BY <2>1
        <4> QED BY <2>3, <4>1, Zenon
      <3>3. k = m \/ k < m
        BY <2>1
      <3> QED BY <3>1, <3>2, <3>3
    <2>5. g = [k \in 0..m |-> g[k]]
      OBVIOUS
    <2> HIDE DEF g
    <2>6. g = [k \in 0..m |-> DecodeBody(bytes, g, k)]
      BY <2>4, <2>5, Zenon
    <2> QED BY <1>1, <2>6 DEF IsDecode
  <1> QED BY <1>2, <1>3

\* The value is the end of the loop.
LEMMA DecodeLoop ==
    ASSUME NEW bytes \in Seq(Bytes)
    PROVE  \E g : /\ bytesToBigIntLE(bytes) = g[Len(bytes)]
                  /\ g[0] = 0
                  /\ \A k \in 0..Len(bytes) - 1 :
                       g[k + 1] = g[k] * Radix + bytes[Len(bytes) - k]
  <1> DEFINE c == CHOOSE g : IsDecode(bytes, Len(bytes), g)
  <1>1. bytesToBigIntLE(bytes) = c[Len(bytes)]
    BY Zenon DEF bytesToBigIntLE, IsDecode, DecodeBody
  <1>2. PICK L \in Nat : L = Len(bytes)
    OBVIOUS
  <1>3. IsDecode(bytes, L, c)
    BY <1>2, DecodeExists, Zenon
  <1> HIDE DEF c
  <1>4. \A k \in 0..L : c[k] = DecodeBody(bytes, c, k)
    BY <1>3, Zenon DEF IsDecode
  <1>5. c[0] = 0
    BY <1>4 DEF DecodeBody
  <1>6. ASSUME NEW k \in 0..L - 1
        PROVE  c[k + 1] = c[k] * Radix + bytes[L - k]
    <2>1. /\ k + 1 \in 0..L /\ k + 1 # 0 /\ (k + 1) - 1 = k
          /\ L - (k + 1) + 1 = L - k
      OBVIOUS
    <2> QED BY <1>2, <1>4, <2>1 DEF DecodeBody
  <1> QED BY <1>1, <1>2, <1>5, <1>6

LEMMA HornerBound ==
    ASSUME NEW a \in Nat, NEW p \in Nat, NEW r \in Nat, NEW d \in 0..r - 1,
           a <= p - 1
    PROVE  a * r + d \in 0..r * p - 1
  <1>1. PICK e \in Nat : p = a + 1 + e
    <2>1. p - 1 - a \in Nat /\ p = a + 1 + (p - 1 - a)
      OBVIOUS
    <2> QED BY <2>1
  <1>2. r * p = a * r + r + e * r
    BY <1>1
  <1>3. a * r \in Nat /\ e * r \in Nat
    OBVIOUS
  <1> QED BY <1>2, <1>3

\* A string decodes to a number that its length can hold.
LEMMA DecodeBound ==
    ASSUME NEW bytes \in Seq(Bytes)
    PROVE  bytesToBigIntLE(bytes) \in 0..RadixPower[Len(bytes)] - 1
  <1>1. PICK g : /\ bytesToBigIntLE(bytes) = g[Len(bytes)]
                 /\ g[0] = 0
                 /\ \A k \in 0..Len(bytes) - 1 :
                       g[k + 1] = g[k] * Radix + bytes[Len(bytes) - k]
    BY DecodeLoop
  <1>2. PICK L \in Nat : L = Len(bytes)
    OBVIOUS
  <1> DEFINE T == {k \in Nat : k <= L /\ ~(g[k] \in 0..RadixPower[k] - 1)}
  <1>3. T = {}
    <2> SUFFICES ASSUME T # {} PROVE FALSE
      OBVIOUS
    <2>1. PICK m \in T : \A y \in T : m <= y
      BY LeastNatural, T \subseteq Nat
    <2>2. m # 0
      <3>1. g[0] \in 0..RadixPower[0] - 1
        <4>1. 0 \in 0..1 - 1
          OBVIOUS
        <4> QED BY <1>1, <4>1, PowerFacts, Zenon
      <3> QED BY <2>1, <3>1
    <2>3. PICK n \in Nat : m = n + 1
      <3>1. m - 1 \in Nat /\ m = (m - 1) + 1
        BY <2>1, <2>2
      <3> QED BY <3>1
    <2>4. n <= L /\ n \notin T /\ n \in 0..L - 1
      BY <2>1, <2>3
    <2>5. PICK a \in Nat, p \in Nat, r \in Nat :
              /\ a = g[n] /\ p = RadixPower[n] /\ r = Radix
              /\ a <= p - 1
      BY <2>4, PowerType, RadixFacts
    <2>6. PICK d \in 0..r - 1 : d = bytes[L - n]
      BY <1>2, <2>4, <2>5 DEF Bytes
    <2>7. g[m] = a * r + d
      BY <1>1, <1>2, <2>3, <2>4, <2>5, <2>6
    <2>8. RadixPower[m] = r * p
      BY <2>3, <2>5, PowerFacts
    <2>9. a * r + d \in 0..r * p - 1
      BY <2>5, <2>6, HornerBound
    <2> QED BY <2>1, <2>7, <2>8, <2>9
  <1>4. L \notin T
    BY <1>3
  <1> QED BY <1>1, <1>2, <1>4

LEMMA EncodeType ==
    ASSUME NEW n \in Nat, NEW L \in Nat
    PROVE  /\ bigIntToBytesLE(n, L) \in Seq(Bytes)
           /\ Len(bigIntToBytesLE(n, L)) = L
           /\ \A i \in 1..L : bigIntToBytesLE(n, L)[i]
                                 = (n \div RadixPower[i - 1]) % Radix
  <1>1. ASSUME NEW i \in 1..L
        PROVE  (n \div RadixPower[i - 1]) % Radix \in Bytes
    <2>1. i - 1 \in Nat
      OBVIOUS
    <2>2. PICK p \in Nat \ {0}, r \in Nat \ {0} :
              p = RadixPower[i - 1] /\ r = Radix
      BY <2>1, PowerType, RadixFacts
    <2>3. n \div p \in Nat
      BY DivMod
    <2>4. (n \div p) % r \in 0..r - 1
      BY <2>3, DivMod
    <2> QED BY <2>2, <2>4 DEF Bytes
  <1> DEFINE d(i) == (n \div RadixPower[i - 1]) % Radix
  <1>2. bigIntToBytesLE(n, L) = [i \in 1..L |-> d(i)]
    BY DEF bigIntToBytesLE
  <1>3. \A i \in 1..L : d(i) \in Bytes
    BY <1>1
  <1> HIDE DEF d
  <1>4. /\ [i \in 1..L |-> d(i)] \in Seq(Bytes)
        /\ Len([i \in 1..L |-> d(i)]) = L
        /\ \A i \in 1..L : [j \in 1..L |-> d(j)][i] = d(i)
    BY <1>3
  <1> QED BY <1>2, <1>4 DEF d

\* What is encoded without overflow is decoded again: before the k-th byte from
\* the end the loop holds the number without its lowest bytes.
LEMMA DecodeEncode ==
    ASSUME NEW n \in Nat, NEW L \in Nat, n < RadixPower[L]
    PROVE  bytesToBigIntLE(bigIntToBytesLE(n, L)) = n
  <1>1. PICK bytes \in Seq(Bytes) :
            /\ bytes = bigIntToBytesLE(n, L) /\ Len(bytes) = L
            /\ \A i \in 1..L : bytes[i] = (n \div RadixPower[i - 1]) % Radix
    BY EncodeType
  <1>2. PICK g : /\ bytesToBigIntLE(bytes) = g[L]
                 /\ g[0] = 0
                 /\ \A k \in 0..L - 1 : g[k + 1] = g[k] * Radix + bytes[L - k]
    <2>1. PICK g : /\ bytesToBigIntLE(bytes) = g[Len(bytes)]
                   /\ g[0] = 0
                   /\ \A k \in 0..Len(bytes) - 1 :
                         g[k + 1] = g[k] * Radix + bytes[Len(bytes) - k]
      BY DecodeLoop
    <2>2. Len(bytes) = L
      BY <1>1
    <2> QED BY <2>1, <2>2, Zenon
  <1> DEFINE T == {k \in Nat : k <= L /\ g[k] # n \div RadixPower[L - k]}
  <1>3. T = {}
    <2> SUFFICES ASSUME T # {} PROVE FALSE
      OBVIOUS
    <2>1. PICK m \in T : \A y \in T : m <= y
      BY LeastNatural, T \subseteq Nat
    <2>2. CASE m = 0
      <3>1. PICK p \in Nat \ {0} : p = RadixPower[L]
        BY PowerType
      <3>2. n \div p = 0
        <4>1. PICK s \in 0..p - 1 : s = n
          <5>1. n \in 0..p - 1
            BY <3>1
          <5> QED BY <5>1
        <4>2. 0 \in Int /\ n = p * 0 + s
          BY <4>1
        <4> QED BY <4>2, DivUnique
      <3>3. L - m = L
        BY <2>2
      <3> QED BY <1>2, <2>1, <2>2, <3>1, <3>2, <3>3
    <2>3. CASE m # 0
      <3>1. PICK k \in Nat : m = k + 1 /\ k \in 0..L - 1
        <4>1. m - 1 \in Nat /\ m = (m - 1) + 1 /\ m - 1 \in 0..L - 1
          BY <2>1, <2>3
        <4> QED BY <4>1
      <3>2. k \notin T
        BY <2>1, <3>1
      <3>3. PICK j \in Nat : j = L - m /\ L - k = j + 1 /\ L - k \in 1..L
        <4>1. L - m \in Nat /\ L - k = (L - m) + 1 /\ L - k \in 1..L
          BY <2>1, <3>1
        <4> QED BY <4>1
      <3>4. PICK p \in Nat \ {0}, r \in Nat \ {0} :
                p = RadixPower[j] /\ r = Radix /\ RadixPower[j + 1] = r * p
        BY PowerType, PowerFacts, RadixFacts
      <3>5. PICK v \in Nat : v = n \div p
        BY DivMod
      <3>6. g[k] = v \div r
        <4>1. g[k] = n \div (r * p)
          BY <3>1, <3>2, <3>3, <3>4
        <4>2. (n \div p) \div r = n \div (r * p)
          BY DivDiv
        <4> QED BY <3>5, <4>1, <4>2
      <3>7. bytes[L - k] = v % r
        BY <1>1, <3>3, <3>4, <3>5
      <3>8. g[m] = (v \div r) * r + (v % r)
        BY <1>2, <3>1, <3>4, <3>6, <3>7
      <3>9. g[m] = v
        <4>1. /\ v = r * (v \div r) + (v % r)
              /\ v % r \in 0..r - 1 /\ v \div r \in Nat
          BY DivMod
        <4>2. PICK d \in Nat, e \in 0..r - 1 : d = v \div r /\ e = v % r
          BY <4>1
        <4>3. v = r * d + e
          BY <4>1, <4>2
        <4>4. g[m] = d * r + e
          BY <3>8, <4>2
        <4> QED BY <4>3, <4>4
      <3> QED BY <2>1, <3>3, <3>4, <3>5, <3>9
    <2> QED BY <2>2, <2>3
  <1>4. g[L] = n \div RadixPower[L - L]
    <2>1. L \notin T
      BY <1>3
    <2> QED BY <2>1
  <1>5. n \div 1 = n
    <2>1. n = 1 * n + 0 /\ 0 \in 0..1 - 1 /\ 1 \in Nat \ {0}
      OBVIOUS
    <2>2. PICK u \in Nat \ {0} : u = 1
      BY <2>1
    <2>3. 0 \in 0..u - 1 /\ n = u * n + 0
      BY <2>2
    <2>4. n \div u = n
      BY <2>3, DivUnique
    <2> QED BY <2>2, <2>4
  <1>6. RadixPower[L - L] = 1
    <2>1. L - L = 0
      OBVIOUS
    <2> QED BY <2>1, PowerFacts
  <1>7. g[L] = n
    BY <1>4, <1>5, <1>6
  <1> QED BY <1>1, <1>2, <1>7

Joined(s, a, b) ==
    /\ Len(s) = Len(a) + Len(b)
    /\ \A m \in 1..Len(a) : s[m] = a[m]
    /\ \A m \in 1..Len(b) : s[m + Len(a)] = b[m]

LEMMA Concatenation ==
    ASSUME NEW A, NEW a \in Seq(A), NEW b \in Seq(A), NEW s, s = a \o b
    PROVE  s \in Seq(A) /\ Joined(s, a, b)
  BY DEF Joined

Layout(p, a, b, c) ==
    /\ p \in Seq(Bytes) /\ p # <<>> /\ Len(p) = PROOF_LEN
    /\ SubSeq(p, 1, PT_LEN) = a
    /\ SubSeq(p, PT_LEN + 1, PT_LEN + C_LEN) = b
    /\ SubSeq(p, PT_LEN + C_LEN + 1, PROOF_LEN) = c

\* What lies between two places of a sequence.
LEMMA CutOut ==
    ASSUME NEW A, NEW s \in Seq(A), NEW b \in Seq(A), NEW m \in Nat,
           m + Len(b) <= Len(s), \A d \in 1..Len(b) : s[d + m] = b[d]
    PROVE  SubSeq(s, m + 1, m + Len(b)) = b
  <1>1. PICK n \in Nat : n = Len(b)
    OBVIOUS
  <1>2. PICK cut : cut = SubSeq(s, m + 1, m + n)
    OBVIOUS
  <1>3. (m + n) - (m + 1) + 1 = n
    OBVIOUS
  <1>4. \A d \in 1..n : d + (m + 1) - 1 = d + m
    OBVIOUS
  <1>5. cut = [d \in 1..n |-> s[d + m]]
    BY <1>1, <1>2, <1>3, <1>4
  <1>6. \A d \in 1..n : s[d + m] = b[d]
    BY <1>1
  <1>7. cut = [d \in 1..n |-> b[d]]
    BY <1>5, <1>6
  <1>8. b = [d \in 1..n |-> b[d]]
    BY <1>1
  <1> QED BY <1>1, <1>2, <1>7, <1>8

\* A proof is cut where it was put together.
LEMMA ProofLayout ==
    ASSUME NEW a \in Seq(Bytes), NEW b \in Seq(Bytes), NEW c \in Seq(Bytes),
           Len(a) = PT_LEN, Len(b) = C_LEN, Len(c) = Q_LEN,
           NEW p, p = a \o b \o c
    PROVE  Layout(p, a, b, c)
  <1>1. PICK i \in Nat \ {0}, j \in Nat \ {0}, k \in Nat \ {0} :
            i = PT_LEN /\ j = C_LEN /\ k = Q_LEN
    BY RadixFacts
  <1>2. PROOF_LEN = i + j + k
    BY <1>1 DEF PROOF_LEN
  <1>3. Len(a) = i /\ Len(b) = j /\ Len(c) = k
    BY <1>1
  <1> HIDE DEF Bytes
  <1>4. PICK u : u = a \o b
    OBVIOUS
  <1>5. PICK s : s = u \o c
    OBVIOUS
  <1>6. u \in Seq(Bytes) /\ Joined(u, a, b)
    BY <1>4, Concatenation, Zenon
  <1>7. s \in Seq(Bytes) /\ Joined(s, u, c)
    BY <1>5, <1>6, Concatenation, Zenon
  <1>8. /\ Len(u) = i + j
        /\ \A m \in 1..i : u[m] = a[m]
        /\ \A m \in 1..j : u[m + i] = b[m]
    BY <1>3, <1>6, Zenon DEF Joined
  <1>9. /\ Len(s) = i + j + k
        /\ \A m \in 1..i + j : s[m] = u[m]
        /\ \A m \in 1..k : s[m + (i + j)] = c[m]
    BY <1>3, <1>7, <1>8, Zenon DEF Joined
  <1>10. \A m \in 1..i : s[m] = a[m]
    BY <1>8, <1>9
  <1>11. \A m \in 1..j : s[m + i] = b[m]
    BY <1>8, <1>9
  <1>12. \A m \in 1..k : s[m + (i + j)] = c[m]
    BY <1>9
  <1>13. SubSeq(s, 1, i) = a
    <2>1. 0 \in Nat /\ 0 + i <= Len(s) /\ \A m \in 1..i : s[m + 0] = a[m]
      BY <1>9, <1>10
    <2>2. SubSeq(s, 0 + 1, 0 + i) = a
      BY <1>3, <1>7, <2>1, CutOut, Zenon
    <2> QED BY <2>2
  <1>14. SubSeq(s, i + 1, i + j) = b
    <2>1. i \in Nat /\ i + j <= Len(s)
      BY <1>9
    <2> QED BY <1>3, <1>7, <1>11, <2>1, CutOut, Zenon
  <1>15. SubSeq(s, (i + j) + 1, i + j + k) = c
    <2>1. i + j \in Nat /\ (i + j) + k <= Len(s)
      BY <1>9
    <2> QED BY <1>3, <1>7, <1>12, <2>1, CutOut, Zenon
  <1>16. s # <<>>
    BY <1>9
  <1>17. s = p
    BY <1>4, <1>5
  <1> QED BY <1>1, <1>2, <1>7, <1>9, <1>13, <1>14, <1>15, <1>16, <1>17
          DEF Layout

-----------------------------------------------------------------------------
(* The group.  The points of the subgroup of prime order are the multiples *)
(* of the cofactor.                                                        *)

LEMMA GroupFacts ==
    /\ COFACTOR \in Nat \ {0} /\ CURVE_ORDER \in Nat \ {0}
    /\ COFACTOR \in 1..CURVE_ORDER - 1
    /\ GROUP_ORDER = COFACTOR * CURVE_ORDER /\ GROUP_ORDER \in Nat \ {0}
    /\ GROUP_ORDER <= RadixPower[PT_LEN]
  <1>1. PICK h \in Nat \ {0}, q \in Nat \ {0} :
            h = COFACTOR /\ q = CURVE_ORDER
    BY RadixFacts
  <1>2. h * q \in Nat \ {0}
    OBVIOUS
  <1>3. h < q /\ h * q <= RadixPower[PT_LEN]
    BY <1>1, SuiteAssumption
  <1> QED BY <1>1, <1>2, <1>3 DEF GROUP_ORDER

\* The order is a prime.
LEMMA Prime ==
    ASSUME NEW a \in Nat, NEW b \in Nat, (a * b) % CURVE_ORDER = 0
    PROVE  a % CURVE_ORDER = 0 \/ b % CURVE_ORDER = 0
  <1>1. PICK q \in Nat \ {0} : q = CURVE_ORDER
    BY RadixFacts
  <1>2. PICK d \in Nat, r \in 0..q - 1 :
            d = a \div q /\ r = a % q /\ a = q * d + r
    BY Division
  <1>3. PICK e \in Nat, s \in 0..q - 1 :
            e = b \div q /\ s = b % q /\ b = q * e + s
    BY Division
  <1>4. a * b = r * s + (q * d * e + d * s + r * e) * q
    <2>1. a * b = (q * d + r) * (q * e + s)
      BY <1>2, <1>3
    <2>2. (q * d + r) * (q * e + s)
             = r * s + (q * d * e + d * s + r * e) * q
      OBVIOUS
    <2> QED BY <2>1, <2>2
  <1>5. a * b \in Nat /\ r * s \in Nat /\ q * d * e + d * s + r * e \in Int
    OBVIOUS
  <1>6. (a * b) % q = (r * s) % q
    <2>1. PICK u \in Nat, v \in Nat, w \in Int :
              u = a * b /\ v = r * s /\ w = q * d * e + d * s + r * e
      BY <1>5
    <2>2. Congruent(u, v, q)
      <3>1. u = v + w * q
        BY <1>4, <2>1, Zenon
      <3> QED BY <3>1, Zenon DEF Congruent
    <2>3. u % q = v % q
      BY <2>2, CongruentResidues
    <2> QED BY <2>1, <2>3, Zenon
  <1>7. (r * s) % q = 0
    BY <1>1, <1>6
  <1>8. ~(r \in 1..q - 1 /\ s \in 1..q - 1)
    BY <1>1, <1>7, SuiteAssumption
  <1> QED BY <1>1, <1>2, <1>3, <1>8

LEMMA ZeroMod ==
    ASSUME NEW n \in Nat \ {0}, NEW r \in 0..n - 1
    PROVE  r % n = r
  <1>1. r = n * 0 + r /\ 0 \in Int /\ r \in Nat
    OBVIOUS
  <1> QED BY <1>1, DivUnique

\* A multiple of the cofactor stays one.
LEMMA TimesScaled ==
    ASSUME NEW n \in Nat, NEW t \in Nat
    PROVE  /\ Times(n, COFACTOR * t) = COFACTOR * ((n * t) % CURVE_ORDER)
           /\ (n * t) % CURVE_ORDER \in 0..CURVE_ORDER - 1
  <1>1. PICK h \in Nat \ {0}, q \in Nat \ {0} :
            h = COFACTOR /\ q = CURVE_ORDER /\ GROUP_ORDER = h * q
    BY GroupFacts
  <1>2. n * (h * t) = h * (n * t) /\ n * t \in Nat
    OBVIOUS
  <1>3. PICK u \in Nat : u = n * t
    BY <1>2
  <1>4. (h * u) % (h * q) = h * (u % q)
    BY ScaledMod
  <1>5. Times(n, h * t) = (h * u) % (h * q)
    BY <1>1, <1>2, <1>3 DEF Times
  <1>6. u % q \in 0..q - 1
    BY DivMod
  <1> QED BY <1>1, <1>3, <1>4, <1>5, <1>6

LEMMA MinusScaled ==
    ASSUME NEW a \in 0..CURVE_ORDER - 1, NEW b \in 0..CURVE_ORDER - 1
    PROVE  Minus(COFACTOR * a, COFACTOR * b)
              = COFACTOR * ((a + (CURVE_ORDER - b)) % CURVE_ORDER)
  <1>1. PICK h \in Nat \ {0}, q \in Nat \ {0} :
            h = COFACTOR /\ q = CURVE_ORDER /\ GROUP_ORDER = h * q
    BY GroupFacts
  <1>2. PICK u \in Nat : u = a + (q - b)
    <2>1. a + (q - b) \in Nat
      BY <1>1
    <2> QED BY <2>1
  <1>3. h * a + h * q - h * b = h * u
    BY <1>2, <1>1
  <1>4. Minus(h * a, h * b) = (h * u) % (h * q)
    BY <1>1, <1>3 DEF Minus
  <1>5. (h * u) % (h * q) = h * (u % q)
    BY ScaledMod
  <1> QED BY <1>1, <1>2, <1>4, <1>5

LEMMA SubgroupForm ==
    ASSUME NEW P \in Points, InSubgroup(P)
    PROVE  \E t \in 1..CURVE_ORDER - 1 : P = COFACTOR * t
  <1>1. PICK h \in Nat \ {0}, q \in Nat \ {0} :
            h = COFACTOR /\ q = CURVE_ORDER /\ GROUP_ORDER = h * q
    BY GroupFacts
  <1>2. P \in Nat /\ P < h * q
    BY <1>1, GroupFacts DEF Points
  <1>3. (q * P) % (h * q) = 0 /\ (h * P) % (h * q) # 0
    BY <1>1 DEF InSubgroup, isSmallOrder, isTorsionFree, Times, ZERO
  <1>4. (q * P) % (q * h) = q * (P % h)
    BY <1>2, ScaledMod
  <1>5. (h * P) % (h * q) = h * (P % q)
    BY <1>2, ScaledMod
  <1>6. h * q = q * h
    OBVIOUS
  <1>7. PICK d \in Nat, r \in 0..h - 1 :
            d = P \div h /\ r = P % h /\ P = h * d + r
    BY <1>2, Division
  <1>8. r = 0
    <2>1. q * r = 0
      BY <1>3, <1>4, <1>6, <1>7
    <2> QED BY <2>1
  <1>9. P = h * d
    BY <1>7, <1>8
  <1>10. d < q
    <2>1. CASE d >= q
      <3>1. PICK e \in Nat : d = q + e
        <4>1. d - q \in Nat /\ d = q + (d - q)
          BY <2>1
        <4> QED BY <4>1
      <3>2. h * d = h * q + h * e /\ h * e \in Nat
        BY <3>1
      <3> QED BY <1>2, <1>9, <3>2
    <2> QED BY <2>1
  <1>11. d # 0
    <2>1. CASE d = 0
      <3>1. P = 0
        BY <1>9, <2>1
      <3>2. 0 \in 0..q - 1
        OBVIOUS
      <3>3. P % q = 0
        BY <3>1, <3>2, ZeroMod
      <3> QED BY <1>3, <1>5, <3>3
    <2> QED BY <2>1
  <1>12. d \in 1..q - 1
    BY <1>10, <1>11
  <1> QED BY <1>1, <1>9, <1>12

LEMMA FormSubgroup ==
    ASSUME NEW t \in 1..CURVE_ORDER - 1
    PROVE  COFACTOR * t \in Points /\ InSubgroup(COFACTOR * t)
  <1>1. PICK h \in Nat \ {0}, q \in Nat \ {0} :
            h = COFACTOR /\ q = CURVE_ORDER /\ GROUP_ORDER = h * q
    BY GroupFacts
  <1>2. PICK P \in Nat : P = h * t
    <2>1. h * t \in Nat
      BY <1>1
    <2> QED BY <2>1
  <1>3. P \in Points
    <2>1. PICK e \in Nat : q = t + 1 + e
      <3>1. q - t - 1 \in Nat /\ q = t + 1 + (q - t - 1)
        BY <1>1
      <3> QED BY <3>1
    <2>2. h * q = h * t + h + h * e /\ h * e \in Nat
      BY <1>1, <2>1
    <2>3. P <= h * q - 1
      BY <1>2, <2>2
    <2> QED BY <1>1, <2>3 DEF Points
  <1>4. (q * P) % (q * h) = q * (P % h)
    BY ScaledMod
  <1>5. P % h = 0
    <2>1. PICK e \in Int : e = t
      BY <1>1
    <2>2. P = h * e + 0 /\ 0 \in 0..h - 1
      BY <1>2, <2>1
    <2> QED BY <2>2, DivUnique
  <1>6. isTorsionFree(P)
    <2>1. h * q = q * h /\ q * 0 = 0
      OBVIOUS
    <2> QED BY <1>1, <1>4, <1>5, <2>1 DEF isTorsionFree, Times, ZERO
  <1>7. (h * P) % (h * q) = h * (P % q)
    BY ScaledMod
  <1>8. P % q # 0
    <2>1. (h * t) % q # 0
      BY <1>1, GroupFacts, SuiteAssumption
    <2> QED BY <1>2, <2>1
  <1>9. ~isSmallOrder(P)
    <2>1. PICK e \in Nat \ {0} : e = P % q
      <3>1. P % q \in 0..q - 1
        BY DivMod
      <3> QED BY <1>8, <3>1
    <2>2. h * e # 0
      OBVIOUS
    <2> QED BY <1>1, <1>7, <2>1, <2>2 DEF isSmallOrder, Times, ZERO
  <1> QED BY <1>1, <1>2, <1>3, <1>6, <1>9 DEF InSubgroup

LEMMA BaseForm == BASE = COFACTOR * 1
  BY GroupFacts DEF BASE

\* The loop of encodeToCurveTAI ends with a point of the subgroup.
LEMMA HashForm ==
    ASSUME candidates \in [1..MAX_CTR -> Candidates], ~Exhausted
    PROVE  \E t \in 1..CURVE_ORDER - 1 : encodeToCurveTAI = COFACTOR * t
  <1> DEFINE T == {i \in Nat : i \in 1..MAX_CTR /\ Usable(i)}
             First(i) == /\ i \in DOMAIN candidates
                         /\ Usable(i) /\ \A j \in 1..i - 1 : ~Usable(j)
  <1>1. DOMAIN candidates = 1..MAX_CTR
    OBVIOUS
  <1>2. T # {}
    <2>1. PICK i \in 1..MAX_CTR : Usable(i)
      BY <1>1 DEF Exhausted
    <2>2. i \in Nat
      BY RadixFacts
    <2> QED BY <2>1, <2>2
  <1>3. PICK m \in T : \A i \in T : m <= i
    BY <1>2, LeastNatural, T \subseteq Nat
  <1>4. First(m)
    <2>1. ASSUME NEW j \in 1..m - 1 PROVE ~Usable(j)
      <3>1. j \in Nat /\ j \in 1..MAX_CTR /\ ~(m <= j)
        BY <1>3, RadixFacts
      <3> HIDE DEF T
      <3>2. j \notin T
        BY <1>3, <3>1
      <3> QED BY <3>1, <3>2 DEF T
    <2> QED BY <1>1, <1>3, <2>1
  <1> HIDE DEF T
  <1>5. PICK ctr : /\ ctr = CHOOSE i : First(i)
                   /\ encodeToCurveTAI = Times(COFACTOR, candidates[ctr])
    <2>1. (CHOOSE i : First(i)) = CHOOSE i \in DOMAIN candidates :
              Usable(i) /\ \A j \in 1..i - 1 : ~Usable(j)
      BY Zenon
    <2> HIDE DEF First
    <2> QED BY <2>1, Zenon DEF encodeToCurveTAI
  <1>6. First(ctr)
    <2> HIDE DEF First
    <2> QED BY <1>4, <1>5, Zenon
  <1>7. Usable(ctr)
    BY <1>6
  <1>8. candidates[ctr] \in Points /\ encodeToCurveTAI # 0
    BY <1>5, <1>7 DEF Usable, ZERO
  <1>9. PICK u \in Nat : u = candidates[ctr]
    BY <1>8, GroupFacts DEF Points
  <1>10. PICK h \in Nat \ {0}, q \in Nat \ {0} :
            h = COFACTOR /\ q = CURVE_ORDER /\ GROUP_ORDER = h * q
    BY GroupFacts
  <1>11. (h * u) % (h * q) = h * (u % q)
    BY ScaledMod
  <1>12. PICK r \in 0..q - 1 : r = u % q
    BY DivMod
  <1>13. encodeToCurveTAI = h * r
    BY <1>5, <1>9, <1>10, <1>11, <1>12 DEF Times
  <1>14. r # 0
    <2>1. r = 0 => h * r = 0
      OBVIOUS
    <2> QED BY <1>8, <1>13, <2>1
  <1> QED BY <1>10, <1>13, <1>14

-----------------------------------------------------------------------------
(* Verification computes the U and V of the prover.                        *)

\* a - b modulo q.
Difference(q, a, b) == ((a % q) + (q - (b % q))) % q

Cancels(q, k, c, y, t) ==
    Difference(q, ((k + c * y) % q) * t, c * ((y * t) % q)) = (k * t) % q

\* With s = k + c * x the term c * x cancels, whatever multiple t of the
\* generator: k * t = s * t - c * (x * t) modulo q.
LEMMA ResponseCancels ==
    ASSUME NEW q \in Nat \ {0}, NEW k \in Nat, NEW c \in Nat, NEW y \in Nat,
           NEW t \in Nat
    PROVE  Cancels(q, k, c, y, t)
  <1> DEFINE Of(m) == \E d \in Nat, r \in 0..q - 1 :
                        d = m \div q /\ r = m % q /\ m = q * d + r
  <1>1. \A m \in Nat : Of(m)
    BY Division
  <1> HIDE DEF Of
  <1>2. PICK d \in Nat, s \in 0..q - 1 :
            s = (k + c * y) % q /\ k + c * y = q * d + s
    <2>1. k + c * y \in Nat
      OBVIOUS
    <2> QED BY <1>1, <2>1, Zenon DEF Of
  <1>3. PICK e \in Nat, a \in 0..q - 1 : a = (s * t) % q /\ s * t = q * e + a
    <2>1. s * t \in Nat
      OBVIOUS
    <2> QED BY <1>1, <2>1, Zenon DEF Of
  <1>4. PICK f \in Nat, g \in 0..q - 1 : g = (y * t) % q /\ y * t = q * f + g
    <2>1. y * t \in Nat
      OBVIOUS
    <2> QED BY <1>1, <2>1, Zenon DEF Of
  <1>5. PICK l \in Nat, b \in 0..q - 1 : b = (c * g) % q /\ c * g = q * l + b
    <2>1. c * g \in Nat
      OBVIOUS
    <2> QED BY <1>1, <2>1, Zenon DEF Of
  <1>6. PICK u \in Nat : u = a + (q - b)
    <2>1. a + (q - b) \in Nat
      OBVIOUS
    <2> QED BY <2>1
  <1>7. PICK v \in Nat : v = k * t
    <2>1. k * t \in Nat
      OBVIOUS
    <2> QED BY <2>1
  <1>8. u = v + (c * f - d * t - e + l + 1) * q
    <2>1. k = q * d + s - c * y
      BY <1>2
    <2>2. v = (q * d + s - c * y) * t
      BY <1>7, <2>1
    <2>3. (q * d + s - c * y) * t = q * d * t + s * t - c * (y * t)
      OBVIOUS
    <2>4. c * (y * t) = c * (q * f + g)
      BY <1>4
    <2>5. c * (q * f + g) = c * f * q + c * g
      OBVIOUS
    <2>6. v = q * d * t + q * e + a - (c * f * q + q * l + b)
      <3>1. c * (y * t) = c * f * q + (q * l + b)
        BY <1>5, <2>4, <2>5, Zenon
      <3>2. v = q * d * t + (q * e + a) - (c * f * q + (q * l + b))
        BY <1>3, <2>2, <2>3, <3>1, Zenon
      <3> QED BY <3>2
    <2>7. q * d * t + q * e + a - (c * f * q + q * l + b)
              + (c * f - d * t - e + l + 1) * q = a + (q - b)
      OBVIOUS
    <2> QED BY <1>6, <2>6, <2>7
  <1>9. PICK w \in Int : w = c * f - d * t - e + l + 1
    OBVIOUS
  <1>10. u % q = v % q
    <2>1. Congruent(u, v, q)
      BY <1>8, <1>9, Zenon DEF Congruent
    <2> QED BY <2>1, CongruentResidues
  <1> QED BY <1>2, <1>3, <1>4, <1>5, <1>6, <1>7, <1>10, Zenon DEF Difference, Cancels

DifferBy(q, a, b, d, e) == \E m \in Int : a - b = d - e + m * q

\* Differences with the same residue differ by a multiple.
LEMMA EqualDifferences ==
    ASSUME NEW q \in Nat \ {0}, NEW a \in Nat, NEW b \in Nat, NEW d \in Nat,
           NEW e \in Nat,
           Difference(q, a, b) = Difference(q, d, e)
    PROVE  DifferBy(q, a, b, d, e)
  <1> DEFINE Of(m) == \E i \in Nat, r \in 0..q - 1 :
                        i = m \div q /\ r = m % q /\ m = q * i + r
  <1>1. \A m \in Nat : Of(m)
    BY Division
  <1> HIDE DEF Of
  <1>2. PICK i1 \in Nat, r1 \in 0..q - 1 : r1 = a % q /\ a = q * i1 + r1
    BY <1>1, Zenon DEF Of
  <1>3. PICK i2 \in Nat, r2 \in 0..q - 1 : r2 = b % q /\ b = q * i2 + r2
    BY <1>1, Zenon DEF Of
  <1>4. PICK i3 \in Nat, r3 \in 0..q - 1 : r3 = d % q /\ d = q * i3 + r3
    BY <1>1, Zenon DEF Of
  <1>5. PICK i4 \in Nat, r4 \in 0..q - 1 : r4 = e % q /\ e = q * i4 + r4
    BY <1>1, Zenon DEF Of
  <1>6. PICK u \in Nat, v \in Nat : u = r1 + (q - r2) /\ v = r3 + (q - r4)
    <2>1. r1 + (q - r2) \in Nat /\ r3 + (q - r4) \in Nat
      OBVIOUS
    <2> QED BY <2>1
  <1>7. u % q = v % q
    BY <1>2, <1>3, <1>4, <1>5, <1>6, Zenon DEF Difference
  <1>8. PICK n \in Int : u = v + n * q
    <2>1. Congruent(u, v, q)
      BY <1>7, CongruentResidues
    <2> QED BY <2>1, Zenon DEF Congruent
  <1>9. PICK m \in Int : m = n + i1 - i2 - i3 + i4
    OBVIOUS
  <1>10. a - b = d - e + m * q
    <2>1. r1 - r2 = r3 - r4 + n * q
      BY <1>6, <1>8
    <2>2. a - b = q * i1 - q * i2 + (r1 - r2)
      BY <1>2, <1>3
    <2>3. d - e = q * i3 - q * i4 + (r3 - r4)
      BY <1>4, <1>5
    <2>4. m * q = n * q + q * i1 - q * i2 - q * i3 + q * i4
      BY <1>9
    <2> QED BY <2>1, <2>2, <2>3, <2>4
  <1> QED BY <1>10, Zenon DEF DifferBy

\* The same U = s*B - c*y*B and the same V = s*t*B - c*g*B for two answers.
SameCommitments(c, s, d, r, y, t, g) ==
    /\ Difference(CURVE_ORDER, s, c * y) = Difference(CURVE_ORDER, r, d * y)
    /\ Difference(CURVE_ORDER, s * t, c * g)
          = Difference(CURVE_ORDER, r * t, d * g)

\* Two answers c and d to one commitment: equal U = s*B - c*y*B and equal
\* V = s*t*B - c*g*B give (c - d) * (y*t - g) = 0, so g = y * t.
LEMMA TwoAnswers ==
    ASSUME NEW c \in 0..CURVE_ORDER - 1, NEW d \in 0..CURVE_ORDER - 1, c # d,
           NEW s \in Nat, NEW r \in Nat, NEW y \in Nat, NEW t \in Nat,
           NEW g \in 0..CURVE_ORDER - 1,
           SameCommitments(c, s, d, r, y, t, g)
    PROVE  (y * t) % CURVE_ORDER = g
  <1>1. PICK q \in Nat \ {0} : q = CURVE_ORDER
    BY RadixFacts
  <1>2. /\ Difference(q, s, c * y) = Difference(q, r, d * y)
        /\ Difference(q, s * t, c * g) = Difference(q, r * t, d * g)
    BY <1>1, Zenon DEF SameCommitments
  <1>3. c \in Nat /\ d \in Nat /\ g \in 0..q - 1 /\ c < q /\ d < q
    BY <1>1
  <1>4. PICK m \in Int : s - c * y = r - d * y + m * q
    <2>1. PICK b \in Nat, e \in Nat : b = c * y /\ e = d * y
      <3>1. c * y \in Nat /\ d * y \in Nat
        BY <1>3
      <3> QED BY <3>1
    <2>2. Difference(q, s, b) = Difference(q, r, e)
      BY <1>2, <2>1, Zenon
    <2>3. DifferBy(q, s, b, r, e)
      BY <2>2, EqualDifferences
    <2> QED BY <2>1, <2>3, Zenon DEF DifferBy
  <1>5. PICK n \in Int : s * t - c * g = r * t - d * g + n * q
    <2>1. PICK a \in Nat, b \in Nat, i \in Nat, e \in Nat :
              a = s * t /\ b = c * g /\ i = r * t /\ e = d * g
      <3>1. s * t \in Nat /\ c * g \in Nat /\ r * t \in Nat /\ d * g \in Nat
        BY <1>3
      <3> QED BY <3>1
    <2>2. Difference(q, a, b) = Difference(q, i, e)
      BY <1>2, <2>1, Zenon
    <2>3. DifferBy(q, a, b, i, e)
      BY <2>2, EqualDifferences
    <2> QED BY <2>1, <2>3, Zenon DEF DifferBy
  <1>6. PICK a \in Nat : a = c + (q - d)
    BY <1>3
  <1>7. PICK b \in Nat : b = y * t + (q - g)
    <2>1. y * t \in Nat /\ q - g \in Nat
      BY <1>3
    <2> QED BY <2>1
  <1>8. PICK w \in Int : w = n - m * t + y * t - g + q + c - d
    BY <1>3
  <1>9. a * b = w * q
    <2>1. s - r = c * y - d * y + m * q
      BY <1>3, <1>4
    <2>2. (s - r) * t = (c * y - d * y + m * q) * t
      BY <2>1
    <2>3. (s - r) * t = s * t - r * t
      OBVIOUS
    <2>4. c * g - d * g = (c * y - d * y + m * q) * t - n * q
      BY <1>3, <1>5, <2>2, <2>3
    <2>5. a * b = (c + (q - d)) * (y * t + (q - g))
      BY <1>6, <1>7
    <2>6. (c + (q - d)) * (y * t + (q - g))
             = (c * y - d * y) * t - (c * g - d * g)
                  + q * (y * t + (q - g)) + (c - d) * q
      BY <1>3
    <2>7. w * q = n * q - m * q * t + q * (y * t + (q - g)) + (c - d) * q
      BY <1>3, <1>8
    <2>8. (c * y - d * y + m * q) * t = (c * y - d * y) * t + m * q * t
      BY <1>3
    <2>9. \A i, j, k, l, e, f \in Int :
             i = (j + k) - l => j - i + e + f = l - k + e + f
      OBVIOUS
    <2> QED BY <1>3, <2>4, <2>5, <2>6, <2>7, <2>8
  <1>10. (a * b) % q = 0
    <2>1. PICK p \in Nat : p = a * b
      <3>1. a * b \in Nat
        OBVIOUS
      <3> QED BY <3>1
    <2>2. Congruent(p, 0, q)
      <3>1. p = 0 + w * q
        BY <1>9, <2>1
      <3> QED BY <3>1, Zenon DEF Congruent
    <2>3. 0 \in 0..q - 1 /\ 0 \in Nat
      OBVIOUS
    <2>4. p % q = 0 % q
      BY <2>2, <2>3, CongruentResidues
    <2>5. 0 % q = 0
      BY <2>3, ZeroMod
    <2> QED BY <2>1, <2>4, <2>5, Zenon
  <1>11. a % q # 0
    <2>1. CASE c < d
      <3>1. a \in 0..q - 1 /\ a # 0
        BY <1>3, <1>6, <2>1
      <3> QED BY <3>1, ZeroMod
    <2>2. CASE d < c
      <3>1. PICK i \in 0..q - 1 : i = c - d /\ i # 0
        BY <1>3, <2>2
      <3>2. a = q * 1 + i /\ 1 \in Int
        BY <1>6, <3>1
      <3>3. a % q = i
        BY <3>2, DivUnique
      <3> QED BY <3>1, <3>3
    <2> QED BY <1>3, <2>1, <2>2
  <1>12. b % q = 0
    BY <1>1, <1>10, <1>11, Prime
  <1>13. PICK i \in Nat : b = q * i
    <2>1. PICK i \in Nat, j \in 0..q - 1 : i = b \div q /\ j = b % q /\ b = q * i + j
      BY Division
    <2>2. j = 0
      BY <1>12, <2>1, Zenon
    <2>3. b = q * i
      BY <2>1, <2>2
    <2> QED BY <2>3
  <1>14. PICK p \in Nat : p = y * t
    <2>1. y * t \in Nat
      OBVIOUS
    <2> QED BY <2>1
  <1>15. p = q * (i - 1) + g /\ i - 1 \in Int
    BY <1>3, <1>7, <1>13, <1>14
  <1>16. p % q = g
    BY <1>3, <1>15, DivUnique
  <1> QED BY <1>1, <1>14, <1>16

-----------------------------------------------------------------------------
(* The inductive invariant.                                                *)

\* The gates of vrfProofToHash.
Hashable ==
    Len(proof) = PROOF_LEN /\ Decodes(GammaBytes) /\ InSubgroup(Gamma)

TypeInv ==
    /\ candidates \in [1..MAX_CTR -> Candidates]
    /\ \A m \in DOMAIN challenges : challenges[m] \in 0..RadixPower[C_LEN] - 1
    /\ x \in 0..CURVE_ORDER - 1
    /\ pk \in Seq(Bytes) /\ proof \in Seq(Bytes)

\* There is a key before there is a proof, and a proof before anybody looks at
\* one.
OrderInv ==
    /\ x # 0 => pk = bigIntToBytesLE(Times(x, BASE), PT_LEN)
    /\ pk = <<>> => x = 0 /\ proof = <<>>
    /\ proof = <<>> =>
         /\ maker = "nobody" /\ verdict = "none" /\ beta = <<>>
         /\ "verifyVRF" \notin thrown /\ "vrfProofToHash" \notin thrown

\* What proveVRF made: all gates let it through, and the challenge that the
\* verifier will ask for again is answered already, with the one in the proof.
ProvenInv ==
    /\ x # 0 /\ ~Exhausted /\ WellFormed
    /\ Gamma = Times(x, encodeToCurveTAI)
    /\ Recomputed(C, S) \in DOMAIN challenges
    /\ challenges[Recomputed(C, S)] = C
    /\ verdict \in {"none", "true"}
    /\ beta \in {<<>>, <<Times(COFACTOR, Times(x, encodeToCurveTAI))>>}

\* What the functions said of a proof that does not change any more.
ResultInv ==
    /\ verdict = "true" => WellFormed /\ ~Exhausted
    /\ "verifyVRF" \in thrown => Exhausted
    /\ "vrfProofToHash" \in thrown => ~Hashable

EcvrfInv ==
    /\ TypeInv /\ OrderInv /\ (maker = "proveVRF" => ProvenInv) /\ ResultInv

-----------------------------------------------------------------------------
(* What the numbers in a proof are.                                        *)

LEMMA CommitmentForm ==
    ASSUME NEW n \in Nat, NEW a \in Nat, NEW c \in Nat, NEW b \in Nat
    PROVE  Minus(Times(n, COFACTOR * a), Times(c, COFACTOR * b))
              = COFACTOR * Difference(CURVE_ORDER, n * a, c * b)
  <1>1. PICK u \in 0..CURVE_ORDER - 1 :
            /\ u = (n * a) % CURVE_ORDER
            /\ Times(n, COFACTOR * a) = COFACTOR * u
    BY TimesScaled
  <1>2. PICK v \in 0..CURVE_ORDER - 1 :
            /\ v = (c * b) % CURVE_ORDER
            /\ Times(c, COFACTOR * b) = COFACTOR * v
    BY TimesScaled
  <1>3. Minus(COFACTOR * u, COFACTOR * v)
           = COFACTOR * ((u + (CURVE_ORDER - v)) % CURVE_ORDER)
    BY MinusScaled
  <1> QED BY <1>1, <1>2, <1>3, Zenon DEF Difference

\* The challenge and the scalar of a proof of the right length.
LEMMA Parts ==
    ASSUME proof \in Seq(Bytes), Len(proof) = PROOF_LEN
    PROVE  /\ C \in 0..RadixPower[C_LEN] - 1 /\ C \in 0..CURVE_ORDER - 1
           /\ Multiplies(C)
           /\ S \in Nat /\ (S < CURVE_ORDER => Multiplies(S))
  <1>1. PICK i \in Nat \ {0}, j \in Nat \ {0}, k \in Nat \ {0} :
            i = PT_LEN /\ j = C_LEN /\ k = Q_LEN
    BY RadixFacts
  <1>2. PICK p \in Seq(Bytes) : p = proof /\ Len(p) = i + j + k
    BY <1>1 DEF PROOF_LEN
  <1> HIDE DEF Bytes
  <1>3. SubSeq(p, i + 1, i + j) \in Seq(Bytes)
        /\ Len(SubSeq(p, i + 1, i + j)) = j
    BY <1>2
  <1>4. SubSeq(p, i + j + 1, i + j + k) \in Seq(Bytes)
    BY <1>2
  <1>5. C \in 0..RadixPower[C_LEN] - 1
    <2>1. PICK b \in Seq(Bytes) : b = SubSeq(p, i + 1, i + j) /\ Len(b) = j
      BY <1>3
    <2>2. C = bytesToBigIntLE(b)
      BY <1>1, <1>2, <2>1 DEF C
    <2> QED BY <1>1, <2>1, <2>2, DecodeBound
  <1>6. S \in Nat
    <2>1. PICK b \in Seq(Bytes) : b = SubSeq(p, i + j + 1, i + j + k)
      BY <1>4
    <2>2. S = bytesToBigIntLE(b)
      BY <1>1, <1>2, <2>1 DEF S, PROOF_LEN
    <2>3. PICK m \in Nat : m = Len(b)
      OBVIOUS
    <2>4. bytesToBigIntLE(b) \in 0..RadixPower[m] - 1
      BY <2>3, DecodeBound
    <2> QED BY <2>2, <2>4, PowerType
  <1>7. RadixPower[C_LEN] < CURVE_ORDER /\ CURVE_ORDER \in Nat
    BY SuiteAssumption
  <1>8. PICK m \in Nat : m = RadixPower[C_LEN]
    BY <1>1, PowerType
  <1>9. C \in 0..CURVE_ORDER - 1
    BY <1>5, <1>7, <1>8
  <1>10. \A n \in Nat : n < CURVE_ORDER => Multiplies(n)
    BY <1>7 DEF Multiplies, InRange
  <1> QED BY <1>5, <1>6, <1>7, <1>9, <1>10

Indices(y, t, g) ==
    /\ Y = COFACTOR * y /\ Gamma = COFACTOR * g
    /\ encodeToCurveTAI = COFACTOR * t

\* The question of Recomputed, for any key, point of the input and Gamma.
VerifierQuestion(py, ph, pg, c, s) ==
    Question(py, ph, pg, Minus(Times(s, BASE), Times(c, py)),
             Minus(Times(s, ph), Times(c, pg)))

Commitments(c, s, y, t, g) ==
    <<COFACTOR * y, COFACTOR * t, COFACTOR * g,
      COFACTOR * Difference(CURVE_ORDER, s, c * y),
      COFACTOR * Difference(CURVE_ORDER, s * t, c * g)>>

\* In a well-formed proof all points are multiples of the cofactor.
LEMMA ProofForm ==
    ASSUME TypeInv, WellFormed, ~Exhausted
    PROVE  \E y \in 1..CURVE_ORDER - 1, t \in 1..CURVE_ORDER - 1,
              g \in 1..CURVE_ORDER - 1 : Indices(y, t, g)
  <1>1. Y \in Points /\ Gamma \in Points
    BY Zenon DEF WellFormed, Decodes, Y, Gamma
  <1>2. InSubgroup(Y) /\ InSubgroup(Gamma)
    BY DEF WellFormed
  <1>3. PICK y \in 1..CURVE_ORDER - 1 : Y = COFACTOR * y
    BY <1>1, <1>2, SubgroupForm
  <1>4. PICK g \in 1..CURVE_ORDER - 1 : Gamma = COFACTOR * g
    BY <1>1, <1>2, SubgroupForm
  <1>5. PICK t \in 1..CURVE_ORDER - 1 : encodeToCurveTAI = COFACTOR * t
    BY HashForm DEF TypeInv
  <1> QED BY <1>3, <1>4, <1>5, Zenon DEF Indices

LEMMA KeyForm ==
    ASSUME NEW y \in 1..CURVE_ORDER - 1
    PROVE  Times(y, BASE) = COFACTOR * y
  <1>1. y \in Nat /\ y \in 0..CURVE_ORDER - 1 /\ y * 1 = y
    BY RadixFacts
  <1>2. Times(y, COFACTOR * 1) = COFACTOR * ((y * 1) % CURVE_ORDER)
    BY <1>1, TimesScaled
  <1>3. y % CURVE_ORDER = y
    BY <1>1, ZeroMod, RadixFacts
  <1> QED BY <1>1, <1>2, <1>3, BaseForm, Zenon

LEMMA QuestionForm ==
    ASSUME NEW y \in Nat, NEW t \in Nat, NEW g \in Nat,
           NEW c \in Nat, NEW s \in Nat
    PROVE  VerifierQuestion(COFACTOR * y, COFACTOR * t, COFACTOR * g, c, s)
              = Commitments(c, s, y, t, g)
  <1>1. Minus(Times(s, BASE), Times(c, COFACTOR * y))
           = COFACTOR * Difference(CURVE_ORDER, s, c * y)
    <2>1. Minus(Times(s, COFACTOR * 1), Times(c, COFACTOR * y))
             = COFACTOR * Difference(CURVE_ORDER, s * 1, c * y)
      BY CommitmentForm
    <2>2. s * 1 = s
      OBVIOUS
    <2> QED BY <2>1, <2>2, BaseForm, Zenon
  <1>2. Minus(Times(s, COFACTOR * t), Times(c, COFACTOR * g))
           = COFACTOR * Difference(CURVE_ORDER, s * t, c * g)
    BY CommitmentForm
  <1> QED BY <1>1, <1>2, Zenon DEF VerifierQuestion, Question, Commitments

LEMMA RecomputedForm ==
    ASSUME NEW y \in Nat, NEW t \in Nat, NEW g \in Nat, Indices(y, t, g),
           NEW c \in Nat, NEW s \in Nat
    PROVE  Recomputed(c, s) = Commitments(c, s, y, t, g)
  <1>1. VerifierQuestion(COFACTOR * y, COFACTOR * t, COFACTOR * g, c, s)
           = Commitments(c, s, y, t, g)
    BY QuestionForm
  <1>2. Recomputed(c, s) = VerifierQuestion(Y, encodeToCurveTAI, Gamma, c, s)
    BY Zenon DEF Recomputed, VerifierQuestion
  <1> QED BY <1>1, <1>2, Zenon DEF Indices

LEMMA EqualCommitments ==
    ASSUME NEW y \in Nat, NEW t \in Nat, NEW g \in Nat,
           NEW c \in Nat, NEW s \in Nat, NEW d \in Nat, NEW r \in Nat,
           Commitments(c, s, y, t, g) = Commitments(d, r, y, t, g)
    PROVE  SameCommitments(c, s, d, r, y, t, g)
  <1>1. PICK q \in Nat \ {0}, h \in Nat \ {0} : q = CURVE_ORDER /\ h = COFACTOR
    BY RadixFacts
  <1>2. \A a, b \in Nat : Difference(q, a, b) \in Nat
    <2> SUFFICES ASSUME NEW a \in Nat, NEW b \in Nat
                 PROVE  Difference(q, a, b) \in Nat
      OBVIOUS
    <2>1. PICK u \in 0..q - 1, v \in 0..q - 1 : u = a % q /\ v = b % q
      BY DivMod
    <2>2. u + (q - v) \in Nat
      OBVIOUS
    <2>3. (u + (q - v)) % q \in Nat
      BY <2>2, DivMod
    <2> QED BY <2>1, <2>3 DEF Difference
  <1>3. /\ c * y \in Nat /\ d * y \in Nat /\ s * t \in Nat
        /\ c * g \in Nat /\ r * t \in Nat /\ d * g \in Nat
    OBVIOUS
  <1>4. PICK i \in Nat, j \in Nat, k \in Nat, l \in Nat :
            /\ i = Difference(q, s, c * y) /\ j = Difference(q, s * t, c * g)
            /\ k = Difference(q, r, d * y) /\ l = Difference(q, r * t, d * g)
    BY <1>2, <1>3, Zenon
  <1>5. /\ Commitments(c, s, y, t, g)
              = <<h * y, h * t, h * g, h * i, h * j>>
        /\ Commitments(d, r, y, t, g)
              = <<h * y, h * t, h * g, h * k, h * l>>
    BY <1>1, <1>4, Zenon DEF Commitments
  <1>6. h * i = h * k /\ h * j = h * l
    <2>1. PICK a, b, e, m, n, o, p :
              /\ a = h * y /\ b = h * t /\ e = h * g
              /\ m = h * i /\ n = h * j /\ o = h * k /\ p = h * l
      OBVIOUS
    <2>2. <<a, b, e, m, n>> = <<a, b, e, o, p>>
      BY <1>5, <2>1, Zenon
    <2>3. m = o /\ n = p
      BY <2>2
    <2> QED BY <2>1, <2>3, Zenon
  <1>7. i = k /\ j = l
    BY <1>6
  <1> QED BY <1>1, <1>4, <1>7, Zenon DEF SameCommitments

\* Two challenges that a prover can answer for the same U and V fix Gamma.
LEMMA TwoAnswersDetermine ==
    ASSUME TypeInv, WellFormed, ~Exhausted,
           NEW c \in 0..CURVE_ORDER - 1, NEW s \in 0..CURVE_ORDER - 1,
           NEW d \in 0..CURVE_ORDER - 1, NEW r \in 0..CURVE_ORDER - 1,
           c # d, Recomputed(c, s) = Recomputed(d, r)
    PROVE  \E scalar \in 1..CURVE_ORDER - 1 :
             /\ Y = Times(scalar, BASE)
             /\ Gamma = Times(scalar, encodeToCurveTAI)
  <1>1. PICK y \in 1..CURVE_ORDER - 1, t \in 1..CURVE_ORDER - 1,
             g \in 1..CURVE_ORDER - 1 : Indices(y, t, g)
    BY ProofForm
  <1>2. /\ y \in Nat /\ t \in Nat /\ g \in Nat
        /\ g \in 0..CURVE_ORDER - 1 /\ y \in 0..CURVE_ORDER - 1
        /\ c \in Nat /\ d \in Nat /\ s \in Nat /\ r \in Nat
    BY RadixFacts
  <1>3. Commitments(c, s, y, t, g) = Commitments(d, r, y, t, g)
    BY <1>1, <1>2, RecomputedForm
  <1>4. SameCommitments(c, s, d, r, y, t, g)
    BY <1>2, <1>3, EqualCommitments
  <1>5. (y * t) % CURVE_ORDER = g
    BY <1>2, <1>4, TwoAnswers
  <1>6. Times(y, BASE) = COFACTOR * y
    BY KeyForm
  <1>7. Times(y, encodeToCurveTAI) = COFACTOR * g
    <2>1. Times(y, COFACTOR * t) = COFACTOR * ((y * t) % CURVE_ORDER)
      BY <1>2, TimesScaled
    <2> QED BY <1>1, <1>5, <2>1, Zenon DEF Indices
  <1> QED BY <1>1, <1>6, <1>7, Zenon DEF Indices

\* The commitments that the verifier computes are the ones the prover hashed.
LEMMA HonestCommitments ==
    ASSUME NEW y \in 1..CURVE_ORDER - 1, NEW t \in Nat, NEW k \in Nat,
           NEW c \in Nat, NEW s, s = (k + c * y) % CURVE_ORDER,
           NEW g, g = (y * t) % CURVE_ORDER
    PROVE  Commitments(c, s, y, t, g)
              = Question(Times(y, BASE), COFACTOR * t, Times(y, COFACTOR * t),
                         Times(k, BASE), Times(k, COFACTOR * t))
  <1>1. PICK q \in Nat \ {0} : q = CURVE_ORDER
    BY RadixFacts
  <1>2. y \in Nat /\ y \in 0..q - 1
    BY <1>1
  <1>3. s \in Nat
    <2>1. PICK m \in Nat : m = k + c * y
      <3>1. k + c * y \in Nat
        BY <1>2
      <3> QED BY <3>1
    <2>2. m % q \in Nat
      BY DivMod
    <2> QED BY <1>1, <2>1, <2>2
  <1>4. Difference(q, s * t, c * g) = (k * t) % q
    <2>1. Cancels(q, k, c, y, t)
      BY <1>1, <1>2, ResponseCancels
    <2> QED BY <1>1, <2>1, Zenon DEF Cancels
  <1>5. Difference(q, s, c * y) = (k * 1) % q
    <2>1. Cancels(q, k, c, y, 1)
      BY <1>1, <1>2, ResponseCancels
    <2>2. Difference(q, s * 1, c * ((y * 1) % q)) = (k * 1) % q
      BY <1>1, <2>1, Zenon DEF Cancels
    <2>3. s * 1 = s /\ y * 1 = y
      BY <1>2, <1>3
    <2>4. y % q = y
      BY <1>2, ZeroMod
    <2> QED BY <2>2, <2>3, <2>4, Zenon
  <1>6. Times(k, COFACTOR * 1) = COFACTOR * ((k * 1) % CURVE_ORDER)
    BY TimesScaled
  <1>7. Times(k, COFACTOR * t) = COFACTOR * ((k * t) % CURVE_ORDER)
    BY TimesScaled
  <1>8. Times(y, COFACTOR * 1) = COFACTOR * y
    BY KeyForm, BaseForm
  <1>9. Times(y, COFACTOR * t) = COFACTOR * g
    <2>1. Times(y, COFACTOR * t) = COFACTOR * ((y * t) % CURVE_ORDER)
      BY <1>2, TimesScaled
    <2> QED BY <2>1
  <1> QED BY <1>1, <1>4, <1>5, <1>6, <1>7, <1>8, <1>9, BaseForm, Zenon
          DEF Commitments, Question

LEMMA TwoElements ==
    ASSUME NEW T, Cardinality(T) > 1
    PROVE  \E a, b \in T : a # b
  <1>1. T # {}
    BY FS_EmptySet
  <1>2. PICK a : a \in T
    BY <1>1
  <1>3. T # {a}
    BY FS_Singleton
  <1> QED BY <1>2, <1>3

-----------------------------------------------------------------------------
(* Steps.                                                                  *)

\* What the definitions of the proof say depends on the key, the proof and the
\* oracle of the candidates.
LEMMA SameProof ==
    ASSUME pk' = pk, proof' = proof, candidates' = candidates
    PROVE  /\ WellFormed' <=> WellFormed
           /\ Exhausted' <=> Exhausted
           /\ Hashable' <=> Hashable
           /\ C' = C /\ S' = S /\ Gamma' = Gamma /\ Y' = Y
           /\ encodeToCurveTAI' = encodeToCurveTAI
           /\ Recomputed(C, S)' = Recomputed(C, S)
  <1>1. GammaBytes' = GammaBytes
    BY Zenon DEF GammaBytes
  <1>2. Y' = Y
    BY Zenon DEF Y
  <1>3. Gamma' = Gamma
    BY <1>1, Zenon DEF Gamma
  <1>4. C' = C
    BY Zenon DEF C
  <1>5. S' = S
    BY Zenon DEF S
  <1>6. encodeToCurveTAI' = encodeToCurveTAI
    BY Zenon DEF encodeToCurveTAI, Usable
  <1>7. Exhausted' <=> Exhausted
    BY Zenon DEF Exhausted, Usable
  <1>8. WellFormed' <=> WellFormed
    BY <1>1, <1>2, <1>3, <1>5, Zenon DEF WellFormed
  <1>9. Hashable' <=> Hashable
    BY <1>1, <1>3, Zenon DEF Hashable
  <1>10. Recomputed(C, S)' = Recomputed(C, S)
    BY <1>2, <1>3, <1>4, <1>5, <1>6, Zenon DEF Recomputed, Question
  <1> QED BY <1>2, <1>3, <1>4, <1>5, <1>6, <1>7, <1>8, <1>9, <1>10, Zenon

LEMMA AskedFacts ==
    ASSUME NEW question, NEW c \in Challenge(question), TypeInv
    PROVE  /\ c \in 0..RadixPower[C_LEN] - 1
           /\ question \in DOMAIN Asked(question, c)
           /\ Asked(question, c)[question] = c
           /\ \A m \in DOMAIN challenges :
                m \in DOMAIN Asked(question, c)
                /\ Asked(question, c)[m] = challenges[m]
           /\ \A m \in DOMAIN Asked(question, c) :
                Asked(question, c)[m] \in 0..RadixPower[C_LEN] - 1
  <1>1. c \in 0..RadixPower[C_LEN] - 1
    BY Zenon DEF Challenge, TypeInv
  <1>2. question \in DOMAIN challenges => c = challenges[question]
    BY Zenon DEF Challenge
  <1>3. PICK a : a = Asked(question, c)
    OBVIOUS
  <1>4. a = [m \in DOMAIN challenges \cup {question} |->
                IF m = question THEN c ELSE challenges[m]]
    BY <1>3 DEF Asked
  <1>5. DOMAIN a = DOMAIN challenges \cup {question}
    BY <1>4
  <1>6. \A m \in DOMAIN a : a[m] = IF m = question THEN c ELSE challenges[m]
    BY <1>4
  <1>7. \A m \in DOMAIN challenges : m \in DOMAIN a /\ a[m] = challenges[m]
    BY <1>2, <1>5, <1>6, Zenon
  <1>8. question \in DOMAIN a /\ a[question] = c
    BY <1>5, <1>6, Zenon
  <1>9. \A m \in DOMAIN challenges :
            challenges[m] \in 0..RadixPower[C_LEN] - 1
    BY DEF TypeInv
  <1>10. \A m \in DOMAIN a : a[m] \in 0..RadixPower[C_LEN] - 1
    BY <1>1, <1>5, <1>6, <1>9, Zenon
  <1> QED BY <1>1, <1>3, <1>7, <1>8, <1>10, Zenon

\* The points of a proof that proveVRF makes, and of its key.
LEMMA HonestPoints ==
    ASSUME NEW y \in 1..CURVE_ORDER - 1, NEW t \in 1..CURVE_ORDER - 1,
           NEW g, g = (y * t) % CURVE_ORDER
    PROVE  /\ g \in 1..CURVE_ORDER - 1
           /\ Times(y, COFACTOR * t) = COFACTOR * g
           /\ COFACTOR * g \in Points /\ InSubgroup(COFACTOR * g)
           /\ bytesToBigIntLE(bigIntToBytesLE(COFACTOR * g, PT_LEN))
                 = COFACTOR * g
           /\ COFACTOR * g \in Nat
  <1>1. PICK q \in Nat \ {0}, h \in Nat \ {0} :
            q = CURVE_ORDER /\ h = COFACTOR /\ GROUP_ORDER = h * q
    BY GroupFacts
  <1>2. y \in Nat /\ t \in Nat /\ y \in 1..q - 1 /\ t \in 1..q - 1
    BY <1>1
  <1>3. Times(y, COFACTOR * t) = COFACTOR * g /\ g \in 0..q - 1
    BY <1>1, <1>2, TimesScaled
  <1>4. g # 0
    <2>1. (y * t) % CURVE_ORDER # 0
      BY SuiteAssumption
    <2> QED BY <2>1
  <1>5. g \in 1..CURVE_ORDER - 1
    BY <1>1, <1>3, <1>4
  <1>6. COFACTOR * g \in Points /\ InSubgroup(COFACTOR * g)
    BY <1>5, FormSubgroup
  <1>7. PICK P \in Nat : P = COFACTOR * g /\ P < GROUP_ORDER
    BY <1>6, GroupFacts DEF Points
  <1>8. P < RadixPower[PT_LEN]
    <2>1. PICK m \in Nat : m = RadixPower[PT_LEN]
      BY PowerType, RadixFacts
    <2> QED BY <1>7, <2>1, GroupFacts
  <1>9. bytesToBigIntLE(bigIntToBytesLE(P, PT_LEN)) = P
    BY <1>8, DecodeEncode, RadixFacts
  <1> QED BY <1>3, <1>5, <1>6, <1>7, <1>9

\* A registered key is the point of its scalar.
LEMMA HonestKey ==
    ASSUME NEW y \in 1..CURVE_ORDER - 1
    PROVE  /\ COFACTOR * y \in Points /\ InSubgroup(COFACTOR * y)
           /\ bytesToBigIntLE(bigIntToBytesLE(COFACTOR * y, PT_LEN))
                 = COFACTOR * y
           /\ COFACTOR * y \in Nat
           /\ bigIntToBytesLE(COFACTOR * y, PT_LEN) \in Seq(Bytes)
           /\ bigIntToBytesLE(COFACTOR * y, PT_LEN) # <<>>
           /\ Len(bigIntToBytesLE(COFACTOR * y, PT_LEN)) = PT_LEN
  <1>1. 1 \in 1..CURVE_ORDER - 1 /\ y \in 0..CURVE_ORDER - 1 /\ y * 1 = y
    BY RadixFacts
  <1>2. y = (y * 1) % CURVE_ORDER
    BY <1>1, ZeroMod, RadixFacts
  <1>3. /\ COFACTOR * y \in Points /\ InSubgroup(COFACTOR * y)
        /\ bytesToBigIntLE(bigIntToBytesLE(COFACTOR * y, PT_LEN)) = COFACTOR * y
        /\ COFACTOR * y \in Nat
    BY <1>1, <1>2, HonestPoints
  <1>4. PICK P \in Nat : P = COFACTOR * y
    BY <1>3
  <1>5. PICK b : b = bigIntToBytesLE(P, PT_LEN)
    OBVIOUS
  <1>6. b \in Seq(Bytes) /\ Len(b) = PT_LEN
    BY <1>5, EncodeType, RadixFacts
  <1>7. b # <<>>
    BY <1>6, RadixFacts
  <1> QED BY <1>3, <1>4, <1>5, <1>6, <1>7

LEMMA HonestScalar ==
    ASSUME NEW k \in Nat, NEW c \in Nat, NEW y \in Nat
    PROVE  LET s == (k + c * y) % CURVE_ORDER
           IN  /\ s \in 0..CURVE_ORDER - 1
               /\ bytesToBigIntLE(bigIntToBytesLE(s, Q_LEN)) = s
  <1>1. PICK q \in Nat \ {0} : q = CURVE_ORDER
    BY RadixFacts
  <1>2. PICK m \in Nat : m = k + c * y
    <2>1. k + c * y \in Nat
      OBVIOUS
    <2> QED BY <2>1
  <1>3. PICK s \in 0..q - 1 : s = m % q
    BY DivMod
  <1>4. s \in Nat /\ s < RadixPower[Q_LEN]
    <2>1. PICK p \in Nat : p = RadixPower[Q_LEN]
      BY PowerType, RadixFacts
    <2>2. q < p
      BY <1>1, <2>1, SuiteAssumption
    <2> QED BY <2>1, <2>2
  <1>5. bytesToBigIntLE(bigIntToBytesLE(s, Q_LEN)) = s
    BY <1>4, DecodeEncode, RadixFacts
  <1> QED BY <1>1, <1>2, <1>3, <1>5

LEMMA ProveStep ==
    ASSUME EcvrfInv, NEW k \in 0..CURVE_ORDER - 1, proveVRF(k)
    PROVE  EcvrfInv'
  <1>1. /\ x # 0 /\ proof = <<>> /\ ~Exhausted /\ k \in 1..CURVE_ORDER - 1
        /\ maker' = "proveVRF"
        /\ candidates' = candidates /\ x' = x /\ pk' = pk
        /\ verdict' = verdict /\ beta' = beta /\ thrown' = thrown
    BY Zenon DEF proveVRF, InRange
  <1>2. PICK question :
          question = Question(Times(x, BASE), encodeToCurveTAI,
                              Times(x, encodeToCurveTAI), Times(k, BASE),
                              Times(k, encodeToCurveTAI))
    OBVIOUS
  <1>3. PICK c \in Challenge(question) :
          /\ challenges' = Asked(question, c)
          /\ proof' = bigIntToBytesLE(Times(x, encodeToCurveTAI), PT_LEN)
                        \o bigIntToBytesLE(c, C_LEN)
                        \o bigIntToBytesLE(ReducedResponse(k, c), Q_LEN)
    BY <1>2, Zenon DEF proveVRF
  <1>4. TypeInv /\ OrderInv /\ ResultInv
    BY Zenon DEF EcvrfInv
  <1>5. PICK y \in 1..CURVE_ORDER - 1 : y = x
    <2>1. x \in 1..CURVE_ORDER - 1
      BY <1>1, <1>4, RadixFacts DEF TypeInv
    <2> QED BY <2>1
  <1>6. PICK t \in 1..CURVE_ORDER - 1 : encodeToCurveTAI = COFACTOR * t
    BY <1>1, <1>4, HashForm DEF TypeInv
  <1>7. k \in Nat /\ t \in Nat /\ y \in Nat /\ CURVE_ORDER \in Nat
    BY RadixFacts
  <1>8. /\ c \in 0..RadixPower[C_LEN] - 1
        /\ question \in DOMAIN Asked(question, c)
        /\ Asked(question, c)[question] = c
        /\ \A m \in DOMAIN Asked(question, c) :
              Asked(question, c)[m] \in 0..RadixPower[C_LEN] - 1
    BY <1>4, AskedFacts
  <1>9. c \in Nat /\ c < RadixPower[C_LEN] /\ c \in 0..CURVE_ORDER - 1
    <2>1. PICK m \in Nat : m = RadixPower[C_LEN]
      BY PowerType, RadixFacts
    <2>2. m < CURVE_ORDER
      BY <2>1, SuiteAssumption
    <2> QED BY <1>7, <1>8, <2>1, <2>2
  <1>10. PICK g : g = (y * t) % CURVE_ORDER
    OBVIOUS
  <1>11. PICK s : s = (k + c * y) % CURVE_ORDER
    OBVIOUS
  <1>12. /\ g \in 1..CURVE_ORDER - 1
         /\ Times(y, COFACTOR * t) = COFACTOR * g
         /\ COFACTOR * g \in Points /\ InSubgroup(COFACTOR * g)
         /\ bytesToBigIntLE(bigIntToBytesLE(COFACTOR * g, PT_LEN))
               = COFACTOR * g
         /\ COFACTOR * g \in Nat
    BY <1>10, HonestPoints
  <1>13. s \in 0..CURVE_ORDER - 1
         /\ bytesToBigIntLE(bigIntToBytesLE(s, Q_LEN)) = s
    BY <1>7, <1>9, <1>11, HonestScalar
  <1>14. PICK b1, b2, b3 :
           /\ b1 = bigIntToBytesLE(COFACTOR * g, PT_LEN)
           /\ b2 = bigIntToBytesLE(c, C_LEN) /\ b3 = bigIntToBytesLE(s, Q_LEN)
    OBVIOUS
  <1>15. proof' = b1 \o b2 \o b3
    BY <1>3, <1>5, <1>6, <1>11, <1>12, <1>14, Zenon DEF ReducedResponse
  <1>16. /\ b1 \in Seq(Bytes) /\ Len(b1) = PT_LEN
         /\ b2 \in Seq(Bytes) /\ Len(b2) = C_LEN
         /\ b3 \in Seq(Bytes) /\ Len(b3) = Q_LEN
    <2>1. s \in Nat
      BY <1>7, <1>13
    <2> QED BY <1>9, <1>12, <1>14, <2>1, EncodeType, RadixFacts
  <1>17. bytesToBigIntLE(b2) = c
    BY <1>9, <1>14, DecodeEncode, RadixFacts
  <1>18. /\ proof' \in Seq(Bytes) /\ proof' # <<>> /\ Len(proof') = PROOF_LEN
         /\ SubSeq(proof', 1, PT_LEN) = b1
         /\ SubSeq(proof', PT_LEN + 1, PT_LEN + C_LEN) = b2
         /\ SubSeq(proof', PT_LEN + C_LEN + 1, PROOF_LEN) = b3
    <2>1. PICK p : p = b1 \o b2 \o b3
      OBVIOUS
    <2>2. Layout(p, b1, b2, b3)
      BY <1>16, <2>1, ProofLayout
    <2> QED BY <1>15, <2>1, <2>2, Zenon DEF Layout
  <1>19. GammaBytes' = b1 /\ Gamma' = COFACTOR * g /\ C' = c /\ S' = s
    BY <1>12, <1>13, <1>14, <1>17, <1>18, Zenon DEF GammaBytes, Gamma, C, S
  <1>20. /\ pk = bigIntToBytesLE(COFACTOR * y, PT_LEN)
         /\ Len(pk) = PT_LEN /\ pk # <<>>
         /\ Y = COFACTOR * y /\ Y \in Points /\ InSubgroup(Y)
    <2>1. pk = bigIntToBytesLE(COFACTOR * y, PT_LEN)
      <3>1. Times(y, BASE) = COFACTOR * y
        BY KeyForm
      <3>2. pk = bigIntToBytesLE(Times(x, BASE), PT_LEN)
        BY <1>1, <1>4, Zenon DEF OrderInv
      <3> QED BY <1>5, <3>1, <3>2, Zenon
    <2>2. Y = bytesToBigIntLE(pk)
      BY Zenon DEF Y
    <2> QED BY <2>1, <2>2, HonestKey, Zenon
  <1>21. Y' = Y /\ Exhausted' = Exhausted
         /\ encodeToCurveTAI' = encodeToCurveTAI
    BY <1>1, Zenon DEF Y, Exhausted, encodeToCurveTAI, Usable
  <1>22. WellFormed'
    <2>1. S' < CURVE_ORDER
      BY <1>7, <1>13, <1>19
    <2>2. Decodes(pk')
      BY <1>1, <1>20, Zenon DEF Decodes, Y
    <2>3. Decodes(GammaBytes')
      BY <1>12, <1>14, <1>19, Zenon DEF Decodes
    <2>4. InSubgroup(Y') /\ InSubgroup(Gamma') /\ Len(pk') = PT_LEN
      BY <1>1, <1>12, <1>19, <1>20, <1>21, Zenon
    <2> QED BY <1>18, <2>1, <2>2, <2>3, <2>4, Zenon DEF WellFormed
  <1>23. Recomputed(C, S)' = question
    <2>1. VerifierQuestion(COFACTOR * y, COFACTOR * t, COFACTOR * g, c, s)
             = Commitments(c, s, y, t, g)
      <3>1. g \in Nat /\ s \in Nat
        BY <1>7, <1>12, <1>13
      <3> QED BY <1>7, <1>9, <3>1, QuestionForm
    <2>2. Commitments(c, s, y, t, g)
              = Question(Times(y, BASE), COFACTOR * t, Times(y, COFACTOR * t),
                         Times(k, BASE), Times(k, COFACTOR * t))
      BY <1>7, <1>9, <1>10, <1>11, HonestCommitments
    <2>3. question = Question(Times(y, BASE), COFACTOR * t,
                              Times(y, COFACTOR * t), Times(k, BASE),
                              Times(k, COFACTOR * t))
      BY <1>2, <1>5, <1>6, Zenon
    <2>4. Recomputed(C, S)'
             = VerifierQuestion(Y', encodeToCurveTAI', Gamma', C', S')
      BY Zenon DEF Recomputed, VerifierQuestion
    <2> QED BY <1>6, <1>19, <1>20, <1>21, <2>1, <2>2, <2>3, <2>4, Zenon
  <1>24. TypeInv'
    BY <1>1, <1>3, <1>4, <1>8, <1>18, Zenon DEF TypeInv
  <1>25. OrderInv'
    BY <1>1, <1>4, <1>18, <1>20, Zenon DEF OrderInv
  <1>26. verdict = "none" /\ beta = <<>>
         /\ "verifyVRF" \notin thrown /\ "vrfProofToHash" \notin thrown
    BY <1>1, <1>4, Zenon DEF OrderInv
  <1>27. ProvenInv'
    <2>1. Gamma' = Times(x', encodeToCurveTAI')
      BY <1>1, <1>5, <1>6, <1>12, <1>19, <1>21, Zenon
    <2>2. Recomputed(C, S)' \in DOMAIN challenges'
          /\ challenges'[Recomputed(C, S)'] = C'
      BY <1>3, <1>8, <1>19, <1>23, Zenon
    <2>3. verdict' \in {"none", "true"}
          /\ beta' \in {<<>>, <<Times(COFACTOR, Times(x', encodeToCurveTAI'))>>}
      BY <1>1, <1>26, Zenon
    <2> QED BY <1>1, <1>21, <1>22, <2>1, <2>2, <2>3, Zenon DEF ProvenInv
  <1>28. ResultInv'
    <2>1. "none" # "true"
      OBVIOUS
    <2> QED BY <1>1, <1>26, <2>1, Zenon DEF ResultInv
  <1> QED BY <1>24, <1>25, <1>27, <1>28, Zenon DEF EcvrfInv

-----------------------------------------------------------------------------
LEMMA GenerateStep ==
    ASSUME EcvrfInv, NEW hash, generateKeyPair(hash)
    PROVE  EcvrfInv'
  <1>1. /\ pk = <<>> /\ deriveScalar(hash) \in 1..CURVE_ORDER - 1
        /\ x' = deriveScalar(hash)
        /\ pk' = bigIntToBytesLE(Times(x', BASE), PT_LEN)
        /\ candidates' = candidates /\ challenges' = challenges
        /\ maker' = maker /\ proof' = proof /\ verdict' = verdict
        /\ beta' = beta /\ thrown' = thrown
    BY Zenon DEF generateKeyPair, InRange
  <1>2. PICK y \in 1..CURVE_ORDER - 1 : y = x'
    BY <1>1, Zenon
  <1>3. Times(y, BASE) = COFACTOR * y
    BY KeyForm
  <1>4. pk' \in Seq(Bytes) /\ pk' # <<>>
    BY <1>1, <1>2, <1>3, HonestKey, Zenon
  <1>5. /\ proof = <<>> /\ maker = "nobody" /\ verdict = "none" /\ beta = <<>>
        /\ "verifyVRF" \notin thrown /\ "vrfProofToHash" \notin thrown
    BY <1>1, Zenon DEF EcvrfInv, OrderInv
  <1>6. x' \in 0..CURVE_ORDER - 1
    BY <1>2, RadixFacts
  <1>7. TypeInv'
    BY <1>1, <1>4, <1>6, Zenon DEF EcvrfInv, TypeInv
  <1>8. OrderInv'
    BY <1>1, <1>4, <1>5, Zenon DEF OrderInv
  <1>9. "nobody" # "proveVRF" /\ "none" # "true"
    OBVIOUS
  <1>10. ResultInv'
    BY <1>1, <1>5, <1>9, Zenon DEF ResultInv
  <1> QED BY <1>1, <1>5, <1>7, <1>8, <1>9, <1>10, Zenon DEF EcvrfInv

LEMMA PublishStep ==
    ASSUME EcvrfInv, NEW bytes \in MadeKeys, PublishKey(bytes)
    PROVE  EcvrfInv'
  <1>1. /\ pk = <<>> /\ pk' = bytes /\ x' = x
        /\ candidates' = candidates /\ challenges' = challenges
        /\ maker' = maker /\ proof' = proof /\ verdict' = verdict
        /\ beta' = beta /\ thrown' = thrown
    BY Zenon DEF PublishKey
  <1>2. bytes \in Seq(Bytes) /\ bytes # <<>>
    BY SuiteAssumption DEF Bytes
  <1>3. /\ x = 0 /\ proof = <<>> /\ maker = "nobody" /\ verdict = "none"
        /\ beta = <<>> /\ "verifyVRF" \notin thrown
        /\ "vrfProofToHash" \notin thrown
    BY <1>1, Zenon DEF EcvrfInv, OrderInv
  <1>4. TypeInv'
    BY <1>1, <1>2, Zenon DEF EcvrfInv, TypeInv
  <1>5. OrderInv'
    BY <1>1, <1>2, <1>3, Zenon DEF OrderInv
  <1>6. "nobody" # "proveVRF" /\ "none" # "true"
    OBVIOUS
  <1>7. ResultInv'
    BY <1>1, <1>3, <1>6, Zenon DEF ResultInv
  <1> QED BY <1>1, <1>3, <1>4, <1>5, <1>6, <1>7, Zenon DEF EcvrfInv

LEMMA ForgeStep ==
    ASSUME EcvrfInv, NEW bytes \in MadeProofs, Forge(bytes)
    PROVE  EcvrfInv'
  <1>1. /\ pk # <<>> /\ proof = <<>> /\ maker' = "forger" /\ proof' = bytes
        /\ candidates' = candidates /\ challenges' = challenges
        /\ x' = x /\ pk' = pk /\ verdict' = verdict
        /\ beta' = beta /\ thrown' = thrown
    BY Zenon DEF Forge
  <1>2. bytes \in Seq(Bytes) /\ bytes # <<>>
    BY SuiteAssumption DEF Bytes
  <1>3. /\ verdict = "none" /\ beta = <<>> /\ "verifyVRF" \notin thrown
        /\ "vrfProofToHash" \notin thrown
    BY <1>1, Zenon DEF EcvrfInv, OrderInv
  <1>4. TypeInv'
    BY <1>1, <1>2, Zenon DEF EcvrfInv, TypeInv
  <1>5. OrderInv'
    BY <1>1, <1>2, <1>3, Zenon DEF EcvrfInv, OrderInv
  <1>6. "forger" # "proveVRF" /\ "none" # "true"
    OBVIOUS
  <1>7. ResultInv'
    BY <1>1, <1>3, <1>6, Zenon DEF ResultInv
  <1> QED BY <1>1, <1>4, <1>5, <1>6, <1>7, Zenon DEF EcvrfInv

\* The steps that change neither the keys nor the proof.
LEMMA VerifyStep ==
    ASSUME EcvrfInv, verifyVRF
    PROVE  EcvrfInv'
  <1>1. /\ proof # <<>> /\ verdict = "none"
        /\ candidates' = candidates /\ x' = x /\ pk' = pk
        /\ maker' = maker /\ proof' = proof /\ beta' = beta
    BY Zenon DEF verifyVRF
  <1>2. TypeInv /\ OrderInv /\ ResultInv /\ (maker = "proveVRF" => ProvenInv)
    BY Zenon DEF EcvrfInv
  <1>3. /\ WellFormed' <=> WellFormed
        /\ Exhausted' <=> Exhausted
        /\ Hashable' <=> Hashable
        /\ C' = C /\ S' = S /\ Gamma' = Gamma
        /\ encodeToCurveTAI' = encodeToCurveTAI
        /\ Recomputed(C, S)' = Recomputed(C, S)
    BY <1>1, SameProof, Zenon
  <1>4. OrderInv'
    BY <1>1, <1>2, Zenon DEF OrderInv
  <1>5. ASSUME maker = "proveVRF" PROVE ProvenInv
    BY <1>2, <1>5, Zenon
  <1>6. WellFormed => Multiplies(S) /\ Multiplies(C)
    <2> SUFFICES ASSUME WellFormed PROVE Multiplies(S) /\ Multiplies(C)
      OBVIOUS
    <2>1. Len(proof) = PROOF_LEN /\ S < CURVE_ORDER
      BY Zenon DEF WellFormed
    <2>2. proof \in Seq(Bytes)
      BY <1>2, Zenon DEF TypeInv
    <2> QED BY <2>1, <2>2, Parts, Zenon
  <1>7. CASE ~WellFormed /\ verdict' = "false"
             /\ challenges' = challenges /\ thrown' = thrown
    <2>1. maker # "proveVRF"
      BY <1>5, <1>7, Zenon DEF ProvenInv
    <2>2. "false" # "true"
      OBVIOUS
    <2>3. TypeInv'
      BY <1>1, <1>2, <1>7, Zenon DEF TypeInv
    <2>4. ResultInv'
      BY <1>2, <1>3, <1>7, <2>2, Zenon DEF ResultInv
    <2> QED BY <1>1, <1>4, <2>1, <2>3, <2>4, Zenon DEF EcvrfInv
  <1>8. CASE WellFormed /\ (Exhausted \/ ~Multiplies(S) \/ ~Multiplies(C))
             /\ thrown' = thrown \cup {"verifyVRF"}
             /\ challenges' = challenges /\ verdict' = verdict
    <2>1. Exhausted
      BY <1>6, <1>8, Zenon
    <2>2. maker # "proveVRF"
      BY <1>5, <2>1, Zenon DEF ProvenInv
    <2>3. TypeInv'
      BY <1>1, <1>2, <1>8, Zenon DEF TypeInv
    <2>4. ResultInv'
      <3>1. "vrfProofToHash" \in thrown' => "vrfProofToHash" \in thrown
        BY <1>8
      <3> QED BY <1>2, <1>3, <1>8, <2>1, <3>1, Zenon DEF ResultInv
    <2> QED BY <1>1, <1>4, <2>2, <2>3, <2>4, Zenon DEF EcvrfInv
  <1>9. ASSUME WellFormed, ~Exhausted, NEW c \in Challenge(Recomputed(C, S)),
               challenges' = Asked(Recomputed(C, S), c),
               verdict' = IF c = C THEN "true" ELSE "false",
               thrown' = thrown
        PROVE  EcvrfInv'
    <2>1. /\ c \in 0..RadixPower[C_LEN] - 1
          /\ \A m \in DOMAIN challenges :
               m \in DOMAIN Asked(Recomputed(C, S), c)
               /\ Asked(Recomputed(C, S), c)[m] = challenges[m]
          /\ \A m \in DOMAIN Asked(Recomputed(C, S), c) :
               Asked(Recomputed(C, S), c)[m] \in 0..RadixPower[C_LEN] - 1
      BY <1>2, AskedFacts
    <2>2. TypeInv'
      BY <1>1, <1>2, <1>9, <2>1, Zenon DEF TypeInv
    <2>3. ResultInv'
      BY <1>2, <1>3, <1>9, Zenon DEF ResultInv
    <2>4. ASSUME maker = "proveVRF" PROVE ProvenInv'
      <3>1. /\ x # 0 /\ Gamma = Times(x, encodeToCurveTAI)
            /\ Recomputed(C, S) \in DOMAIN challenges
            /\ challenges[Recomputed(C, S)] = C
            /\ beta \in {<<>>, <<Times(COFACTOR, Times(x, encodeToCurveTAI))>>}
        BY <1>5, <2>4, Zenon DEF ProvenInv
      <3>2. c = C
        BY <1>9, <3>1, Zenon DEF Challenge
      <3>3. verdict' \in {"none", "true"}
        BY <1>9, <3>2, Zenon
      <3>4. Recomputed(C, S)' \in DOMAIN challenges'
            /\ challenges'[Recomputed(C, S)'] = C'
        BY <1>3, <1>9, <2>1, <3>1, Zenon
      <3>5. Gamma' = Times(x', encodeToCurveTAI')
        BY <1>1, <1>3, <3>1, Zenon
      <3>6. beta' \in {<<>>, <<Times(COFACTOR, Times(x', encodeToCurveTAI'))>>}
        BY <1>1, <1>3, <3>1, Zenon
      <3> QED BY <1>1, <1>3, <1>9, <3>1, <3>3, <3>4, <3>5, <3>6, Zenon
              DEF ProvenInv
    <2> QED BY <1>1, <1>4, <2>2, <2>3, <2>4, Zenon DEF EcvrfInv
  <1>10. \/ ~WellFormed /\ verdict' = "false"
             /\ challenges' = challenges /\ thrown' = thrown
         \/ WellFormed /\ (Exhausted \/ ~Multiplies(S) \/ ~Multiplies(C))
             /\ thrown' = thrown \cup {"verifyVRF"}
             /\ challenges' = challenges /\ verdict' = verdict
         \/ /\ WellFormed /\ ~Exhausted
            /\ \E c \in Challenge(Recomputed(C, S)) :
                 /\ challenges' = Asked(Recomputed(C, S), c)
                 /\ verdict' = IF c = C THEN "true" ELSE "false"
            /\ thrown' = thrown
    BY Zenon DEF verifyVRF
  <1> QED BY <1>7, <1>8, <1>9, <1>10, Zenon

LEMMA HashStep ==
    ASSUME EcvrfInv, vrfProofToHash
    PROVE  EcvrfInv'
  <1>1. /\ proof # <<>> /\ beta = <<>>
        /\ candidates' = candidates /\ challenges' = challenges /\ x' = x
        /\ pk' = pk /\ maker' = maker /\ proof' = proof /\ verdict' = verdict
    BY Zenon DEF vrfProofToHash
  <1>2. \/ Hashable /\ beta' = <<Times(COFACTOR, Gamma)>> /\ thrown' = thrown
        \/ ~Hashable /\ thrown' = thrown \cup {"vrfProofToHash"} /\ beta' = beta
    BY Zenon DEF vrfProofToHash, Hashable
  <1>3. TypeInv /\ OrderInv /\ ResultInv /\ (maker = "proveVRF" => ProvenInv)
    BY Zenon DEF EcvrfInv
  <1>4. /\ WellFormed' <=> WellFormed
        /\ Exhausted' <=> Exhausted
        /\ Hashable' <=> Hashable
        /\ C' = C /\ S' = S /\ Gamma' = Gamma
        /\ encodeToCurveTAI' = encodeToCurveTAI
        /\ Recomputed(C, S)' = Recomputed(C, S)
    BY <1>1, SameProof, Zenon
  <1>5. TypeInv'
    BY <1>1, <1>3, Zenon DEF TypeInv
  <1>6. OrderInv'
    BY <1>1, <1>3, Zenon DEF OrderInv
  <1>7. ResultInv'
    <2>1. "verifyVRF" \in thrown' => "verifyVRF" \in thrown
      BY <1>2
    <2> QED BY <1>1, <1>2, <1>3, <1>4, <2>1, Zenon DEF ResultInv
  <1>8. ASSUME maker = "proveVRF" PROVE ProvenInv'
    <2>1. ProvenInv
      BY <1>3, <1>8, Zenon
    <2>2. Gamma = Times(x, encodeToCurveTAI)
      BY <2>1, Zenon DEF ProvenInv
    <2>3. beta' \in {<<>>, <<Times(COFACTOR, Times(x', encodeToCurveTAI'))>>}
      BY <1>1, <1>2, <1>4, <2>2, Zenon
    <2>4. Gamma' = Times(x', encodeToCurveTAI')
      BY <1>1, <1>4, <2>2, Zenon
    <2>5. Recomputed(C, S)' \in DOMAIN challenges'
          /\ challenges'[Recomputed(C, S)'] = C'
      BY <1>1, <1>4, <2>1, Zenon DEF ProvenInv
    <2> QED BY <1>1, <1>4, <2>1, <2>3, <2>4, <2>5, Zenon DEF ProvenInv
  <1> QED BY <1>1, <1>5, <1>6, <1>7, <1>8, Zenon DEF EcvrfInv

LEMMA ProveThrowsStep ==
    ASSUME EcvrfInv, NEW k, ProveThrows(k)
    PROVE  EcvrfInv'
  <1>1. /\ proof = <<>> /\ thrown' = thrown \cup {"proveVRF"}
        /\ candidates' = candidates /\ challenges' = challenges /\ x' = x
        /\ pk' = pk /\ maker' = maker /\ proof' = proof /\ verdict' = verdict
        /\ beta' = beta
    BY Zenon DEF ProveThrows
  <1>2. /\ "verifyVRF" \in thrown' <=> "verifyVRF" \in thrown
        /\ "vrfProofToHash" \in thrown' <=> "vrfProofToHash" \in thrown
    BY <1>1
  <1>3. TypeInv /\ OrderInv /\ ResultInv
    BY Zenon DEF EcvrfInv
  <1>4. maker = "nobody" /\ "nobody" # "proveVRF"
    BY <1>1, <1>3, Zenon DEF OrderInv
  <1>5. /\ WellFormed' <=> WellFormed
        /\ Exhausted' <=> Exhausted
        /\ Hashable' <=> Hashable
    BY <1>1, SameProof, Zenon
  <1>6. TypeInv'
    BY <1>1, <1>3, Zenon DEF TypeInv
  <1>7. OrderInv'
    BY <1>1, <1>2, <1>3, Zenon DEF OrderInv
  <1>8. ResultInv'
    BY <1>1, <1>2, <1>3, <1>5, Zenon DEF ResultInv
  <1> QED BY <1>1, <1>4, <1>6, <1>7, <1>8, Zenon DEF EcvrfInv

LEMMA StutterStep ==
    ASSUME EcvrfInv, UNCHANGED vars
    PROVE  EcvrfInv'
  <1>1. /\ candidates' = candidates /\ challenges' = challenges /\ x' = x
        /\ pk' = pk /\ maker' = maker /\ proof' = proof /\ verdict' = verdict
        /\ beta' = beta /\ thrown' = thrown
    BY Zenon DEF vars
  <1>2. /\ WellFormed' <=> WellFormed
        /\ Exhausted' <=> Exhausted
        /\ Hashable' <=> Hashable
        /\ C' = C /\ S' = S /\ Gamma' = Gamma
        /\ encodeToCurveTAI' = encodeToCurveTAI
        /\ Recomputed(C, S)' = Recomputed(C, S)
    BY <1>1, SameProof, Zenon
  <1>3. TypeInv' /\ OrderInv'
    BY <1>1, Zenon DEF EcvrfInv, TypeInv, OrderInv
  <1>4. ResultInv'
    BY <1>1, <1>2, Zenon DEF EcvrfInv, ResultInv
  <1>5. ASSUME maker = "proveVRF" PROVE ProvenInv'
    <2>1. ProvenInv
      BY <1>5, Zenon DEF EcvrfInv
    <2> QED BY <1>1, <1>2, <2>1, Zenon DEF ProvenInv
  <1> QED BY <1>1, <1>3, <1>4, <1>5, Zenon DEF EcvrfInv

-----------------------------------------------------------------------------
(* The theorems.                                                           *)

\* EcvrfInv holds in every reachable state: what proveVRF made passes all gates
\* and finds its challenge answered, and no result contradicts the proof.
THEOREM EcvrfInvariant == Spec => []EcvrfInv
  <1>1. Init => EcvrfInv
    <2> SUFFICES ASSUME Init PROVE EcvrfInv
      OBVIOUS
    <2>1. TypeInv
      <3>1. 0 \in 0..CURVE_ORDER - 1
        BY RadixFacts
      <3>2. <<>> \in Seq(Bytes) /\ DOMAIN <<>> = {}
        OBVIOUS
      <3>3. \A m \in DOMAIN challenges :
                challenges[m] \in 0..RadixPower[C_LEN] - 1
        BY <3>2 DEF Init
      <3> QED BY <3>1, <3>2, <3>3, Zenon DEF Init, TypeInv
    <2>2. OrderInv
      BY DEF Init, OrderInv
    <2>3. ResultInv
      BY DEF Init, ResultInv
    <2>4. maker # "proveVRF"
      BY DEF Init
    <2> QED BY <2>1, <2>2, <2>3, <2>4, Zenon DEF EcvrfInv
  <1>2. EcvrfInv /\ [Next]_vars => EcvrfInv'
    <2> SUFFICES ASSUME EcvrfInv, [Next]_vars PROVE EcvrfInv'
      OBVIOUS
    <2>1. ASSUME NEW hash, generateKeyPair(hash) PROVE EcvrfInv'
      BY <2>1, GenerateStep, Zenon
    <2>2. ASSUME NEW bytes \in MadeKeys, PublishKey(bytes) PROVE EcvrfInv'
      BY <2>2, PublishStep, Zenon
    <2>3. ASSUME NEW k \in 0..CURVE_ORDER - 1, proveVRF(k) PROVE EcvrfInv'
      BY <2>3, ProveStep, Zenon
    <2>4. ASSUME NEW k \in 0..CURVE_ORDER - 1, ProveThrows(k)
          PROVE  EcvrfInv'
      BY <2>4, ProveThrowsStep, Zenon
    <2>5. ASSUME NEW bytes \in MadeProofs, Forge(bytes) PROVE EcvrfInv'
      BY <2>5, ForgeStep, Zenon
    <2>6. CASE verifyVRF
      BY <2>6, VerifyStep, Zenon
    <2>7. CASE vrfProofToHash
      BY <2>7, HashStep, Zenon
    <2>8. CASE UNCHANGED vars
      BY <2>8, StutterStep, Zenon
    <2> QED BY <2>1, <2>2, <2>3, <2>4, <2>5, <2>6, <2>7, <2>8, Zenon DEF Next
  <1> QED BY <1>1, <1>2, PTL DEF Spec

\* Completeness: every proof of proveVRF is accepted, with the beta of x * H,
\* whatever the seed, the nonce and the challenge (prove.ts:26-48,
\* verify.ts:53-60).
THEOREM HonestProofsAccepted == Spec => []HonestProofsVerify
  <1>1. EcvrfInv => HonestProofsVerify
    BY Zenon DEF EcvrfInv, ProvenInv, HonestProofsVerify
  <1> QED BY <1>1, EcvrfInvariant, PTL

\* verifyVRF throws for no bytes, unless the input has no point, and
\* vrfProofToHash for nothing that verifyVRF accepted (hashToCurve.ts:67,
\* verify.ts:39-60).
THEOREM VerificationIsTotal == Spec => []ThrowsOnlyWhenExhausted
  <1>1. EcvrfInv => ThrowsOnlyWhenExhausted
    <2>1. WellFormed => Hashable
      BY Zenon DEF WellFormed, Hashable
    <2> QED BY <2>1, Zenon DEF EcvrfInv, ResultInv, ThrowsOnlyWhenExhausted
  <1> QED BY <1>1, EcvrfInvariant, PTL

\* "The prover cannot bias it" (packages/ecvrf/README.md:5): the Gamma of an
\* accepted proof whose commitments leave the prover two challenges to answer
\* is the one product of its key's scalar and the input's point.
THEOREM GammaDetermined == Spec => []GammaIsDetermined
  <1>1. EcvrfInv => GammaIsDetermined
    <2> SUFFICES ASSUME EcvrfInv, verdict = "true", Cardinality(Answerable) > 1
                 PROVE  \E scalar \in 1..CURVE_ORDER - 1 :
                          /\ Y = Times(scalar, BASE)
                          /\ Gamma = Times(scalar, encodeToCurveTAI)
      BY Zenon DEF GammaIsDetermined
    <2>1. TypeInv /\ WellFormed /\ ~Exhausted
      BY Zenon DEF EcvrfInv, ResultInv
    <2>2. PICK c \in Answerable, d \in Answerable : c # d
      BY TwoElements
    <2>3. /\ c \in 0..RadixPower[C_LEN] - 1 /\ d \in 0..RadixPower[C_LEN] - 1
          /\ \E s \in 0..CURVE_ORDER - 1 : Recomputed(c, s) = Recomputed(C, S)
          /\ \E r \in 0..CURVE_ORDER - 1 : Recomputed(d, r) = Recomputed(C, S)
      BY <2>2, Zenon DEF Answerable
    <2>4. PICK s \in 0..CURVE_ORDER - 1, r \in 0..CURVE_ORDER - 1 :
              Recomputed(c, s) = Recomputed(d, r)
      BY <2>3, Zenon
    <2>5. c \in 0..CURVE_ORDER - 1 /\ d \in 0..CURVE_ORDER - 1
      <3>1. PICK m \in Nat : m = RadixPower[C_LEN]
        BY PowerType, RadixFacts
      <3>2. m < CURVE_ORDER
        BY <3>1, SuiteAssumption
      <3>3. c \in 0..m - 1 /\ d \in 0..m - 1
        BY <2>3, <3>1, Zenon
      <3> QED BY <3>2, <3>3, RadixFacts
    <2> QED BY <2>1, <2>2, <2>4, <2>5, TwoAnswersDetermine, Zenon
  <1> QED BY <1>1, EcvrfInvariant, PTL

-----------------------------------------------------------------------------
(* VrfStream.  Its loops.                                                 *)

\* Induction over a set of naturals up to n.
LEMMA UpTo ==
    ASSUME NEW n \in Nat, NEW T, 0 \in T,
           \A k \in 0..n - 1 : k \in T => k + 1 \in T
    PROVE  0..n \subseteq T
  <1> DEFINE R == (0..n) \ T
  <1> SUFFICES ASSUME R # {} PROVE FALSE
    OBVIOUS
  <1>1. PICK m \in R : \A y \in R : m <= y
    BY LeastNatural, R \subseteq Nat
  <1>2. m # 0 /\ m \in 0..n
    OBVIOUS
  <1>3. PICK k \in 0..n - 1 : m = k + 1
    <2>1. m - 1 \in 0..n - 1 /\ m = (m - 1) + 1
      BY <1>2
    <2> QED BY <2>1
  <1>4. k \in T
    <2>1. k \in 0..n /\ ~(m <= k)
      BY <1>3
    <2> QED BY <1>1, <2>1
  <1> QED BY <1>3, <1>4

\* What a loop does up to any number of iterations, when an iteration is a
\* function of the number of those before it and of the value they left.
IsRun(g, n, base, step) ==
    /\ g[0] = base
    /\ \A k \in 0..n - 1 : g[k + 1] = step[<<k, g[k]>>]

LEMMA RunExists ==
    ASSUME NEW V, NEW base \in V, NEW step \in [Nat \X V -> V], NEW n \in Nat
    PROVE  \E g \in [0..n -> V] : IsRun(g, n, base, step)
  <1> DEFINE T == {m \in Nat : \E g \in [0..m -> V] : IsRun(g, m, base, step)}
  <1>1. 0 \in T
    <2> DEFINE g == [k \in 0..0 |-> base]
    <2>1. g \in [0..0 -> V] /\ g[0] = base
      OBVIOUS
    <2>2. 0..0 - 1 = {}
      OBVIOUS
    <2> HIDE DEF g
    <2>3. IsRun(g, 0, base, step)
      BY <2>1, <2>2 DEF IsRun
    <2> QED BY <2>1, <2>3
  <1>2. ASSUME NEW k \in 0..n - 1, k \in T PROVE k + 1 \in T
    <2>1. PICK f \in [0..k -> V] : IsRun(f, k, base, step)
      BY <1>2
    <2>2. k \in Nat /\ k + 1 \in Nat
      OBVIOUS
    <2>3. f[k] \in V
      BY <2>2
    <2>4. step[<<k, f[k]>>] \in V
      BY <2>2, <2>3
    <2> DEFINE g == [i \in 0..k + 1 |-> IF i <= k THEN f[i] ELSE step[<<k, f[k]>>]]
    <2>5. g \in [0..k + 1 -> V]
      <3>1. ASSUME NEW i \in 0..k + 1
            PROVE  (IF i <= k THEN f[i] ELSE step[<<k, f[k]>>]) \in V
        <4>1. i <= k => i \in 0..k
          BY <2>2
        <4> QED BY <4>1, <2>4
      <3> QED BY <3>1
    <2>6. \A i \in 0..k : g[i] = f[i]
      BY <2>2
    <2>7. g[k + 1] = step[<<k, f[k]>>]
      BY <2>2
    <2> HIDE DEF g
    <2>8. g[0] = base
      <3>1. 0 \in 0..k
        BY <2>2
      <3> QED BY <3>1, <2>1, <2>6 DEF IsRun
    <2>9. ASSUME NEW i \in 0..(k + 1) - 1 PROVE g[i + 1] = step[<<i, g[i]>>]
      <3>1. i \in 0..k
        BY <2>2
      <3>2. CASE i = k
        BY <3>1, <3>2, <2>6, <2>7
      <3>3. CASE i # k
        <4>1. i \in 0..k - 1 /\ i + 1 \in 0..k
          BY <3>1, <3>3
        <4>2. f[i + 1] = step[<<i, f[i]>>]
          BY <4>1, <2>1 DEF IsRun
        <4> QED BY <4>1, <4>2, <3>1, <2>6
      <3> QED BY <3>2, <3>3
    <2>10. IsRun(g, k + 1, base, step)
      BY <2>8, <2>9 DEF IsRun
    <2> QED BY <2>2, <2>5, <2>10
  <1> HIDE DEF T
  <1>3. 0..n \subseteq T
    BY <1>1, <1>2, UpTo
  <1>4. n \in T
    BY <1>3
  <1> QED BY <1>4 DEF T

StepsAgree(f, g, n) ==
    /\ f[0] = g[0]
    /\ \A k \in 0..n - 1 : f[k] = g[k] => f[k + 1] = g[k + 1]

Same(f, g, n) == \A k \in 0..n : f[k] = g[k]

\* Two functions that agree after as many iterations agree after the next.
LEMMA RunsAgree ==
    ASSUME NEW n \in Nat, NEW f, NEW g, StepsAgree(f, g, n)
    PROVE  Same(f, g, n)
  <1> DEFINE T == {k \in 0..n : f[k] = g[k]}
  <1>1. 0 \in T
    BY DEF StepsAgree
  <1>2. \A k \in 0..n - 1 : k \in T => k + 1 \in T
    BY DEF StepsAgree
  <1> HIDE DEF T
  <1>3. 0..n \subseteq T
    BY <1>1, <1>2, UpTo
  <1> QED BY <1>3 DEF T, Same

-----------------------------------------------------------------------------
(* Paths.                                                                  *)

Symbol == Byte \cup Nat
Path == Seq(Seq(Byte))

LEMMA SameSequence ==
    ASSUME NEW A, NEW p \in Seq(A), NEW q \in Seq(A), Len(p) = Len(q),
           \A m \in 1..Len(p) : p[m] = q[m]
    PROVE  p = q
  OBVIOUS

AddPart(out, label) == out \o u32be(Len(label)) \o label

Added(r, out, label) ==
    /\ r \in Seq(Symbol) /\ Len(r) = Len(out) + 1 + Len(label)
    /\ \A m \in 1..Len(out) : r[m] = out[m]
    /\ r[Len(out) + 1] = Len(label)
    /\ \A m \in 1..Len(label) : r[Len(out) + 1 + m] = label[m]

LEMMA PartAdded ==
    ASSUME NEW out \in Seq(Symbol), NEW label \in Seq(Byte),
           NEW r, r = AddPart(out, label)
    PROVE  Added(r, out, label)
  <1>1. label \in Seq(Symbol)
    BY DEF Symbol
  <1>2. PICK one : one = <<Len(label)>>
    OBVIOUS
  <1>3. one \in Seq(Symbol) /\ Len(one) = 1 /\ one[1] = Len(label)
    BY <1>2 DEF Symbol
  <1>4. PICK u : u = out \o one
    OBVIOUS
  <1>5. r = u \o label
    BY <1>2, <1>4, Zenon DEF AddPart, u32be
  <1>6. u \in Seq(Symbol) /\ Joined(u, out, one)
    BY <1>3, <1>4, Concatenation, Zenon
  <1>7. r \in Seq(Symbol) /\ Joined(r, u, label)
    BY <1>1, <1>5, <1>6, Concatenation, Zenon
  <1>8. /\ Len(u) = Len(out) + 1
        /\ \A m \in 1..Len(out) : u[m] = out[m]
        /\ u[Len(out) + 1] = Len(label)
    BY <1>3, <1>6 DEF Joined
  <1>9. /\ Len(r) = Len(out) + 1 + Len(label)
        /\ \A m \in 1..Len(out) + 1 : r[m] = u[m]
        /\ \A m \in 1..Len(label) : r[m + (Len(out) + 1)] = label[m]
    BY <1>7, <1>8 DEF Joined
  <1>10. PICK n \in Nat, l \in Nat : n = Len(out) /\ l = Len(label)
    OBVIOUS
  <1> HIDE DEF Symbol
  <1>11. Len(r) = n + 1 + l /\ r[n + 1] = l
    BY <1>8, <1>9, <1>10
  <1>12. \A m \in 1..n : r[m] = out[m]
    BY <1>8, <1>9, <1>10
  <1>13. \A m \in 1..l : r[n + 1 + m] = label[m]
    <2>1. \A m \in 1..l : m + (n + 1) = n + 1 + m
      BY <1>10
    <2> QED BY <1>9, <1>10, <2>1
  <1> QED BY <1>7, <1>10, <1>11, <1>12, <1>13, Zenon DEF Added

\* The parts of a path after any number of its labels.
IsParts(path, g) ==
    /\ g \in [0..Len(path) -> Seq(Symbol)]
    /\ g[0] = <<Len(path)>>
    /\ \A k \in 0..Len(path) - 1 : g[k + 1] = AddPart(g[k], path[k + 1])

PartsBody(path, g, k) ==
    IF k = 0 THEN u32be(Len(path))
    ELSE g[k - 1] \o u32be(Len(path[k])) \o path[k]

LEMMA PathParts ==
    ASSUME NEW path \in Path
    PROVE  \E g : IsParts(path, g) /\ encodePath(path) = g[Len(path)]
  <1> DEFINE n == Len(path)
             step == [kv \in Nat \X Seq(Symbol) |->
                        IF kv[1] + 1 \in 1..n THEN AddPart(kv[2], path[kv[1] + 1])
                        ELSE kv[2]]
             Is(g) == g = [k \in 0..n |-> PartsBody(path, g, k)]
             c == CHOOSE g : Is(g)
  <1>1. n \in Nat /\ \A k \in 1..n : path[k] \in Seq(Byte)
    BY DEF Path
  <1>2. step \in [Nat \X Seq(Symbol) -> Seq(Symbol)]
    <2>1. ASSUME NEW kv \in Nat \X Seq(Symbol)
          PROVE  (IF kv[1] + 1 \in 1..n THEN AddPart(kv[2], path[kv[1] + 1])
                  ELSE kv[2]) \in Seq(Symbol)
      <3>1. kv[2] \in Seq(Symbol)
        OBVIOUS
      <3>2. ASSUME kv[1] + 1 \in 1..n
            PROVE  AddPart(kv[2], path[kv[1] + 1]) \in Seq(Symbol)
        BY <1>1, <3>1, <3>2, PartAdded, Zenon DEF Added
      <3> QED BY <3>1, <3>2
    <2> QED BY <2>1
  <1>3. <<n>> \in Seq(Symbol)
    BY <1>1 DEF Symbol
  <1> HIDE DEF n
  <1>4. PICK g \in [0..n -> Seq(Symbol)] : IsRun(g, n, <<n>>, step)
    <2> HIDE DEF step
    <2> QED BY <1>1, <1>2, <1>3, RunExists, Zenon
  <1>5. ASSUME NEW k \in 0..n - 1 PROVE g[k + 1] = AddPart(g[k], path[k + 1])
    <2>1. k \in Nat /\ k + 1 \in 1..n /\ k \in 0..n
      BY <1>1
    <2>2. g[k] \in Seq(Symbol)
      BY <2>1
    <2>3. step[<<k, g[k]>>] = AddPart(g[k], path[k + 1])
      BY <2>1, <2>2
    <2> HIDE DEF step
    <2> QED BY <1>4, <2>3 DEF IsRun
  <1> HIDE DEF step
  <1>6. g[0] = <<n>>
    BY <1>4 DEF IsRun
  <1>7. Is(g)
    <2>1. ASSUME NEW k \in 0..n PROVE g[k] = PartsBody(path, g, k)
      <3>1. CASE k = 0
        BY <1>6, <3>1 DEF PartsBody, u32be, n
      <3>2. CASE k # 0
        <4>1. PICK j \in 0..n - 1 : k = j + 1
          <5>1. k - 1 \in 0..n - 1 /\ k = (k - 1) + 1
            BY <1>1, <3>2
          <5> QED BY <5>1
        <4>2. k - 1 = j
          BY <4>1
        <4> QED BY <1>5, <3>2, <4>1, <4>2 DEF PartsBody, AddPart
      <3> QED BY <3>1, <3>2
    <2>2. g = [k \in 0..n |-> g[k]]
      OBVIOUS
    <2> QED BY <2>1, <2>2, Zenon
  <1>8. Is(c)
    BY <1>7, Zenon
  <1>9. encodePath(path) = c[n]
    BY Zenon DEF encodePath, PartsBody, n
  <1>10. \A k \in 0..n : c[k] = PartsBody(path, c, k)
    <2> HIDE DEF c
    <2> QED BY <1>8, Zenon
  <1> HIDE DEF c, Is
  <1>11. c[0] = g[0]
    <2>1. c[0] = PartsBody(path, c, 0)
      BY <1>1, <1>10
    <2>2. PartsBody(path, c, 0) = <<n>>
      BY DEF PartsBody, u32be, n
    <2> QED BY <2>1, <2>2, <1>6, Zenon
  <1>12. \A k \in 0..n - 1 : c[k] = g[k] => c[k + 1] = g[k + 1]
    <2> SUFFICES ASSUME NEW k \in 0..n - 1, c[k] = g[k] PROVE c[k + 1] = g[k + 1]
      OBVIOUS
    <2>1. k + 1 \in 0..n /\ k + 1 # 0 /\ (k + 1) - 1 = k
      BY <1>1
    <2>2. c[k + 1] = PartsBody(path, c, k + 1)
      BY <1>10, <2>1, Zenon
    <2>3. PartsBody(path, c, k + 1) = AddPart(c[k], path[k + 1])
      BY <2>1, Zenon DEF PartsBody, AddPart
    <2>4. g[k + 1] = AddPart(g[k], path[k + 1])
      BY <1>5, Zenon
    <2> QED BY <2>2, <2>3, <2>4, Zenon
  <1>13. \A k \in 0..n : c[k] = g[k]
    <2>1. StepsAgree(c, g, n)
      BY <1>11, <1>12, Zenon DEF StepsAgree
    <2>2. n \in Nat
      BY <1>1
    <2>3. Same(c, g, n)
      BY <2>1, <2>2, RunsAgree, Zenon
    <2> QED BY <2>3, Zenon DEF Same
  <1>14. encodePath(path) = g[n]
    BY <1>1, <1>9, <1>13
  <1>15. IsParts(path, g)
    BY <1>5, <1>6 DEF IsParts, n
  <1> QED BY <1>14, <1>15 DEF n

Begins(a, e) == Len(a) <= Len(e) /\ \A m \in 1..Len(a) : e[m] = a[m]

\* What has been written stays at the beginning.
LEMMA PartsBegin ==
    ASSUME NEW path \in Path, NEW g, IsParts(path, g)
    PROVE  \A k \in 0..Len(path) : Begins(g[k], g[Len(path)])
  <1> DEFINE n == Len(path)
             T == {i \in 0..n : Begins(g[n - i], g[n])}
  <1>1. n \in Nat /\ \A k \in 1..n : path[k] \in Seq(Byte)
    BY DEF Path
  <1>2. 0 \in T
    <2>1. n - 0 = n /\ 0 \in 0..n
      BY <1>1
    <2>2. g[n] \in Seq(Symbol)
      BY <1>1 DEF IsParts
    <2> HIDE DEF n
    <2>3. Begins(g[n], g[n])
      BY <2>2 DEF Begins
    <2> QED BY <2>1, <2>3
  <1>3. ASSUME NEW i \in 0..n - 1, i \in T PROVE i + 1 \in T
    <2> HIDE DEF n
    <2>1. PICK k \in 0..n - 1 : k = n - (i + 1)
      BY <1>1
    <2>2. k + 1 = n - i /\ k \in 0..n /\ k + 1 \in 1..n /\ i + 1 \in 0..n
      BY <1>1, <2>1
    <2>3. Begins(g[k + 1], g[n])
      BY <1>3, <2>2
    <2>4. g[k] \in Seq(Symbol) /\ g[k + 1] = AddPart(g[k], path[k + 1])
      BY <2>1, <2>2 DEF IsParts, n
    <2>5. Added(g[k + 1], g[k], path[k + 1])
      BY <1>1, <2>2, <2>4, PartAdded, Zenon
    <2>6. PICK a, b, e, w : a = g[k] /\ b = g[k + 1] /\ e = g[n] /\ w = path[k + 1]
      OBVIOUS
    <2>7. Len(a) \in Nat /\ Len(w) \in Nat
      BY <1>1, <2>2, <2>4, <2>6
    <2>8. Added(b, a, w) /\ Begins(b, e)
      BY <2>3, <2>5, <2>6
    <2>9. Begins(a, e)
      <3>1. Len(b) = Len(a) + 1 + Len(w) /\ \A m \in 1..Len(a) : b[m] = a[m]
        BY <2>8, Zenon DEF Added
      <3>2. b \in Seq(Symbol) /\ Len(b) \in Nat
        BY <2>8 DEF Added
      <3>3. e \in Seq(Symbol) /\ Len(e) \in Nat
        BY <1>1, <2>6 DEF IsParts, n
      <3>4. Len(b) <= Len(e) /\ \A m \in 1..Len(b) : e[m] = b[m]
        BY <2>8, Zenon DEF Begins
      <3>5. Len(a) <= Len(e)
        BY <2>7, <3>1, <3>2, <3>3, <3>4
      <3>6. \A m \in 1..Len(a) : m \in 1..Len(b)
        BY <2>7, <3>1, <3>2
      <3> QED BY <3>1, <3>4, <3>5, <3>6 DEF Begins
    <2> QED BY <2>1, <2>2, <2>6, <2>9
  <1> HIDE DEF T
  <1>4. 0..n \subseteq T
    BY <1>1, <1>2, <1>3, UpTo
  <1>5. ASSUME NEW k \in 0..n PROVE Begins(g[k], g[n])
    <2>1. n - k \in 0..n /\ n - (n - k) = k
      BY <1>1
    <2> HIDE DEF n
    <2> QED BY <1>4, <2>1 DEF T
  <1> QED BY <1>5

HasLabel(e, l, label) ==
    /\ label \in Seq(Byte) /\ l \in Nat
    /\ e[l + 1] = Len(label)
    /\ \A m \in 1..Len(label) : e[l + 1 + m] = label[m]

\* Reading a label back.
LEMMA ReadLabel ==
    ASSUME NEW path \in Path, NEW g, IsParts(path, g), NEW k \in 0..Len(path) - 1,
           NEW e, e = g[Len(path)], NEW l, l = Len(g[k])
    PROVE  HasLabel(e, l, path[k + 1])
  <1>1. k \in Nat /\ k \in 0..Len(path) /\ k + 1 \in 1..Len(path)
          /\ k + 1 \in 0..Len(path)
    BY DEF Path
  <1>2. PICK w, a, b : w = path[k + 1] /\ a = g[k] /\ b = g[k + 1]
    OBVIOUS
  <1>3. w \in Seq(Byte) /\ a \in Seq(Symbol)
    BY <1>1, <1>2 DEF Path, IsParts
  <1>4. b = AddPart(a, w)
    BY <1>2 DEF IsParts
  <1>5. Added(b, a, w)
    BY <1>3, <1>4, PartAdded, Zenon
  <1>6. Begins(b, e)
    BY <1>1, <1>2, PartsBegin, Zenon
  <1>7. Len(w) \in Nat /\ l \in Nat /\ l = Len(a)
    BY <1>2, <1>3
  <1>8. /\ Len(b) = l + 1 + Len(w)
        /\ b[l + 1] = Len(w)
        /\ \A m \in 1..Len(w) : b[l + 1 + m] = w[m]
    BY <1>5, <1>7, Zenon DEF Added
  <1>9. \A m \in 1..Len(b) : e[m] = b[m]
    BY <1>6, Zenon DEF Begins
  <1>10. /\ l + 1 \in 1..Len(b)
         /\ \A m \in 1..Len(w) : l + 1 + m \in 1..Len(b)
    BY <1>7, <1>8
  <1> QED BY <1>2, <1>3, <1>7, <1>8, <1>9, <1>10 DEF HasLabel

\* A path can be read back from its encoding.
LEMMA EncodePathInjective ==
    ASSUME NEW p \in Path, NEW q \in Path, encodePath(p) = encodePath(q)
    PROVE  p = q
  <1>1. PICK g : IsParts(p, g) /\ encodePath(p) = g[Len(p)]
    BY PathParts
  <1>2. PICK h : IsParts(q, h) /\ encodePath(q) = h[Len(q)]
    BY PathParts
  <1>3. PICK e : e = encodePath(p)
    OBVIOUS
  <1>4. PICK n \in Nat : n = Len(p)
    BY DEF Path
  <1>5. Len(q) = n
    <2>1. 0 \in 0..Len(p) /\ 0 \in 0..Len(q) /\ Len(q) \in Nat
      BY DEF Path
    <2>2. Begins(g[0], e) /\ Begins(h[0], e)
      BY <1>1, <1>2, <1>3, <2>1, PartsBegin
    <2>3. g[0] = <<n>> /\ h[0] = <<Len(q)>>
      BY <1>1, <1>2, <1>4 DEF IsParts
    <2>4. e[1] = n
      <3>1. Begins(<<n>>, e)
        BY <2>2, <2>3
      <3> QED BY <3>1 DEF Begins
    <2>5. e[1] = Len(q)
      <3>1. Begins(<<Len(q)>>, e)
        BY <2>2, <2>3
      <3> QED BY <3>1 DEF Begins
    <2> QED BY <2>4, <2>5
  <1> DEFINE T == {k \in 0..n : g[k] = h[k] /\ \A m \in 1..k : p[m] = q[m]}
  <1>6. 0 \in T
    <2>1. g[0] = h[0]
      BY <1>1, <1>2, <1>4, <1>5 DEF IsParts
    <2> QED BY <2>1
  <1>7. ASSUME NEW k \in 0..n - 1, k \in T PROVE k + 1 \in T
    <2>1. k \in 0..Len(p) - 1 /\ k \in 0..Len(q) - 1
      BY <1>4, <1>5
    <2>2. PICK l : l = Len(g[k]) /\ l = Len(h[k])
      BY <1>7
    <2>3. PICK v, w : v = p[k + 1] /\ w = q[k + 1]
      OBVIOUS
    <2>4. HasLabel(e, l, v) /\ HasLabel(e, l, w)
      <3>1. e = g[Len(p)] /\ e = h[Len(q)]
        BY <1>1, <1>2, <1>3
      <3>2. HasLabel(e, l, p[k + 1])
        BY <1>1, <2>1, <2>2, <3>1, ReadLabel, Zenon
      <3>3. HasLabel(e, l, q[k + 1])
        BY <1>2, <2>1, <2>2, <3>1, ReadLabel, Zenon
      <3> QED BY <2>3, <3>2, <3>3
    <2>5. v \in Seq(Byte) /\ w \in Seq(Byte)
      BY <2>4, Zenon DEF HasLabel
    <2>6. Len(v) = Len(w) /\ \A m \in 1..Len(v) : v[m] = w[m]
      BY <2>4, Zenon DEF HasLabel
    <2>7. v = w
      BY <2>5, <2>6, SameSequence, Zenon
    <2>8. g[k + 1] = h[k + 1]
      <3>1. g[k + 1] = AddPart(g[k], v) /\ h[k + 1] = AddPart(h[k], w)
        BY <1>1, <1>2, <2>1, <2>3 DEF IsParts
      <3> QED BY <1>7, <2>7, <3>1
    <2>9. \A m \in 1..k + 1 : p[m] = q[m]
      <3>1. \A m \in 1..k + 1 : m \in 1..k \/ m = k + 1
        OBVIOUS
      <3> QED BY <1>7, <2>3, <2>7, <3>1
    <2> QED BY <2>8, <2>9
  <1>8. 0..n \subseteq T
    <2> HIDE DEF T
    <2> QED BY <1>6, <1>7, UpTo
  <1>9. \A m \in 1..n : p[m] = q[m]
    BY <1>8
  <1>10. p \in Seq(Seq(Byte)) /\ q \in Seq(Seq(Byte))
    BY DEF Path
  <1> QED BY <1>4, <1>5, <1>9, <1>10, SameSequence, Zenon

LEMMA EncodePathType ==
    ASSUME NEW path \in Path
    PROVE  encodePath(path) \in Seq(Symbol)
  <1>1. PICK g : IsParts(path, g) /\ encodePath(path) = g[Len(path)]
    BY PathParts
  <1>2. Len(path) \in 0..Len(path)
    BY DEF Path
  <1> QED BY <1>1, <1>2 DEF IsParts

\* Blocks of two paths, or of two indices, are the hashes of two inputs.
LEMMA BlockInputInjective ==
    ASSUME NEW p \in Path, NEW q \in Path, NEW i \in Nat, NEW j \in Nat,
           BlockInput(p, i) = BlockInput(q, j)
    PROVE  p = q /\ i = j
  <1>1. PICK a, b : a = encodePath(p) /\ b = encodePath(q)
    OBVIOUS
  <1>2. a \in Seq(Symbol) /\ b \in Seq(Symbol)
    BY <1>1, EncodePathType
  <1>3. PICK u : u = a \o <<i>>
    OBVIOUS
  <1>4. u = b \o <<j>>
    BY <1>1, <1>3 DEF BlockInput, u64be
  <1>5. <<i>> \in Seq(Symbol) /\ <<j>> \in Seq(Symbol)
    BY DEF Symbol
  <1>6. Joined(u, a, <<i>>) /\ Joined(u, b, <<j>>)
    BY <1>2, <1>3, <1>4, <1>5, Concatenation, Zenon
  <1>7. /\ Len(u) = Len(a) + 1 /\ \A m \in 1..Len(a) : u[m] = a[m]
        /\ u[1 + Len(a)] = i
    <2>1. Len(<<i>>) = 1 /\ <<i>>[1] = i /\ 1 \in 1..1
      OBVIOUS
    <2> QED BY <1>6, <2>1, Zenon DEF Joined
  <1>8. /\ Len(u) = Len(b) + 1 /\ \A m \in 1..Len(b) : u[m] = b[m]
        /\ u[1 + Len(b)] = j
    <2>1. Len(<<j>>) = 1 /\ <<j>>[1] = j /\ 1 \in 1..1
      OBVIOUS
    <2> QED BY <1>6, <2>1, Zenon DEF Joined
  <1>9. Len(a) \in Nat /\ Len(b) \in Nat
    BY <1>2
  <1>10. Len(a) = Len(b)
    BY <1>7, <1>8, <1>9
  <1>11. \A m \in 1..Len(a) : a[m] = b[m]
    BY <1>7, <1>8, <1>10, Zenon
  <1>12. a = b
    BY <1>2, <1>10, <1>11, SameSequence, Zenon
  <1> QED BY <1>1, <1>7, <1>8, <1>10, <1>12, EncodePathInjective

-----------------------------------------------------------------------------
(* Bytes.                                                                  *)

StreamState == [path : Path, blockIndex : Nat, buf : Seq(Byte), bufOffset : Nat]

Block == [1..BlockBytes -> Byte]

Oracle(hash) == hash \in [DOMAIN hash -> Block]

\* The bytes of the stream before its offset in the buffer.
Position(s) == s.blockIndex * BlockBytes - (Len(s.buf) - s.bufOffset)

\* The buffer is the last block of the stream.
Buffered(s, hash) ==
    /\ s \in StreamState
    /\ s.bufOffset <= Len(s.buf)
    /\ s.blockIndex = 0 => s.buf = <<>>
    /\ s.blockIndex > 0 => /\ Len(s.buf) = BlockBytes
                           /\ s.buf = hash[BlockInput(s.path, s.blockIndex - 1)]
    /\ \A k \in 0..s.blockIndex - 1 : BlockInput(s.path, k) \in DOMAIN hash

HashByte(hash, path, position) ==
    hash[BlockInput(path, position \div BlockBytes)][(position % BlockBytes) + 1]

InOrder(bytes, from, path, hash) ==
    \A k \in 1..Len(bytes) : bytes[k] = HashByte(hash, path, from + k - 1)

\* The hash function answers for every block that n more bytes reach.
Supplied(s, n, hash) ==
    \A b \in Nat : b >= s.blockIndex /\ b * BlockBytes < Position(s) + n =>
        BlockInput(s.path, b) \in DOMAIN hash

LEMMA BlockSize == BlockBytes \in Nat \ {0}
  BY StreamAssumption

LEMMA BlockIsBytes == Block \subseteq Seq(Byte) /\ \A b \in Block : Len(b) = BlockBytes
  BY BlockSize DEF Block

LEMMA PositionType ==
    ASSUME NEW hash, NEW s, Buffered(s, hash)
    PROVE  /\ Position(s) \in Nat
           /\ Position(s) <= s.blockIndex * BlockBytes
           /\ s.blockIndex * BlockBytes \in Nat
  <1>1. PICK b \in Nat \ {0} : b = BlockBytes
    BY BlockSize
  <1>2. PICK i \in Nat, l \in Nat, o \in Nat :
            i = s.blockIndex /\ l = Len(s.buf) /\ o = s.bufOffset
    BY DEF Buffered, StreamState
  <1>3. o <= l /\ (i = 0 => l = 0) /\ (i > 0 => l = b)
    BY <1>1, <1>2 DEF Buffered
  <1>4. i * b \in Nat /\ (i > 0 => i * b >= b) /\ (i = 0 => i * b = 0)
    OBVIOUS
  <1>5. i * b - (l - o) \in Nat /\ i * b - (l - o) <= i * b
    BY <1>3, <1>4
  <1> QED BY <1>1, <1>2, <1>4, <1>5, Zenon DEF Position

Refilled(r, s, hash) ==
    /\ Buffered(r, hash) /\ r.path = s.path
    /\ r.blockIndex = s.blockIndex + 1 /\ r.bufOffset = 0
    /\ Len(r.buf) = BlockBytes
    /\ Position(r) = Position(s)

LEMMA RefillStep ==
    ASSUME NEW hash, Oracle(hash), NEW s, Buffered(s, hash),
           s.bufOffset >= Len(s.buf),
           BlockInput(s.path, s.blockIndex) \in DOMAIN hash,
           NEW r, r = refill(s, hash)
    PROVE  Refilled(r, s, hash)
  <1>1. s \in StreamState /\ s.blockIndex \in Nat /\ s.bufOffset \in Nat
          /\ s.path \in Path /\ s.buf \in Seq(Byte)
    BY DEF Buffered, StreamState
  <1>2. PICK b : b = hash[BlockInput(s.path, s.blockIndex)]
    OBVIOUS
  <1>3. b \in Block
    BY <1>2 DEF Oracle
  <1>4. b \in Seq(Byte) /\ Len(b) = BlockBytes
    BY <1>3, BlockIsBytes
  <1>5. r = [path |-> s.path, blockIndex |-> s.blockIndex + 1, buf |-> b,
             bufOffset |-> 0]
    BY <1>1, <1>2 DEF refill, StreamState
  <1>6. /\ r.path = s.path /\ r.blockIndex = s.blockIndex + 1 /\ r.buf = b
        /\ r.bufOffset = 0
    BY <1>5
  <1>7. r \in StreamState
    BY <1>1, <1>4, <1>5 DEF StreamState
  <1>8. \A k \in 0..r.blockIndex - 1 : BlockInput(r.path, k) \in DOMAIN hash
    <2>1. \A k \in 0..r.blockIndex - 1 : k \in 0..s.blockIndex - 1 \/ k = s.blockIndex
      BY <1>1, <1>6
    <2> QED BY <1>6, <2>1 DEF Buffered
  <1>9. r.blockIndex > 0 /\ r.blockIndex - 1 = s.blockIndex /\ r.blockIndex # 0
    BY <1>1, <1>6
  <1>10. Buffered(r, hash)
    <2>1. r.bufOffset <= Len(r.buf)
      BY <1>4, <1>6, BlockSize
    <2>2. r.buf = hash[BlockInput(r.path, r.blockIndex - 1)]
      BY <1>2, <1>6, <1>9
    <2> QED BY <1>4, <1>6, <1>7, <1>8, <1>9, <2>1, <2>2, Zenon DEF Buffered
  <1>11. Position(r) = Position(s)
    <2>1. PICK c \in Nat \ {0} : c = BlockBytes
      BY BlockSize
    <2>2. PICK i \in Nat, l \in Nat, o \in Nat :
              i = s.blockIndex /\ l = Len(s.buf) /\ o = s.bufOffset
      BY <1>1
    <2>3. o = l
      BY <2>2 DEF Buffered
    <2>4. (i + 1) * c - (c - 0) = i * c - (l - o)
      BY <2>3
    <2> QED BY <1>4, <1>6, <2>1, <2>2, <2>4, Zenon DEF Position
  <1> QED BY <1>4, <1>6, <1>10, <1>11, Zenon DEF Refilled

Copied(a, s, n, out, hash) ==
    /\ Buffered(a.s, hash) /\ a.s.path = s.path /\ a.s.blockIndex = s.blockIndex
    /\ a \in [s : StreamState, out : Seq(Byte)]
    /\ \E take \in Nat \ {0} :
          /\ Len(a.out) = Len(out) + take
          /\ Len(a.out) <= n
          /\ Position(a.s) = Position(s) + take
          /\ \A m \in 1..Len(out) : a.out[m] = out[m]
          /\ \A d \in 1..take :
                a.out[Len(out) + d] = HashByte(hash, s.path, Position(s) + d - 1)

\* Bytes of the buffer are bytes of the last block.
LEMMA BufferByte ==
    ASSUME NEW hash, NEW s, Buffered(s, hash), s.blockIndex > 0,
           NEW d \in Nat \ {0}, s.bufOffset + d <= Len(s.buf)
    PROVE  s.buf[s.bufOffset + d] = HashByte(hash, s.path, Position(s) + d - 1)
  <1>1. PICK c \in Nat \ {0} : c = BlockBytes
    BY BlockSize
  <1>2. PICK i \in Nat \ {0}, l \in Nat, o \in Nat :
            i = s.blockIndex /\ l = Len(s.buf) /\ o = s.bufOffset
    BY DEF Buffered, StreamState
  <1>3. l = c
    BY <1>1, <1>2 DEF Buffered
  <1>4. PICK m \in Nat : m = i - 1
    OBVIOUS
  <1>5. PICK q \in 0..c - 1 : q = o + d - 1
    BY <1>2, <1>3
  <1>6. PICK p \in Nat : p = Position(s) + d - 1
    BY PositionType
  <1>7. p = c * m + q
    <2>1. p = i * c - (l - o) + d - 1
      BY <1>1, <1>2, <1>6, Zenon DEF Position
    <2>2. i * c = c * m + c
      BY <1>4
    <2>3. c * m \in Nat /\ i * c \in Nat
      OBVIOUS
    <2> QED BY <1>3, <1>5, <2>1, <2>2, <2>3
  <1>8. p \div c = m /\ p % c = q
    BY <1>7, DivUnique
  <1>9. HashByte(hash, s.path, p) = hash[BlockInput(s.path, m)][q + 1]
    BY <1>1, <1>8, Zenon DEF HashByte
  <1>10. s.buf = hash[BlockInput(s.path, m)]
    BY <1>2, <1>4 DEF Buffered
  <1>11. s.bufOffset + d = q + 1
    BY <1>2, <1>5
  <1> QED BY <1>6, <1>9, <1>10, <1>11, Zenon

LEMMA CopyStep ==
    ASSUME NEW hash, NEW s, Buffered(s, hash), s.bufOffset < Len(s.buf),
           NEW n \in Nat, NEW out \in Seq(Byte), Len(out) < n,
           NEW a, a = Copy(s, n, out)
    PROVE  Copied(a, s, n, out, hash)
  <1>1. s \in StreamState /\ s.blockIndex \in Nat /\ s.bufOffset \in Nat
          /\ s.path \in Path /\ s.buf \in Seq(Byte)
    BY DEF Buffered, StreamState
  <1>2. PICK l \in Nat, o \in Nat, w \in Nat :
            l = Len(s.buf) /\ o = s.bufOffset /\ w = Len(out)
    BY <1>1
  <1>3. PICK take \in Nat \ {0} :
            /\ take = (IF n - Len(out) < Len(s.buf) - s.bufOffset
                       THEN n - Len(out) ELSE Len(s.buf) - s.bufOffset)
            /\ o + take <= l /\ w + take <= n
    <2>1. o < l /\ w < n
      BY <1>2
    <2>2. PICK k : k = IF n - w < l - o THEN n - w ELSE l - o
      OBVIOUS
    <2>3. k \in Nat \ {0} /\ o + k <= l /\ w + k <= n
      BY <2>1, <2>2
    <2> QED BY <1>2, <2>2, <2>3, Zenon
  <1>4. PICK cut : cut = SubSeq(s.buf, o + 1, o + take)
    OBVIOUS
  <1>5. /\ cut \in Seq(Byte) /\ Len(cut) = take
        /\ \A d \in 1..take : cut[d] = s.buf[o + d]
    <2>1. PICK b \in Seq(Byte) : b = s.buf /\ Len(b) = l
      BY <1>1, <1>2
    <2>2. \A d \in 1..take : o + d \in 1..l
      BY <1>3
    <2>3. cut = [d \in 1..take |-> b[o + d]]
      <3>1. (o + take) - (o + 1) + 1 = take
        BY <1>2, <1>3
      <3>2. \A d \in 1..take : d + (o + 1) - 1 = o + d
        BY <1>2
      <3> QED BY <1>4, <2>1, <3>1, <3>2
    <2>4. \A d \in 1..take : b[o + d] \in Byte
      BY <2>1, <2>2
    <2> QED BY <2>1, <2>3, <2>4
  <1>6. a = [s |-> [s EXCEPT !.bufOffset = @ + take], out |-> out \o cut]
    BY <1>2, <1>3, <1>4, Zenon DEF Copy
  <1>7. PICK t : t = [s EXCEPT !.bufOffset = @ + take]
    OBVIOUS
  <1>8. a.s = t /\ a.out = out \o cut
    BY <1>6, <1>7
  <1>9. /\ t.path = s.path /\ t.blockIndex = s.blockIndex /\ t.buf = s.buf
        /\ t.bufOffset = o + take /\ t \in StreamState
    BY <1>1, <1>2, <1>7 DEF StreamState
  <1>10. a.out \in Seq(Byte) /\ Joined(a.out, out, cut)
    BY <1>5, <1>8, Concatenation, Zenon
  <1>11. Buffered(t, hash)
    <2>1. t.bufOffset <= Len(t.buf)
      BY <1>2, <1>3, <1>9
    <2> QED BY <1>9, <2>1, Zenon DEF Buffered
  <1>12. Position(t) = Position(s) + take
    <2>1. PICK p : p = s.blockIndex * BlockBytes
      OBVIOUS
    <2>2. p \in Nat
      BY <2>1, PositionType
    <2>3. Position(s) = p - (l - o) /\ Position(t) = p - (l - (o + take))
      BY <1>2, <1>9, <2>1, Zenon DEF Position
    <2> QED BY <2>2, <2>3
  <1>13. s.blockIndex > 0
    <2>1. s.blockIndex # 0
      <3>1. s.blockIndex = 0 => Len(s.buf) = 0
        BY DEF Buffered
      <3>2. ~(s.bufOffset < 0)
        BY <1>1
      <3> QED BY <3>1, <3>2
    <2> QED BY <1>1, <2>1
  <1>14. ASSUME NEW d \in 1..take
         PROVE  a.out[Len(out) + d] = HashByte(hash, s.path, Position(s) + d - 1)
    <2>1. d \in Nat \ {0} /\ s.bufOffset + d <= Len(s.buf)
      <3>1. d \in Nat \ {0} /\ o + d <= l
        BY <1>3
      <3> QED BY <1>2, <3>1
    <2>2. s.buf[s.bufOffset + d] = HashByte(hash, s.path, Position(s) + d - 1)
      BY <1>13, <2>1, BufferByte, Zenon
    <2>3. a.out[d + Len(out)] = cut[d]
      BY <1>5, <1>10, Zenon DEF Joined
    <2>4. d + Len(out) = Len(out) + d
      BY <1>2, <2>1
    <2> QED BY <1>2, <1>5, <2>2, <2>3, <2>4
  <1>15. /\ Len(a.out) = Len(out) + take
         /\ \A m \in 1..Len(out) : a.out[m] = out[m]
    BY <1>5, <1>10, Zenon DEF Joined
  <1>16. Len(a.out) <= n
    BY <1>2, <1>3, <1>15
  <1>17. a \in [s : StreamState, out : Seq(Byte)]
    BY <1>6, <1>7, <1>8, <1>9, <1>10
  <1> QED BY <1>8, <1>9, <1>11, <1>12, <1>14, <1>15, <1>16, <1>17, Zenon DEF Copied

\* What an iteration of the loop finds and leaves.
Reading(a, s, n, hash) ==
    /\ a \in [s : StreamState, out : Seq(Byte)]
    /\ Buffered(a.s, hash) /\ a.s.path = s.path
    /\ a.s.blockIndex >= s.blockIndex
    /\ Len(a.out) <= n
    /\ Position(a.s) = Position(s) + Len(a.out)
    /\ InOrder(a.out, Position(s), s.path, hash)

LEMMA IterationStep ==
    ASSUME NEW hash, Oracle(hash), NEW n \in Nat, NEW s, Buffered(s, hash),
           Supplied(s, n, hash), NEW a, Reading(a, s, n, hash), Len(a.out) < n,
           NEW b, b = CopyOrRefill(a.s, n, a.out, hash)
    PROVE  Reading(b, s, n, hash) /\ Len(b.out) >= Len(a.out) + 1
  <1>1. a.out \in Seq(Byte) /\ Buffered(a.s, hash)
    BY DEF Reading
  <1>2. a.s.blockIndex \in Nat /\ s.blockIndex \in Nat
    BY <1>1 DEF Buffered, StreamState
  <1>3. PICK p \in Nat, w \in Nat : p = Position(s) /\ w = Len(a.out)
    BY <1>1, PositionType
  <1>4. PICK t : t = IF a.s.bufOffset >= Len(a.s.buf) THEN refill(a.s, hash) ELSE a.s
    OBVIOUS
  <1>5. /\ Buffered(t, hash) /\ t.path = s.path /\ t.bufOffset < Len(t.buf)
        /\ t.blockIndex >= s.blockIndex /\ Position(t) = p + w
    <2>1. Position(a.s) = p + w
      BY <1>3 DEF Reading
    <2>2. CASE a.s.bufOffset >= Len(a.s.buf)
      <3>1. t = refill(a.s, hash)
        BY <1>4, <2>2
      <3>2. PICK i \in Nat, c \in Nat \ {0} : i = a.s.blockIndex /\ c = BlockBytes
        BY <1>2, BlockSize
      <3>3. i * c = p + w
        <4>1. PICK l \in Nat, o \in Nat : l = Len(a.s.buf) /\ o = a.s.bufOffset
          BY <1>1 DEF Buffered, StreamState
        <4>2. o = l
          BY <1>1, <2>2, <4>1 DEF Buffered
        <4>3. p + w = i * c - (l - o)
          BY <2>1, <3>2, <4>1, Zenon DEF Position
        <4>4. i * c \in Nat
          OBVIOUS
        <4> QED BY <4>2, <4>3, <4>4
      <3>4. i * c < p + n
        BY <1>3, <3>3
      <3>5. i >= s.blockIndex
        BY <3>2 DEF Reading
      <3>6. BlockInput(s.path, i) \in DOMAIN hash
        BY <1>3, <3>2, <3>4, <3>5, Zenon DEF Supplied
      <3>7. BlockInput(a.s.path, a.s.blockIndex) \in DOMAIN hash
        BY <3>2, <3>6 DEF Reading
      <3>8. Refilled(t, a.s, hash)
        BY <1>1, <2>2, <3>1, <3>7, RefillStep, Zenon
      <3>9. /\ Buffered(t, hash) /\ t.path = a.s.path /\ t.bufOffset = 0
            /\ t.blockIndex = a.s.blockIndex + 1 /\ Len(t.buf) = BlockBytes
            /\ Position(t) = Position(a.s)
        BY <3>8, Zenon DEF Refilled
      <3>10. t.path = s.path
        BY <3>9 DEF Reading
      <3>11. t.blockIndex >= s.blockIndex
        BY <1>2, <3>2, <3>5, <3>9
      <3>12. t.bufOffset < Len(t.buf)
        BY <3>9, BlockSize
      <3> QED BY <2>1, <3>9, <3>10, <3>11, <3>12
    <2>3. CASE ~(a.s.bufOffset >= Len(a.s.buf))
      <3>1. t = a.s
        BY <1>4, <2>3
      <3>2. t.bufOffset < Len(t.buf)
        <4>1. a.s.bufOffset \in Nat /\ Len(a.s.buf) \in Nat
          BY <1>1 DEF Buffered, StreamState
        <4> QED BY <2>3, <3>1, <4>1
      <3> QED BY <2>1, <3>1, <3>2 DEF Reading
    <2> QED BY <2>2, <2>3
  <1>6. b = Copy(t, n, a.out)
    BY <1>4, Zenon DEF CopyOrRefill
  <1>7. Copied(b, t, n, a.out, hash)
    BY <1>1, <1>5, <1>6, CopyStep, Zenon
  <1>8. /\ b \in [s : StreamState, out : Seq(Byte)]
        /\ Buffered(b.s, hash) /\ b.s.path = t.path /\ b.s.blockIndex = t.blockIndex
    BY <1>7, Zenon DEF Copied
  <1>9. PICK take \in Nat \ {0} :
            /\ Len(b.out) = Len(a.out) + take
            /\ Len(b.out) <= n
            /\ Position(b.s) = Position(t) + take
            /\ \A m \in 1..Len(a.out) : b.out[m] = a.out[m]
            /\ \A d \in 1..take : b.out[Len(a.out) + d]
                                    = HashByte(hash, t.path, Position(t) + d - 1)
    BY <1>7, Zenon DEF Copied
  <1>10. Position(b.s) = p + Len(b.out) /\ Len(b.out) >= Len(a.out) + 1
    BY <1>3, <1>5, <1>9
  <1>11. ASSUME NEW k \in 1..Len(b.out)
         PROVE  b.out[k] = HashByte(hash, s.path, p + k - 1)
    <2>1. CASE k <= w
      <3>1. k \in 1..Len(a.out)
        BY <1>3, <2>1
      <3>2. a.out[k] = HashByte(hash, s.path, p + k - 1)
        BY <1>3, <3>1 DEF Reading, InOrder
      <3> QED BY <1>9, <3>1, <3>2
    <2>2. CASE ~(k <= w)
      <3>1. PICK d \in 1..take : k = w + d
        <4>1. k - w \in 1..take /\ k = w + (k - w)
          BY <1>3, <1>9, <2>2
        <4> QED BY <4>1
      <3>2. b.out[k] = HashByte(hash, t.path, Position(t) + d - 1)
        BY <1>3, <1>9, <3>1
      <3>3. Position(t) + d - 1 = p + k - 1
        BY <1>5, <3>1
      <3> QED BY <1>5, <3>2, <3>3
    <2> QED BY <2>1, <2>2
  <1>12. InOrder(b.out, Position(s), s.path, hash)
    BY <1>3, <1>11, Zenon DEF InOrder
  <1>13. Reading(b, s, n, hash)
    BY <1>3, <1>5, <1>8, <1>9, <1>10, <1>12, Zenon DEF Reading
  <1> QED BY <1>10, <1>13

NextBytesBody(s, n, hash, g, k) ==
    IF k = 0 THEN [s |-> s, out |-> <<>>]
    ELSE IF Len(g[k - 1].out) < n
    THEN CopyOrRefill(g[k - 1].s, n, g[k - 1].out, hash)
    ELSE g[k - 1]

\* nextBytes returns the next n bytes of the path, and n iterations suffice.
LEMMA NextBytesReads ==
    ASSUME NEW hash, Oracle(hash), NEW n \in Nat, NEW s, Buffered(s, hash),
           Supplied(s, n, hash), NEW b, b = nextBytes(s, n, hash)
    PROVE  Reading(b, s, n, hash) /\ Len(b.out) = n
  <1> DEFINE V == {a \in [s : StreamState, out : Seq(Byte)] : Reading(a, s, n, hash)}
             go(a) == IF Len(a.out) < n THEN CopyOrRefill(a.s, n, a.out, hash) ELSE a
             step == [ka \in Nat \X V |-> go(ka[2])]
             base == [s |-> s, out |-> <<>>]
             Is(g) == g = [k \in 0..n |-> NextBytesBody(s, n, hash, g, k)]
             c == CHOOSE g : Is(g)
  <1>1. base \in V
    <2>1. base.s = s /\ base.out = <<>> /\ s \in StreamState /\ Position(s) \in Nat
      BY PositionType DEF Buffered
    <2>2. base \in [s : StreamState, out : Seq(Byte)] /\ Len(base.out) = 0
      BY <2>1
    <2> HIDE DEF base
    <2>3. s.blockIndex >= s.blockIndex
      BY <2>1 DEF StreamState
    <2>4. InOrder(base.out, Position(s), s.path, hash)
      BY <2>2 DEF InOrder
    <2>5. Reading(base, s, n, hash)
      BY <2>1, <2>2, <2>3, <2>4 DEF Reading
    <2> QED BY <2>2, <2>5
  <1>2. ASSUME NEW a \in V
        PROVE  /\ go(a) \in V
               /\ Len(a.out) < n => Len(go(a).out) >= Len(a.out) + 1
    <2>1. Reading(a, s, n, hash)
      OBVIOUS
    <2>2. CASE Len(a.out) < n
      <3>1. PICK d : d = CopyOrRefill(a.s, n, a.out, hash)
        OBVIOUS
      <3>2. go(a) = d
        BY <2>2, <3>1
      <3>3. Reading(d, s, n, hash) /\ Len(d.out) >= Len(a.out) + 1
        BY <2>1, <2>2, <3>1, IterationStep, Zenon
      <3>4. d \in V
        BY <3>3 DEF Reading
      <3> HIDE DEF go, V
      <3> QED BY <3>2, <3>3, <3>4
    <2>3. CASE ~(Len(a.out) < n)
      <3>1. go(a) = a
        BY <2>3
      <3> HIDE DEF go, V
      <3> QED BY <2>3, <3>1
    <2> QED BY <2>2, <2>3
  <1>3. \A a \in V : Len(a.out) \in Nat /\ Len(a.out) <= n
    BY DEF Reading
  <1>4. step \in [Nat \X V -> V]
    <2> HIDE DEF go, V
    <2> QED BY <1>2
  <1> HIDE DEF V, base
  <1>5. PICK g \in [0..n -> V] : IsRun(g, n, base, step)
    <2> HIDE DEF step
    <2> QED BY <1>1, <1>4, RunExists, Zenon
  <1>6. g[0] = base
    BY <1>5 DEF IsRun
  <1>7. ASSUME NEW k \in 0..n - 1 PROVE g[k + 1] = go(g[k])
    <2>1. k \in Nat /\ k \in 0..n
      OBVIOUS
    <2>2. g[k] \in V
      BY <2>1
    <2> HIDE DEF go
    <2>3. step[<<k, g[k]>>] = go(g[k])
      BY <2>1, <2>2
    <2> HIDE DEF step
    <2> QED BY <1>5, <2>3 DEF IsRun
  <1> HIDE DEF step
  <1>8. Is(g)
    <2>1. ASSUME NEW k \in 0..n PROVE g[k] = NextBytesBody(s, n, hash, g, k)
      <3>1. CASE k = 0
        BY <1>6, <3>1 DEF NextBytesBody, base
      <3>2. CASE k # 0
        <4>1. PICK j \in 0..n - 1 : k = j + 1
          <5>1. k - 1 \in 0..n - 1 /\ k = (k - 1) + 1
            BY <3>2
          <5> QED BY <5>1
        <4>2. k - 1 = j
          BY <4>1
        <4> QED BY <1>7, <3>2, <4>1, <4>2 DEF NextBytesBody
      <3> QED BY <3>1, <3>2
    <2>2. g = [k \in 0..n |-> g[k]]
      OBVIOUS
    <2> QED BY <2>1, <2>2, Zenon
  <1>9. Is(c)
    BY <1>8, Zenon
  <1>10. b = c[n]
    BY Zenon DEF nextBytes, NextBytesBody
  <1>11. \A k \in 0..n : c[k] = NextBytesBody(s, n, hash, c, k)
    <2> HIDE DEF c
    <2> QED BY <1>9, Zenon
  <1> HIDE DEF c, Is
  <1>12. c[0] = g[0]
    BY <1>6, <1>11 DEF NextBytesBody, base
  <1>13. \A k \in 0..n - 1 : c[k] = g[k] => c[k + 1] = g[k + 1]
    <2> SUFFICES ASSUME NEW k \in 0..n - 1, c[k] = g[k] PROVE c[k + 1] = g[k + 1]
      OBVIOUS
    <2>1. k + 1 \in 0..n /\ k + 1 # 0 /\ (k + 1) - 1 = k
      OBVIOUS
    <2> QED BY <1>7, <1>11, <2>1 DEF NextBytesBody
  <1>14. \A k \in 0..n : c[k] = g[k]
    <2>1. StepsAgree(c, g, n)
      BY <1>12, <1>13, Zenon DEF StepsAgree
    <2>2. n \in Nat
      OBVIOUS
    <2>3. Same(c, g, n)
      BY <2>1, <2>2, RunsAgree, Zenon
    <2> QED BY <2>3, Zenon DEF Same
  <1>15. b = g[n] /\ g[n] \in V
    BY <1>10, <1>14
  <1> DEFINE T == {k \in 0..n : Len(g[k].out) >= k}
  <1>16. 0 \in T
    BY <1>3, <1>6, <1>1
  <1>17. ASSUME NEW k \in 0..n - 1, k \in T PROVE k + 1 \in T
    <2>1. k \in 0..n /\ k + 1 \in 0..n
      OBVIOUS
    <2>2. PICK a \in V : a = g[k]
      BY <2>1
    <2>3. g[k + 1] = go(a) /\ go(a) \in V
      BY <1>2, <1>7, <2>2
    <2>4. Len(a.out) < n => Len(go(a).out) >= Len(a.out) + 1
      BY <1>2
    <2>5. ~(Len(a.out) < n) => go(a) = a
      OBVIOUS
    <2> HIDE DEF go
    <2>6. Len(a.out) \in Nat /\ Len(a.out) >= k
      BY <1>3, <1>17, <2>2
    <2>7. Len(go(a).out) \in Nat
      BY <1>3, <2>3
    <2>8. Len(go(a).out) >= k + 1
      <3>1. CASE Len(a.out) < n
        BY <2>4, <2>6, <2>7, <3>1
      <3>2. CASE ~(Len(a.out) < n)
        <4>1. Len(a.out) >= k + 1
          BY <2>6, <3>2
        <4> QED BY <2>5, <3>2, <4>1
      <3> QED BY <3>1, <3>2
    <2> QED BY <2>1, <2>3, <2>8
  <1>18. n \in T
    <2> HIDE DEF T
    <2>1. 0..n \subseteq T
      BY <1>16, <1>17, UpTo
    <2> QED BY <2>1
  <1>19. Len(b.out) = n
    BY <1>3, <1>15, <1>18
  <1> QED BY <1>15, <1>19 DEF V

-----------------------------------------------------------------------------
(* The streams of a beta.                                                  *)

StreamTypeInv ==
    /\ Oracle(sha512)
    /\ streams \in Seq(StreamState)
    /\ given \in Seq(Seq(Byte)) /\ Len(given) = Len(streams)

BufferInv == \A i \in DOMAIN streams : Buffered(streams[i], sha512)

BytesInv ==
    \A i \in DOMAIN streams :
        /\ InOrder(given[i], 0, streams[i].path, sha512)
        /\ Position(streams[i]) = Len(given[i])

CallInv ==
    /\ call.kind = "range" => call.on \in DOMAIN streams
    /\ call.kind = "shuffle" =>
          call \in [kind : {"shuffle"}, on : DOMAIN streams, partners : Seq(Int)]

StreamInv == StreamTypeInv /\ BufferInv /\ BytesInv /\ CallInv

Extends(more, hash) ==
    DOMAIN hash \subseteq DOMAIN more /\ \A u \in DOMAIN hash : more[u] = hash[u]

\* What a hash function answered it goes on answering.
LEMMA ExtendedBuffer ==
    ASSUME NEW hash, NEW more, Extends(more, hash), NEW s, Buffered(s, hash)
    PROVE  Buffered(s, more)
  <1>1. s.blockIndex \in Nat
    BY DEF Buffered, StreamState
  <1>2. s.blockIndex > 0 => BlockInput(s.path, s.blockIndex - 1) \in DOMAIN hash
    <2>1. s.blockIndex > 0 => s.blockIndex - 1 \in 0..s.blockIndex - 1
      BY <1>1
    <2> QED BY <2>1 DEF Buffered
  <1>3. s.blockIndex > 0 =>
            /\ Len(s.buf) = BlockBytes
            /\ s.buf = more[BlockInput(s.path, s.blockIndex - 1)]
    BY <1>2, Zenon DEF Buffered, Extends
  <1>4. \A k \in 0..s.blockIndex - 1 : BlockInput(s.path, k) \in DOMAIN more
    BY Zenon DEF Buffered, Extends
  <1> QED BY <1>3, <1>4, Zenon DEF Buffered

LEMMA ExtendedBytes ==
    ASSUME NEW hash, NEW more, Extends(more, hash), NEW s, Buffered(s, hash),
           NEW bytes \in Seq(Byte), Len(bytes) = Position(s),
           InOrder(bytes, 0, s.path, hash)
    PROVE  InOrder(bytes, 0, s.path, more)
  <1>1. PICK c \in Nat \ {0} : c = BlockBytes
    BY BlockSize
  <1>2. PICK b \in Nat : b = s.blockIndex
    BY DEF Buffered, StreamState
  <1>3. Position(s) <= b * c
    BY <1>1, <1>2, PositionType
  <1>4. ASSUME NEW k \in 1..Len(bytes)
        PROVE  bytes[k] = HashByte(more, s.path, 0 + k - 1)
    <2>1. PICK m \in Nat : m = 0 + k - 1
      OBVIOUS
    <2>2. m < b * c
      <3>1. PICK l \in Nat, size \in Int : l = Len(bytes) /\ size = b * c
        OBVIOUS
      <3>2. m < l
        BY <2>1, <3>1
      <3>3. l <= size /\ size \in Nat
        BY <1>3, <3>1
      <3> QED BY <3>1, <3>2, <3>3
    <2>3. PICK d \in Nat, e \in 0..c - 1 : d = m \div c /\ m = c * d + e
      <3>1. \E d \in Nat, e \in 0..c - 1 : d = m \div c /\ e = m % c /\ m = c * d + e
        BY <1>1, <2>1, Division, Zenon
      <3> QED BY <3>1, Zenon
    <2>4. d < b
      <3> SUFFICES ASSUME d >= b PROVE FALSE
        OBVIOUS
      <3>1. c * d >= b * c
        <4>1. PICK f \in Nat : d = b + f
          <5>1. d - b \in Nat /\ d = b + (d - b)
            OBVIOUS
          <5> QED BY <5>1
        <4>2. c * d = b * c + c * f /\ c * f \in Nat /\ b * c \in Nat
          BY <4>1
        <4> QED BY <4>2
      <3>2. c * d \in Nat /\ b * c \in Nat
        OBVIOUS
      <3> QED BY <2>2, <2>3, <3>1, <3>2
    <2>5. d \in 0..b - 1
      BY <2>4
    <2>6. BlockInput(s.path, d) \in DOMAIN hash
      BY <1>2, <2>5 DEF Buffered
    <2>7. more[BlockInput(s.path, d)] = hash[BlockInput(s.path, d)]
      BY <2>6 DEF Extends
    <2>8. HashByte(more, s.path, m) = HashByte(hash, s.path, m)
      BY <1>1, <2>3, <2>7, Zenon DEF HashByte
    <2>9. bytes[k] = HashByte(hash, s.path, 0 + k - 1)
      BY Zenon DEF InOrder
    <2> QED BY <2>1, <2>8, <2>9
  <1> QED BY <1>4 DEF InOrder

\* The inputs that Needed names are those that a read reaches.
LEMMA NeededSupplies ==
    ASSUME NEW hash, NEW old, NEW s, Buffered(s, old), NEW n \in Nat,
           Needed(s, n) \subseteq DOMAIN hash
    PROVE  Supplied(s, n, hash)
  <1> SUFFICES ASSUME NEW b \in Nat, b >= s.blockIndex,
                      b * BlockBytes < Position(s) + n
               PROVE  BlockInput(s.path, b) \in DOMAIN hash
    BY DEF Supplied
  <1>1. PICK c \in Nat \ {0} : c = BlockBytes
    BY BlockSize
  <1>2. PICK i \in Nat, l \in Nat, o \in Nat :
            i = s.blockIndex /\ l = Len(s.buf) /\ o = s.bufOffset
    BY DEF Buffered, StreamState
  <1>3. PICK k \in Nat : b = i + k
    <2>1. b - i \in Nat /\ b = i + (b - i)
      BY <1>2
    <2> QED BY <2>1
  <1>4. PICK m \in Int : m = n - (l - o)
    OBVIOUS
  <1>5. k * c < m
    <2>1. b * c < i * c - (l - o) + n
      BY <1>1, <1>2, Zenon DEF Position
    <2>2. b * c = i * c + k * c
      BY <1>3
    <2>3. i * c \in Nat /\ k * c \in Nat
      OBVIOUS
    <2> QED BY <1>4, <2>1, <2>2, <2>3
  <1>6. PICK a \in Nat : a = m + c - 1
    <2>1. k * c \in Nat
      OBVIOUS
    <2>2. m + c - 1 \in Nat
      BY <1>5, <2>1
    <2> QED BY <2>2
  <1>7. PICK d \in Nat, e \in 0..c - 1 : d = a \div c /\ a = c * d + e
    BY Division
  <1>8. k <= d - 1
    <2> SUFFICES ASSUME k >= d PROVE FALSE
      OBVIOUS
    <2>1. k * c >= c * d
      <3>1. PICK f \in Nat : k = d + f
        <4>1. k - d \in Nat /\ k = d + (k - d)
          OBVIOUS
        <4> QED BY <4>1
      <3>2. k * c = c * d + c * f /\ c * f \in Nat /\ c * d \in Nat
        BY <3>1
      <3> QED BY <3>2
    <2>2. c * d \in Nat /\ k * c \in Nat
      OBVIOUS
    <2> QED BY <1>5, <1>6, <1>7, <2>1, <2>2
  <1>9. k \in 0..d - 1
    BY <1>8
  <1>10. d = ((n - (Len(s.buf) - s.bufOffset)) + BlockBytes - 1) \div BlockBytes
    BY <1>1, <1>2, <1>4, <1>6, <1>7
  <1>11. BlockInput(s.path, s.blockIndex + k) \in Needed(s, n)
    BY <1>9, <1>10, Zenon DEF Needed
  <1> QED BY <1>2, <1>3, <1>11

\* What a read of n bytes on stream i may bring.
Brings(r, i, n) ==
    /\ Oracle(r.hash) /\ Extends(r.hash, sha512)
    /\ Reading(r.read, streams[i], n, r.hash)
    /\ Len(r.read.out) = n

LEMMA ReadsFacts ==
    ASSUME StreamInv, NEW i \in DOMAIN streams, NEW n \in Nat, NEW r \in Reads(i, n)
    PROVE  Brings(r, i, n)
  <1> DEFINE fresh == Needed(streams[i], n) \ DOMAIN sha512
             known == DOMAIN sha512 \cup fresh
             answers == IF Cardinality(known) > MaxBlocks THEN {}
                        ELSE [fresh -> Block]
             extended(drawn) == [input \in known |-> IF input \in fresh
                                                     THEN drawn[input]
                                                     ELSE sha512[input]]
             hashes == {extended(drawn) : drawn \in answers}
  <1>1. Reads(i, n) = {[hash |-> hash, read |-> nextBytes(streams[i], n, hash)] :
                          hash \in hashes}
    BY Zenon DEF Reads, Block
  <1>2. PICK hash \in hashes :
            r = [hash |-> hash, read |-> nextBytes(streams[i], n, hash)]
    <2> HIDE DEF hashes
    <2> QED BY <1>1
  <1>3. PICK drawn \in answers : hash = extended(drawn)
    OBVIOUS
  <1>4. drawn \in [fresh -> Block]
    BY <1>3
  <1>5. \A u \in DOMAIN sha512 : sha512[u] \in Block
    BY DEF StreamInv, StreamTypeInv, Oracle
  <1> HIDE DEF fresh
  <1>6. DOMAIN hash = known
    BY <1>3
  <1>7. \A u \in known : hash[u] \in Block
    BY <1>3, <1>4, <1>5
  <1>8. hash = [u \in known |-> hash[u]]
    BY <1>3
  <1>9. Oracle(hash)
    BY <1>6, <1>7, <1>8 DEF Oracle
  <1>10. Extends(hash, sha512)
    <2>1. \A u \in DOMAIN sha512 : u \notin fresh
      BY DEF fresh
    <2> QED BY <1>3, <1>6, <2>1 DEF Extends
  <1>11. Needed(streams[i], n) \subseteq DOMAIN hash
    BY <1>6 DEF fresh
  <1>12. Buffered(streams[i], sha512)
    BY DEF StreamInv, BufferInv
  <1>13. Supplied(streams[i], n, hash)
    BY <1>11, <1>12, NeededSupplies, Zenon
  <1>14. Buffered(streams[i], hash)
    BY <1>10, <1>12, ExtendedBuffer, Zenon
  <1>15. PICK b : b = nextBytes(streams[i], n, hash)
    OBVIOUS
  <1>16. Reading(b, streams[i], n, hash) /\ Len(b.out) = n
    BY <1>9, <1>13, <1>14, <1>15, NextBytesReads, Zenon
  <1>17. r.hash = hash /\ r.read = b
    BY <1>2, <1>15
  <1> QED BY <1>9, <1>10, <1>16, <1>17, Zenon DEF Brings

\* A read leaves every stream in order.
LEMMA TakeStep ==
    ASSUME StreamInv, NEW i \in DOMAIN streams, NEW n \in Nat, NEW r,
           Brings(r, i, n), Take(i, r)
    PROVE  /\ StreamTypeInv' /\ BufferInv' /\ BytesInv'
           /\ DOMAIN streams' = DOMAIN streams
  <1>1. PICK t, out : t = r.read.s /\ out = r.read.out
    OBVIOUS
  <1>2. /\ sha512' = r.hash
        /\ streams' = [streams EXCEPT ![i] = t]
        /\ given' = [given EXCEPT ![i] = @ \o out]
    BY <1>1, Zenon DEF Take
  <1>3. /\ Oracle(sha512') /\ Extends(sha512', sha512)
        /\ Reading(r.read, streams[i], n, sha512')
    BY <1>2 DEF Brings
  <1>4. /\ r.read \in [s : StreamState, out : Seq(Byte)]
        /\ Buffered(t, sha512') /\ t.path = streams[i].path
        /\ Position(t) = Position(streams[i]) + Len(out)
        /\ InOrder(out, Position(streams[i]), streams[i].path, sha512')
    BY <1>1, <1>3, Zenon DEF Reading
  <1>5. t \in StreamState /\ out \in Seq(Byte)
    BY <1>1, <1>4
  <1>6. /\ streams \in Seq(StreamState) /\ given \in Seq(Seq(Byte))
        /\ Len(given) = Len(streams)
    BY DEF StreamInv, StreamTypeInv
  <1>7. given[i] \in Seq(Byte)
    BY <1>6
  <1>8. PICK bytes : bytes = given[i] \o out
    OBVIOUS
  <1>9. bytes \in Seq(Byte) /\ Joined(bytes, given[i], out)
    BY <1>5, <1>7, <1>8, Concatenation, Zenon
  <1>10. given' = [given EXCEPT ![i] = bytes]
    BY <1>2, <1>8
  <1>11. /\ streams' \in Seq(StreamState) /\ given' \in Seq(Seq(Byte))
         /\ Len(streams') = Len(streams) /\ Len(given') = Len(given)
         /\ DOMAIN streams' = DOMAIN streams
    BY <1>2, <1>5, <1>6, <1>9, <1>10
  <1>12. /\ streams'[i] = t /\ given'[i] = bytes
         /\ \A j \in DOMAIN streams : j # i => /\ streams'[j] = streams[j]
                                               /\ given'[j] = given[j]
    BY <1>2, <1>6, <1>10
  <1>13. StreamTypeInv'
    BY <1>3, <1>6, <1>11 DEF StreamTypeInv
  <1>14. ASSUME NEW j \in DOMAIN streams
         PROVE  /\ Buffered(streams[j], sha512') /\ given[j] \in Seq(Byte)
                /\ InOrder(given[j], 0, streams[j].path, sha512')
                /\ Len(given[j]) = Position(streams[j])
    <2>1. Buffered(streams[j], sha512)
      BY DEF StreamInv, BufferInv
    <2>2. /\ InOrder(given[j], 0, streams[j].path, sha512)
          /\ Len(given[j]) = Position(streams[j])
      BY DEF StreamInv, BytesInv
    <2>3. given[j] \in Seq(Byte)
      BY <1>6
    <2>4. Buffered(streams[j], sha512')
      BY <1>3, <2>1, ExtendedBuffer, Zenon
    <2>5. InOrder(given[j], 0, streams[j].path, sha512')
      BY <1>3, <2>1, <2>2, <2>3, ExtendedBytes, Zenon
    <2> QED BY <2>2, <2>3, <2>4, <2>5
  <1>15. BufferInv'
    <2>1. ASSUME NEW j \in DOMAIN streams PROVE Buffered(streams'[j], sha512')
      <3>1. CASE j = i
        BY <1>4, <1>12, <3>1
      <3>2. CASE j # i
        BY <1>12, <1>14, <3>2
      <3> QED BY <3>1, <3>2
    <2> QED BY <1>11, <2>1 DEF BufferInv
  <1>16. InOrder(bytes, 0, t.path, sha512') /\ Position(t) = Len(bytes)
    <2>1. PICK p \in Nat : p = Position(streams[i])
      BY <1>14, PositionType
    <2>2. Len(given[i]) = p
      BY <1>14, <2>1
    <2>3. /\ Len(bytes) = p + Len(out)
          /\ \A m \in 1..p : bytes[m] = given[i][m]
          /\ \A m \in 1..Len(out) : bytes[m + p] = out[m]
      BY <1>9, <2>2, Zenon DEF Joined
    <2>4. Len(out) \in Nat
      BY <1>5
    <2>5. ASSUME NEW k \in 1..Len(bytes)
          PROVE  bytes[k] = HashByte(sha512', t.path, 0 + k - 1)
      <3>1. CASE k <= p
        <4>1. k \in 1..p /\ k \in 1..Len(given[i])
          BY <2>2, <3>1
        <4>2. given[i][k] = HashByte(sha512', streams[i].path, 0 + k - 1)
          BY <1>14, <4>1, Zenon DEF InOrder
        <4> QED BY <1>4, <2>3, <4>1, <4>2
      <3>2. CASE ~(k <= p)
        <4>1. PICK m \in 1..Len(out) : k = m + p
          <5>1. k - p \in 1..Len(out) /\ k = (k - p) + p
            BY <2>3, <2>4, <3>2
          <5> QED BY <5>1
        <4>2. out[m] = HashByte(sha512', streams[i].path, p + m - 1)
          BY <1>4, <2>1, Zenon DEF InOrder
        <4>3. p + m - 1 = 0 + k - 1
          BY <4>1
        <4> QED BY <1>4, <2>3, <4>1, <4>2, <4>3
      <3> QED BY <3>1, <3>2
    <2>6. InOrder(bytes, 0, t.path, sha512')
      BY <2>5 DEF InOrder
    <2> QED BY <1>4, <2>1, <2>3, <2>6
  <1>17. BytesInv'
    <2>1. ASSUME NEW j \in DOMAIN streams
          PROVE  /\ InOrder(given'[j], 0, streams'[j].path, sha512')
                 /\ Position(streams'[j]) = Len(given'[j])
      <3>1. CASE j = i
        BY <1>12, <1>16, <3>1
      <3>2. CASE j # i
        BY <1>12, <1>14, <3>2
      <3> QED BY <3>1, <3>2
    <2> QED BY <1>11, <2>1 DEF BytesInv
  <1> QED BY <1>11, <1>13, <1>15, <1>17

\* An opened stream has handed out nothing.
LEMMA OpenStep ==
    ASSUME StreamInv, NEW path \in Path, Open(path)
    PROVE  StreamInv'
  <1>1. PICK t : t = vrfStream(path)
    OBVIOUS
  <1>2. /\ streams' = Append(streams, t) /\ given' = Append(given, <<>>)
        /\ call' = NoCall /\ sha512' = sha512
    BY <1>1 DEF Open
  <1>3. /\ t \in StreamState /\ t.blockIndex = 0 /\ t.buf = <<>> /\ t.bufOffset = 0
    BY <1>1 DEF vrfStream, StreamState
  <1>4. /\ streams \in Seq(StreamState) /\ given \in Seq(Seq(Byte))
        /\ Len(given) = Len(streams) /\ Oracle(sha512)
    BY DEF StreamInv, StreamTypeInv
  <1>5. <<>> \in Seq(Byte) /\ Len(<<>>) = 0
    OBVIOUS
  <1>6. /\ streams' \in Seq(StreamState) /\ given' \in Seq(Seq(Byte))
        /\ Len(streams') = Len(streams) + 1 /\ Len(given') = Len(streams')
    BY <1>2, <1>3, <1>4, <1>5
  <1>7. /\ \A j \in DOMAIN streams' : j \in DOMAIN streams \/ j = Len(streams) + 1
        /\ \A j \in DOMAIN streams : streams'[j] = streams[j] /\ given'[j] = given[j]
        /\ streams'[Len(streams) + 1] = t /\ given'[Len(streams) + 1] = <<>>
    BY <1>2, <1>3, <1>4, <1>5
  <1>8. Buffered(t, sha512)
    <2>1. t.bufOffset <= Len(t.buf) /\ ~(t.blockIndex > 0) /\ 0..t.blockIndex - 1 = {}
      BY <1>3, <1>5
    <2> QED BY <1>3, <2>1 DEF Buffered
  <1>9. InOrder(<<>>, 0, t.path, sha512) /\ Position(t) = 0
    <2>1. InOrder(<<>>, 0, t.path, sha512)
      BY <1>5 DEF InOrder
    <2>2. Position(t) = 0 * BlockBytes - (0 - 0)
      BY <1>3, <1>5, Zenon DEF Position
    <2> QED BY <2>1, <2>2, BlockSize
  <1>10. BufferInv'
    BY <1>2, <1>7, <1>8 DEF StreamInv, BufferInv
  <1>11. BytesInv'
    <2>1. ASSUME NEW j \in DOMAIN streams'
          PROVE  /\ InOrder(given'[j], 0, streams'[j].path, sha512)
                 /\ Position(streams'[j]) = Len(given'[j])
      <3>1. CASE j \in DOMAIN streams
        BY <1>7, <3>1 DEF StreamInv, BytesInv
      <3>2. CASE j = Len(streams) + 1
        BY <1>5, <1>7, <1>9, <3>2
      <3> QED BY <1>7, <3>1, <3>2
    <2> QED BY <1>2, <2>1 DEF BytesInv
  <1>12. StreamTypeInv' /\ CallInv'
    BY <1>2, <1>4, <1>6 DEF StreamTypeInv, CallInv, NoCall
  <1> QED BY <1>10, <1>11, <1>12 DEF StreamInv

\* A call that reads nothing.
LEMMA QuietStep ==
    ASSUME StreamInv, UNCHANGED <<sha512, streams, given>>, CallInv'
    PROVE  StreamInv'
  BY DEF StreamInv, StreamTypeInv, BufferInv, BytesInv

-----------------------------------------------------------------------------
(* Words and their bits.                                                   *)

LEMMA WordSize == W \in Nat \ {0}
  <1>1. PICK b \in Nat \ {0}, k \in Nat \ {0} : b = ByteBits /\ k = WordBytes
    BY StreamAssumption
  <1>2. b * k \in Nat \ {0}
    OBVIOUS
  <1> QED BY <1>1, <1>2 DEF W

LEMMA TwoPowerFacts ==
    /\ TwoPower[0] = 1
    /\ \A n \in Nat : TwoPower[n] \in Nat \ {0} /\ TwoPower[n + 1] = 2 * TwoPower[n]
  <1>0. PICK two : two = 2
    OBVIOUS
  <1>1. TwoPower = CHOOSE g : g = [n \in Nat |-> PowerBody(two, g, n)]
    BY <1>0, Zenon DEF TwoPower, PowerBody
  <1>2. TwoPower[0] = 1 /\ \A n \in Nat : TwoPower[n + 1] = 2 * TwoPower[n]
    <2>1. Powers(TwoPower, two)
      BY <1>1, PowerFunction, Zenon
    <2> QED BY <1>0, <2>1, Zenon DEF Powers
  <1> DEFINE T == {n \in Nat : TwoPower[n] \in Nat \ {0}}
  <1>3. ASSUME NEW n \in Nat PROVE n \in T
    <2>1. 0 \in T
      BY <1>2
    <2>2. \A k \in 0..n - 1 : k \in T => k + 1 \in T
      BY <1>2
    <2> HIDE DEF T
    <2>3. 0..n \subseteq T
      BY <2>1, <2>2, UpTo
    <2> QED BY <2>3
  <1> QED BY <1>2, <1>3

LEMMA TwoPowerAbove == \A n \in Nat : TwoPower[n] > n
  <1> DEFINE T == {n \in Nat : TwoPower[n] > n}
  <1> SUFFICES ASSUME NEW n \in Nat PROVE n \in T
    OBVIOUS
  <1>1. 0 \in T
    BY TwoPowerFacts
  <1>2. ASSUME NEW k \in 0..n - 1, k \in T PROVE k + 1 \in T
    <2>1. PICK p \in Nat : p = TwoPower[k] /\ TwoPower[k + 1] = 2 * p
      BY TwoPowerFacts
    <2>2. 2 * p > k + 1
      BY <1>2, <2>1
    <2> QED BY <2>1, <2>2
  <1> HIDE DEF T
  <1>3. 0..n \subseteq T
    BY <1>1, <1>2, UpTo
  <1> QED BY <1>3

LEMMA TwoPowerSum ==
    ASSUME NEW m \in Nat, NEW n \in Nat
    PROVE  TwoPower[m + n] = TwoPower[m] * TwoPower[n]
  <1> DEFINE T == {k \in Nat : TwoPower[m + k] = TwoPower[m] * TwoPower[k]}
  <1>1. 0 \in T
    <2>1. m + 0 = m
      OBVIOUS
    <2>2. PICK p \in Nat : p = TwoPower[m]
      BY TwoPowerFacts
    <2>3. p * 1 = p
      OBVIOUS
    <2> QED BY <2>1, <2>2, <2>3, TwoPowerFacts
  <1>2. ASSUME NEW k \in 0..n - 1, k \in T PROVE k + 1 \in T
    <2>1. PICK p \in Nat, q \in Nat : p = TwoPower[m] /\ q = TwoPower[k]
      BY TwoPowerFacts
    <2>2. TwoPower[k + 1] = 2 * q /\ TwoPower[m + k] = p * q
      BY <1>2, <2>1, TwoPowerFacts
    <2>3. TwoPower[(m + k) + 1] = 2 * (p * q)
      BY <2>2, TwoPowerFacts, m + k \in Nat
    <2>4. 2 * (p * q) = p * (2 * q)
      OBVIOUS
    <2>5. m + (k + 1) = (m + k) + 1
      OBVIOUS
    <2> QED BY <2>1, <2>2, <2>3, <2>4, <2>5
  <1> HIDE DEF T
  <1>3. 0..n \subseteq T
    BY <1>1, <1>2, UpTo
  <1> QED BY <1>3 DEF T

LEMMA TwoPowerGrows ==
    ASSUME NEW m \in Nat, NEW n \in Nat, m <= n
    PROVE  TwoPower[m] <= TwoPower[n]
  <1>1. PICK d \in Nat : n = m + d
    <2>1. n - m \in Nat /\ n = m + (n - m)
      OBVIOUS
    <2> QED BY <2>1
  <1>2. PICK p \in Nat \ {0}, q \in Nat \ {0} : p = TwoPower[m] /\ q = TwoPower[d]
    BY TwoPowerFacts
  <1>3. TwoPower[n] = p * q
    BY <1>1, <1>2, TwoPowerSum
  <1>4. p <= p * q
    OBVIOUS
  <1> QED BY <1>2, <1>3, <1>4

\* A word below a power of two has no bit from there on, and one that reaches
\* half of it has the bit below.
LEMMA NoBit ==
    ASSUME NEW word \in Nat, NEW k \in Nat, word < TwoPower[k]
    PROVE  k \notin Bits(word)
  <1>1. PICK p \in Nat \ {0} : p = TwoPower[k]
    BY TwoPowerFacts
  <1>2. word = p * 0 + word /\ word \in 0..p - 1
    BY <1>1
  <1>3. word \div p = 0
    BY <1>2, DivUnique
  <1> QED BY <1>1, <1>3 DEF Bits

LEMMA TopBit ==
    ASSUME NEW word \in Nat, NEW k \in 0..W - 1,
           TwoPower[k] <= word, word < TwoPower[k + 1]
    PROVE  k \in Bits(word)
  <1>1. k \in Nat
    BY WordSize
  <1>2. PICK p \in Nat \ {0} : p = TwoPower[k] /\ TwoPower[k + 1] = 2 * p
    BY <1>1, TwoPowerFacts
  <1>3. PICK m \in Int, d \in 0..p - 1 : m = 1 /\ d = word - p
    BY <1>2
  <1>4. word = p * m + d
    BY <1>3
  <1>5. word \div p = 1
    BY <1>3, <1>4, DivUnique
  <1> QED BY <1>2, <1>5 DEF Bits

-----------------------------------------------------------------------------
(* The mask.                                                               *)

\* mask |= mask >>> 2^k.
Widened(mask, k) ==
    IF TwoPower[k] < W
    THEN mask \cup {b \in 0..W - 1 : b + TwoPower[k] \in mask}
    ELSE mask

MaskBody(range, g, i) ==
    IF i = 0 THEN Bits(range - 1)
    ELSE IF TwoPower[i - 1] < W
    THEN g[i - 1] \cup {k \in 0..W - 1 : k + TwoPower[i - 1] \in g[i - 1]}
    ELSE g[i - 1]

IsMask(range, g) ==
    /\ g \in [0..W -> SUBSET (0..W - 1)]
    /\ g[0] = Bits(range - 1)
    /\ \A k \in 0..W - 1 : g[k + 1] = Widened(g[k], k)

LEMMA MaskLoop ==
    ASSUME NEW range
    PROVE  \E g : IsMask(range, g) /\ Mask(range) = g[W]
  <1> DEFINE V == SUBSET (0..W - 1)
             step == [km \in Nat \X V |-> Widened(km[2], km[1])]
             base == Bits(range - 1)
             Is(g) == g = [i \in 0..W |-> MaskBody(range, g, i)]
             c == CHOOSE g : Is(g)
  <1>1. base \in V
    BY DEF Bits
  <1>2. step \in [Nat \X V -> V]
    <2>1. \A m \in V, k \in Nat : Widened(m, k) \in V
      BY DEF Widened
    <2> HIDE DEF V
    <2> QED BY <2>1
  <1> HIDE DEF V, base
  <1>3. PICK g \in [0..W -> V] : IsRun(g, W, base, step)
    <2> HIDE DEF step
    <2> QED BY <1>1, <1>2, RunExists, WordSize, Zenon
  <1>4. g[0] = base
    BY <1>3 DEF IsRun
  <1>5. ASSUME NEW k \in 0..W - 1 PROVE g[k + 1] = Widened(g[k], k)
    <2>1. k \in Nat /\ k \in 0..W
      BY WordSize
    <2>2. step[<<k, g[k]>>] = Widened(g[k], k)
      BY <2>1
    <2> HIDE DEF step
    <2> QED BY <1>3, <2>2 DEF IsRun
  <1> HIDE DEF step
  <1>6. Is(g)
    <2>1. ASSUME NEW i \in 0..W PROVE g[i] = MaskBody(range, g, i)
      <3>1. CASE i = 0
        BY <1>4, <3>1 DEF MaskBody, base
      <3>2. CASE i # 0
        <4>1. PICK k \in 0..W - 1 : i = k + 1
          <5>1. i - 1 \in 0..W - 1 /\ i = (i - 1) + 1
            BY <3>2, WordSize
          <5> QED BY <5>1
        <4>2. i - 1 = k
          BY <4>1
        <4>3. MaskBody(range, g, i) = Widened(g[k], k)
          BY <3>2, <4>2, Zenon DEF MaskBody, Widened
        <4> QED BY <1>5, <4>1, <4>3
      <3> QED BY <3>1, <3>2
    <2>2. g = [i \in 0..W |-> g[i]]
      OBVIOUS
    <2> QED BY <2>1, <2>2, Zenon
  <1>7. Is(c)
    BY <1>6, Zenon
  <1>8. Mask(range) = c[W]
    BY Zenon DEF Mask, MaskBody
  <1>9. \A i \in 0..W : c[i] = MaskBody(range, c, i)
    <2> HIDE DEF c
    <2> QED BY <1>7, Zenon
  <1> HIDE DEF c, Is
  <1>10. c[0] = g[0]
    <2>1. 0 \in 0..W
      BY WordSize
    <2>2. MaskBody(range, c, 0) = base
      BY DEF MaskBody, base
    <2> QED BY <1>4, <1>9, <2>1, <2>2
  <1>11. \A k \in 0..W - 1 : c[k] = g[k] => c[k + 1] = g[k + 1]
    <2> SUFFICES ASSUME NEW k \in 0..W - 1, c[k] = g[k] PROVE c[k + 1] = g[k + 1]
      OBVIOUS
    <2>1. k + 1 \in 0..W /\ k + 1 # 0 /\ (k + 1) - 1 = k
      BY WordSize
    <2>2. MaskBody(range, c, k + 1) = Widened(c[k], k)
      BY <2>1, Zenon DEF MaskBody, Widened
    <2>3. c[k + 1] = MaskBody(range, c, k + 1) /\ g[k + 1] = Widened(g[k], k)
      BY <1>5, <1>9, <2>1, Zenon
    <2> QED BY <2>2, <2>3, Zenon
  <1>12. \A k \in 0..W : c[k] = g[k]
    <2>1. StepsAgree(c, g, W)
      BY <1>10, <1>11, Zenon DEF StepsAgree
    <2>2. W \in Nat
      BY WordSize
    <2>3. Same(c, g, W)
      BY <2>1, <2>2, RunsAgree, Zenon
    <2> QED BY <2>3, Zenon DEF Same
  <1>13. Mask(range) = g[W]
    BY <1>8, <1>12, WordSize
  <1>14. IsMask(range, g)
    BY <1>4, <1>5 DEF IsMask, V, base
  <1> QED BY <1>13, <1>14

\* The mask has the bits of range - 1 and all below them.
LEMMA MaskBits ==
    ASSUME NEW range, NEW b \in 0..W - 1
    PROVE  b \in Mask(range) <=> \E t \in Bits(range - 1) : b <= t
  <1>1. PICK g : IsMask(range, g) /\ Mask(range) = g[W]
    BY MaskLoop
  <1>2. PICK top : top = Bits(range - 1)
    OBVIOUS
  <1>3. top \subseteq 0..W - 1
    BY <1>2 DEF Bits
  <1>4. PICK w \in Nat \ {0} : w = W
    BY WordSize
  <1> DEFINE Reaches(i) ==
                 \A j \in 0..w - 1 :
                     j \in g[i] <=> \E t \in top : j <= t /\ t < j + TwoPower[i]
             T == {i \in 0..w : Reaches(i)}
  <1>5. 0 \in T
    <2>1. g[0] = top /\ TwoPower[0] = 1
      BY <1>1, <1>2, TwoPowerFacts DEF IsMask
    <2>2. \A j \in 0..w - 1 : \A t \in top : (j <= t /\ t < j + 1) <=> j = t
      BY <1>3, <1>4
    <2>3. Reaches(0)
      BY <2>1, <2>2
    <2> QED BY <2>3
  <1>6. ASSUME NEW i \in 0..w - 1, i \in T PROVE i + 1 \in T
    <2>1. i \in Nat /\ i + 1 \in 0..w /\ i \in 0..w
      OBVIOUS
    <2>2. PICK p \in Nat \ {0} : p = TwoPower[i] /\ TwoPower[i + 1] = 2 * p
      BY <2>1, TwoPowerFacts
    <2>3. PICK m, d : m = g[i] /\ d = g[i + 1]
      OBVIOUS
    <2>4. m \subseteq 0..w - 1
      BY <1>1, <1>4, <2>1, <2>3 DEF IsMask
    <2>5. d = IF p < w THEN m \cup {j \in 0..w - 1 : j + p \in m} ELSE m
      BY <1>1, <1>4, <2>2, <2>3, Zenon DEF IsMask, Widened
    <2>6. \A j \in 0..w - 1 : j \in m <=> \E t \in top : j <= t /\ t < j + p
      BY <1>6, <2>2, <2>3
    <2>7. ASSUME NEW j \in 0..w - 1
          PROVE  j \in d <=> \E t \in top : j <= t /\ t < j + 2 * p
      <3>1. ASSUME j \in d PROVE \E t \in top : j <= t /\ t < j + 2 * p
        <4>1. CASE j \in m
          <5>1. PICK t \in top : j <= t /\ t < j + p
            BY <2>6, <4>1
          <5> QED BY <1>3, <1>4, <5>1
        <4>2. CASE j \notin m
          <5>1. j + p \in m /\ j + p \in 0..w - 1
            BY <2>4, <2>5, <3>1, <4>2
          <5>2. PICK t \in top : j + p <= t /\ t < (j + p) + p
            BY <2>6, <5>1
          <5> QED BY <1>3, <1>4, <5>2
        <4> QED BY <4>1, <4>2
      <3>2. ASSUME NEW t \in top, j <= t, t < j + 2 * p PROVE j \in d
        <4>1. t \in 0..w - 1
          BY <1>3, <1>4
        <4>2. CASE t < j + p
          <5>1. j \in m
            BY <2>6, <3>2, <4>2
          <5> QED BY <2>5, <5>1
        <4>3. CASE ~(t < j + p)
          <5>1. j + p \in 0..w - 1 /\ p < w
            BY <4>1, <4>3
          <5>2. j + p <= t /\ t < (j + p) + p
            BY <3>2, <4>1, <4>3
          <5>3. j + p \in m
            BY <2>6, <5>1, <5>2
          <5> QED BY <2>5, <5>1, <5>3
        <4> QED BY <4>2, <4>3
      <3> QED BY <3>1, <3>2
    <2>8. Reaches(i + 1)
      BY <2>2, <2>3, <2>7
    <2> QED BY <2>1, <2>8
  <1>7. w \in T
    <2> HIDE DEF T
    <2>1. 0..w \subseteq T
      BY <1>5, <1>6, UpTo
    <2> QED BY <2>1
  <1>8. \A t \in top : t < b + TwoPower[w]
    <2>1. PICK p \in Nat : p = TwoPower[w] /\ p > w
      BY TwoPowerFacts, TwoPowerAbove
    <2> QED BY <1>3, <1>4, <2>1
  <1>9. b \in g[w] <=> \E t \in top : b <= t /\ t < b + TwoPower[w]
    BY <1>4, <1>7
  <1> QED BY <1>1, <1>2, <1>4, <1>8, <1>9

LEMMA MaskForm ==
    ASSUME NEW range \in 1..TwoPower[W]
    PROVE  \E j \in 0..W : /\ Mask(range) = 0..j - 1
                           /\ range <= TwoPower[j]
                           /\ range <= TwoPower[W - 1] => j <= W - 1
  <1>1. PICK w \in Nat \ {0} : w = W
    BY WordSize
  <1>2. PICK word \in Nat : word = range - 1
    <2>1. TwoPower[W] \in Nat
      BY <1>1, TwoPowerFacts
    <2> QED BY <2>1
  <1>3. range = word + 1
    BY <1>2, TwoPowerFacts, <1>1
  <1> DEFINE T == {k \in Nat : word < TwoPower[k]}
  <1>4. w \in T
    <2>1. TwoPower[w] \in Nat
      BY TwoPowerFacts
    <2> QED BY <1>1, <1>2, <2>1
  <1>5. PICK j \in T : \A y \in T : j <= y
    <2>1. T \subseteq Nat /\ T # {}
      BY <1>4
    <2> HIDE DEF T
    <2> QED BY <2>1, LeastNatural
  <1>6. j \in 0..w
    BY <1>4, <1>5
  <1>7. range <= TwoPower[j]
    <2>1. TwoPower[j] \in Nat
      BY TwoPowerFacts
    <2> QED BY <1>3, <2>1
  <1>8. range <= TwoPower[W - 1] => j <= W - 1
    <2> SUFFICES ASSUME range <= TwoPower[W - 1] PROVE j <= W - 1
      OBVIOUS
    <2>1. w - 1 \in Nat
      BY <1>1
    <2>2. TwoPower[w - 1] \in Nat
      BY <2>1, TwoPowerFacts
    <2>3. w - 1 \in T
      BY <1>1, <1>3, <2>1, <2>2
    <2> QED BY <1>1, <1>5, <2>3
  <1>9. ASSUME NEW t \in Bits(word) PROVE t \in 0..j - 1
    <2>1. t \in 0..w - 1
      BY <1>1 DEF Bits
    <2>2. CASE j <= t
      <3>1. TwoPower[j] <= TwoPower[t]
        BY <2>1, <2>2, <1>6, TwoPowerGrows
      <3>2. word < TwoPower[t]
        <4>1. TwoPower[j] \in Nat /\ TwoPower[t] \in Nat
          BY <2>1, TwoPowerFacts
        <4> QED BY <3>1, <4>1
      <3> QED BY <2>1, <3>2, NoBit
    <2>3. CASE ~(j <= t)
      BY <2>1, <2>3
    <2> QED BY <2>2, <2>3
  <1>10. j # 0 => j - 1 \in Bits(word)
    <2> SUFFICES ASSUME j # 0 PROVE j - 1 \in Bits(word)
      OBVIOUS
    <2>1. PICK k \in 0..w - 1 : j = k + 1
      <3>1. j - 1 \in 0..w - 1 /\ j = (j - 1) + 1
        BY <1>6
      <3> QED BY <3>1
    <2>2. k \notin T
      BY <1>5, <2>1
    <2>3. TwoPower[k] <= word
      <3>1. TwoPower[k] \in Nat
        BY TwoPowerFacts
      <3> QED BY <2>2, <3>1
    <2>4. word < TwoPower[k + 1]
      BY <2>1
    <2>5. k \in Bits(word)
      BY <1>1, <2>3, <2>4, TopBit
    <2> QED BY <2>1, <2>5
  <1>11. Mask(range) \subseteq 0..w - 1
    <2>1. PICK g : IsMask(range, g) /\ Mask(range) = g[W]
      BY MaskLoop
    <2> QED BY <1>1, <2>1 DEF IsMask
  <1>12. ASSUME NEW b \in 0..w - 1 PROVE b \in Mask(range) <=> b \in 0..j - 1
    <2>1. b \in Mask(range) <=> \E t \in Bits(word) : b <= t
      BY <1>1, <1>2, MaskBits
    <2>2. ASSUME NEW t \in Bits(word), b <= t PROVE b \in 0..j - 1
      <3>1. t \in 0..j - 1
        BY <1>9
      <3> QED BY <2>2, <3>1
    <2>3. ASSUME b \in 0..j - 1 PROVE \E t \in Bits(word) : b <= t
      <3>1. j # 0 /\ b <= j - 1
        BY <2>3
      <3> QED BY <1>10, <3>1
    <2> QED BY <2>1, <2>2, <2>3
  <1>13. Mask(range) = 0..j - 1
    <2>1. 0..j - 1 \subseteq 0..w - 1
      BY <1>6
    <2> QED BY <1>11, <1>12, <2>1
  <1> QED BY <1>1, <1>6, <1>7, <1>8, <1>13

-----------------------------------------------------------------------------
(* The value of some bits.                                                 *)

AddBit(number, bits, k) == number + (IF k \in bits THEN TwoPower[k] ELSE 0)

NumberBody(bits, g, k) ==
    IF k = 0 THEN 0
    ELSE g[k - 1] + (IF k - 1 \in bits THEN TwoPower[k - 1] ELSE 0)

IsNumber(bits, g) ==
    /\ g \in [0..W -> Nat] /\ g[0] = 0
    /\ \A k \in 0..W - 1 : g[k + 1] = AddBit(g[k], bits, k)

LEMMA NumberLoop ==
    ASSUME NEW bits
    PROVE  \E g : IsNumber(bits, g) /\ Number(bits) = g[W]
  <1> DEFINE step == [kn \in Nat \X Nat |-> AddBit(kn[2], bits, kn[1])]
             Is(g) == g = [k \in 0..W |-> NumberBody(bits, g, k)]
             c == CHOOSE g : Is(g)
  <1>1. 0 \in Nat
    OBVIOUS
  <1>2. step \in [Nat \X Nat -> Nat]
    <2>1. \A n, k \in Nat : AddBit(n, bits, k) \in Nat
      BY TwoPowerFacts DEF AddBit
    <2> QED BY <2>1
  <1>3. PICK g \in [0..W -> Nat] : IsRun(g, W, 0, step)
    <2> HIDE DEF step
    <2> QED BY <1>1, <1>2, RunExists, WordSize, Zenon
  <1>4. g[0] = 0
    BY <1>3 DEF IsRun
  <1>5. ASSUME NEW k \in 0..W - 1 PROVE g[k + 1] = AddBit(g[k], bits, k)
    <2>1. k \in Nat /\ k \in 0..W
      BY WordSize
    <2>2. step[<<k, g[k]>>] = AddBit(g[k], bits, k)
      BY <2>1
    <2> HIDE DEF step
    <2> QED BY <1>3, <2>2 DEF IsRun
  <1> HIDE DEF step
  <1>6. Is(g)
    <2>1. ASSUME NEW k \in 0..W PROVE g[k] = NumberBody(bits, g, k)
      <3>1. CASE k = 0
        BY <1>4, <3>1 DEF NumberBody
      <3>2. CASE k # 0
        <4>1. PICK j \in 0..W - 1 : k = j + 1
          <5>1. k - 1 \in 0..W - 1 /\ k = (k - 1) + 1
            BY <3>2, WordSize
          <5> QED BY <5>1
        <4>2. k - 1 = j
          BY <4>1
        <4>3. NumberBody(bits, g, k) = AddBit(g[j], bits, j)
          BY <3>2, <4>2, Zenon DEF NumberBody, AddBit
        <4> QED BY <1>5, <4>1, <4>3
      <3> QED BY <3>1, <3>2
    <2>2. g = [k \in 0..W |-> g[k]]
      OBVIOUS
    <2> QED BY <2>1, <2>2, Zenon
  <1>7. Is(c)
    BY <1>6, Zenon
  <1>8. Number(bits) = c[W]
    BY Zenon DEF Number, NumberBody
  <1>9. \A k \in 0..W : c[k] = NumberBody(bits, c, k)
    <2> HIDE DEF c
    <2> QED BY <1>7, Zenon
  <1> HIDE DEF c, Is
  <1>10. c[0] = g[0]
    <2>1. 0 \in 0..W
      BY WordSize
    <2> QED BY <1>4, <1>9, <2>1 DEF NumberBody
  <1>11. \A k \in 0..W - 1 : c[k] = g[k] => c[k + 1] = g[k + 1]
    <2> SUFFICES ASSUME NEW k \in 0..W - 1, c[k] = g[k] PROVE c[k + 1] = g[k + 1]
      OBVIOUS
    <2>1. k + 1 \in 0..W /\ k + 1 # 0 /\ (k + 1) - 1 = k
      BY WordSize
    <2>2. NumberBody(bits, c, k + 1) = AddBit(c[k], bits, k)
      BY <2>1, Zenon DEF NumberBody, AddBit
    <2>3. c[k + 1] = NumberBody(bits, c, k + 1) /\ g[k + 1] = AddBit(g[k], bits, k)
      BY <1>5, <1>9, <2>1, Zenon
    <2> QED BY <2>2, <2>3, Zenon
  <1>12. \A k \in 0..W : c[k] = g[k]
    <2>1. StepsAgree(c, g, W)
      BY <1>10, <1>11, Zenon DEF StepsAgree
    <2>2. W \in Nat
      BY WordSize
    <2>3. Same(c, g, W)
      BY <2>1, <2>2, RunsAgree, Zenon
    <2> QED BY <2>3, Zenon DEF Same
  <1>13. Number(bits) = g[W]
    BY <1>8, <1>12, WordSize
  <1>14. IsNumber(bits, g)
    BY <1>4, <1>5 DEF IsNumber
  <1> QED BY <1>13, <1>14

\* Bits below j make a number below 2^j.
LEMMA NumberBound ==
    ASSUME NEW j \in 0..W, NEW bits, bits \subseteq 0..j - 1
    PROVE  Number(bits) \in 0..TwoPower[j] - 1
  <1>1. PICK g : IsNumber(bits, g) /\ Number(bits) = g[W]
    BY NumberLoop
  <1>2. PICK w \in Nat \ {0} : w = W
    BY WordSize
  <1> DEFINE least(k) == IF k <= j THEN k ELSE j
             T == {k \in 0..w : g[k] < TwoPower[least(k)]}
  <1>3. 0 \in T
    <2>1. g[0] = 0 /\ least(0) = 0
      BY <1>1 DEF IsNumber
    <2> QED BY <2>1, TwoPowerFacts
  <1>4. ASSUME NEW k \in 0..w - 1, k \in T PROVE k + 1 \in T
    <2>1. k \in Nat /\ k \in 0..w /\ k + 1 \in 0..w /\ g[k] \in Nat
      BY <1>1, <1>2 DEF IsNumber
    <2>2. g[k + 1] = AddBit(g[k], bits, k)
      BY <1>1, <1>2 DEF IsNumber
    <2>3. CASE k < j
      <3>1. least(k) = k /\ least(k + 1) = k + 1
        BY <2>1, <2>3
      <3>2. PICK p \in Nat : p = TwoPower[k] /\ TwoPower[k + 1] = 2 * p
        BY <2>1, TwoPowerFacts
      <3>3. g[k] < p
        BY <1>4, <3>1, <3>2
      <3>4. g[k + 1] < 2 * p
        BY <2>1, <2>2, <3>2, <3>3 DEF AddBit
      <3> QED BY <2>1, <3>1, <3>2, <3>4
    <2>4. CASE ~(k < j)
      <3>1. least(k) = j /\ least(k + 1) = j
        BY <2>1, <2>4
      <3>2. k \notin bits
        BY <2>1, <2>4
      <3>3. g[k + 1] = g[k]
        BY <2>1, <2>2, <3>2 DEF AddBit
      <3> QED BY <1>4, <2>1, <3>1, <3>3
    <2> QED BY <2>3, <2>4
  <1>5. w \in T
    <2> HIDE DEF T
    <2>1. 0..w \subseteq T
      BY <1>3, <1>4, UpTo
    <2> QED BY <2>1
  <1>6. least(w) = j
    BY <1>2
  <1>7. g[w] < TwoPower[j] /\ g[w] \in Nat
    BY <1>1, <1>2, <1>5, <1>6 DEF IsNumber
  <1>8. TwoPower[j] \in Nat
    BY <1>2, TwoPowerFacts
  <1> QED BY <1>1, <1>2, <1>7, <1>8

\* The residue by the next power of two has one more bit.
LEMMA NextResidue ==
    ASSUME NEW word \in Nat, NEW k \in 0..W - 1, NEW bits,
           k \in bits <=> k \in Bits(word)
    PROVE  word % TwoPower[k + 1] = AddBit(word % TwoPower[k], bits, k)
  <1>1. k \in Nat
    BY WordSize
  <1>2. PICK p \in Nat \ {0} : p = TwoPower[k] /\ TwoPower[k + 1] = 2 * p
    BY <1>1, TwoPowerFacts
  <1>3. PICK d \in Nat, r \in 0..p - 1 :
            d = word \div p /\ r = word % p /\ word = p * d + r
    BY Division
  <1>4. PICK e \in Nat, b \in 0..1 : e = d \div 2 /\ b = d % 2 /\ d = 2 * e + b
    <2>1. 2 \in Nat \ {0} /\ 2 - 1 = 1
      OBVIOUS
    <2> QED BY <2>1, Division
  <1>5. k \in bits <=> b = 1
    BY <1>2, <1>3, <1>4 DEF Bits
  <1>6. PICK q \in 0..2 * p - 1 : q = r + (IF k \in bits THEN p ELSE 0)
    OBVIOUS
  <1>7. word = (2 * p) * e + q
    <2>1. word = p * (2 * e + b) + r
      BY <1>3, <1>4, Zenon
    <2>2. CASE b = 1
      <3>1. word = p * (2 * e + 1) + r
        BY <2>1, <2>2
      <3>2. p * (2 * e + 1) = (2 * p) * e + p
        OBVIOUS
      <3>3. (2 * p) * e \in Nat
        OBVIOUS
      <3>4. q = r + p
        BY <1>5, <1>6, <2>2
      <3> QED BY <3>1, <3>2, <3>3, <3>4
    <2>3. CASE b = 0
      <3>1. word = p * (2 * e + 0) + r
        BY <2>1, <2>3
      <3>2. p * (2 * e + 0) = (2 * p) * e
        OBVIOUS
      <3>3. (2 * p) * e \in Nat
        OBVIOUS
      <3>4. q = r
        BY <1>5, <1>6, <2>3
      <3> QED BY <3>1, <3>2, <3>3, <3>4
    <2> QED BY <2>2, <2>3
  <1>8. PICK n \in Nat \ {0} : n = 2 * p
    OBVIOUS
  <1>9. word % n = q
    <2>1. q \in 0..n - 1 /\ word = n * e + q
      BY <1>7, <1>8
    <2> QED BY <2>1, DivUnique
  <1> QED BY <1>2, <1>3, <1>6, <1>8, <1>9 DEF AddBit

\* The bits of a word below j make its residue by 2^j.
LEMMA NumberResidue ==
    ASSUME NEW j \in 0..W, NEW word \in Nat, NEW bits,
           bits = Bits(word) \cap (0..j - 1)
    PROVE  Number(bits) = word % TwoPower[j]
  <1>1. PICK g : IsNumber(bits, g) /\ Number(bits) = g[W]
    BY NumberLoop
  <1>2. PICK w \in Nat \ {0} : w = W
    BY WordSize
  <1> DEFINE least(k) == IF k <= j THEN k ELSE j
             T == {k \in 0..w : g[k] = word % TwoPower[least(k)]}
  <1>3. 0 \in T
    <2>1. g[0] = 0 /\ least(0) = 0
      BY <1>1 DEF IsNumber
    <2>2. word % 1 = 0
      <3>1. PICK n \in Nat \ {0} : n = 1
        OBVIOUS
      <3>2. PICK z \in 0..n - 1 : z = 0
        BY <3>1
      <3>3. word = n * word + z
        BY <3>1, <3>2
      <3>4. word % n = z
        BY <3>3, DivUnique
      <3> QED BY <3>1, <3>2, <3>4
    <2> QED BY <2>1, <2>2, TwoPowerFacts
  <1>4. ASSUME NEW k \in 0..w - 1, k \in T PROVE k + 1 \in T
    <2>1. k \in Nat /\ k \in 0..w /\ k + 1 \in 0..w /\ g[k] \in Nat
      BY <1>1, <1>2 DEF IsNumber
    <2>2. g[k + 1] = AddBit(g[k], bits, k)
      BY <1>1, <1>2 DEF IsNumber
    <2>3. CASE k < j
      <3>1. least(k) = k /\ least(k + 1) = k + 1
        BY <2>1, <2>3
      <3>2. k \in bits <=> k \in Bits(word)
        BY <2>1, <2>3
      <3>3. word % TwoPower[k + 1] = AddBit(word % TwoPower[k], bits, k)
        BY <1>2, <3>2, NextResidue
      <3> QED BY <1>4, <2>1, <2>2, <3>1, <3>3
    <2>4. CASE ~(k < j)
      <3>1. least(k) = j /\ least(k + 1) = j
        BY <2>1, <2>4
      <3>2. k \notin bits
        BY <2>1, <2>4
      <3>3. g[k + 1] = g[k]
        BY <2>1, <2>2, <3>2 DEF AddBit
      <3> QED BY <1>4, <2>1, <3>1, <3>3
    <2> QED BY <2>3, <2>4
  <1>5. w \in T
    <2> HIDE DEF T
    <2>1. 0..w \subseteq T
      BY <1>3, <1>4, UpTo
    <2> QED BY <2>1
  <1>6. least(w) = j
    BY <1>2
  <1> QED BY <1>1, <1>2, <1>5, <1>6

\* For ranges up to half of the words a candidate is a residue, and not
\* negative.
LEMMA CandidateForm ==
    ASSUME NEW range \in 1..TwoPower[W - 1]
    PROVE  \E j \in 0..W - 1 :
              /\ range <= TwoPower[j]
              /\ \A word : Candidate(word, range) \in Nat
              /\ \A word \in Nat : Candidate(word, range) = word % TwoPower[j]
  <1>1. PICK k \in Nat : W = k + 1 /\ W - 1 = k
    <2>1. W - 1 \in Nat /\ W = (W - 1) + 1
      BY WordSize
    <2> QED BY <2>1
  <1>2. PICK p \in Nat : p = TwoPower[k]
    BY TwoPowerFacts
  <1>3. range \in 1..TwoPower[W]
    BY <1>1, <1>2, TwoPowerFacts
  <1>4. PICK j \in 0..W : /\ Mask(range) = 0..j - 1 /\ range <= TwoPower[j]
                          /\ j <= W - 1
    <2>1. range <= TwoPower[W - 1]
      BY <1>1, <1>2
    <2> QED BY <1>3, <2>1, MaskForm, Zenon
  <1>5. j \in 0..W - 1 /\ TwoPower[j] <= p /\ TwoPower[j] \in Nat
    <2>1. j \in Nat /\ j \in 0..k
      BY <1>1, <1>4
    <2>2. TwoPower[j] \in Nat
      BY <2>1, TwoPowerFacts
    <2>3. TwoPower[j] <= TwoPower[k]
      BY <2>1, TwoPowerGrows
    <2> QED BY <1>1, <1>2, <2>1, <2>2, <2>3
  <1>6. ASSUME NEW word
        PROVE  /\ Candidate(word, range) = Number(Bits(word) \cap (0..j - 1))
               /\ Candidate(word, range) \in Nat
    <2>1. PICK bits : bits = Bits(word) \cap (0..j - 1)
      OBVIOUS
    <2>2. Number(bits) \in 0..TwoPower[j] - 1
      <3>1. bits \subseteq 0..j - 1
        BY <2>1
      <3> QED BY <3>1, NumberBound
    <2>3. ~(Number(bits) >= TwoPower[W - 1])
      BY <1>1, <1>2, <1>5, <2>2
    <2>4. Signed(Number(bits)) = Number(bits)
      BY <2>3 DEF Signed
    <2>5. Candidate(word, range) = Number(bits)
      BY <1>4, <2>1, <2>4, Zenon DEF Candidate
    <2> QED BY <2>1, <2>2, <2>5
  <1>7. ASSUME NEW word \in Nat
        PROVE  Candidate(word, range) = word % TwoPower[j]
    BY <1>6, NumberResidue
  <1> QED BY <1>4, <1>5, <1>6, <1>7

-----------------------------------------------------------------------------
(* Shuffles.                                                               *)

Arrays == [1..Size -> 1..Size]

Permutation(arr) ==
    /\ arr \in Arrays
    /\ \A i, j \in 1..Size : arr[i] = arr[j] => i = j
    /\ \A e \in 1..Size : \E i \in 1..Size : arr[i] = e

LEMMA ArraySize == Size \in Nat \ {0}
  BY StreamAssumption

Swapped(new, arr, i, j) ==
    /\ Permutation(new)
    /\ new[i] = arr[j]
    /\ \A k \in 1..Size : k # i /\ k # j => new[k] = arr[k]

LEMMA SwapPermutes ==
    ASSUME NEW arr, Permutation(arr), NEW i \in 1..Size, NEW j \in 1..Size,
           NEW new, new = Swap(arr, i, j)
    PROVE  Swapped(new, arr, i, j)
  <1>1. arr \in Arrays
    BY DEF Permutation
  <1>2. new \in Arrays
    BY <1>1 DEF Swap, Arrays
  <1>3. /\ new[i] = arr[j] /\ new[j] = arr[i]
        /\ \A k \in 1..Size : k # i /\ k # j => new[k] = arr[k]
    BY <1>1 DEF Swap, Arrays
  <1> DEFINE from(k) == IF k = i THEN j ELSE IF k = j THEN i ELSE k
  <1>4. \A k \in 1..Size : from(k) \in 1..Size /\ new[k] = arr[from(k)]
    BY <1>3
  <1>5. \A k, l \in 1..Size : from(k) = from(l) => k = l
    OBVIOUS
  <1>6. \A k \in 1..Size : from(from(k)) = k
    OBVIOUS
  <1> HIDE DEF from
  <1>7. ASSUME NEW k \in 1..Size, NEW l \in 1..Size, new[k] = new[l] PROVE k = l
    <2>1. arr[from(k)] = arr[from(l)] /\ from(k) \in 1..Size /\ from(l) \in 1..Size
      BY <1>4, <1>7
    <2>2. from(k) = from(l)
      BY <2>1 DEF Permutation
    <2> QED BY <1>5, <2>2
  <1>8. ASSUME NEW e \in 1..Size PROVE \E k \in 1..Size : new[k] = e
    <2>1. PICK k \in 1..Size : arr[k] = e
      BY DEF Permutation
    <2>2. new[from(k)] = e
      BY <1>4, <1>6, <2>1
    <2> QED BY <1>4, <2>2
  <1>9. Permutation(new)
    BY <1>2, <1>7, <1>8 DEF Permutation
  <1> QED BY <1>3, <1>9 DEF Swapped

ShuffleBody(js, g, k) ==
    IF k = 0 THEN [i \in 1..Size |-> i] ELSE Swap(g[k - 1], Size + 1 - k, js[k])

IsShuffle(js, g) ==
    /\ \A k \in 0..Size - 1 : Permutation(g[k])
    /\ g[0] = [i \in 1..Size |-> i]
    /\ \A k \in 0..Size - 2 : g[k + 1] = Swap(g[k], Size - k, js[k + 1])

LEMMA ChoiceFacts ==
    ASSUME NEW js \in PartnerChoices
    PROVE  /\ js \in [1..Size - 1 -> 1..Size]
           /\ Len(js) = Size - 1
           /\ \A k \in 0..Size - 2 : js[k + 1] \in 1..Size - k
  <1>1. /\ js \in [1..Size - 1 -> 1..Size]
        /\ \A k \in 1..Size - 1 : js[k] \in 1..Size + 1 - k
    BY DEF PartnerChoices, Partners
  <1>2. PICK n \in Nat : n = Size - 1
    BY ArraySize
  <1>3. Len(js) = n
    <2>1. js \in [1..n -> 1..Size]
      BY <1>1, <1>2
    <2> QED BY <2>1
  <1>4. ASSUME NEW k \in 0..Size - 2 PROVE js[k + 1] \in 1..Size - k
    <2>1. k + 1 \in 1..Size - 1 /\ Size + 1 - (k + 1) = Size - k
      BY ArraySize
    <2> QED BY <1>1, <2>1
  <1> QED BY <1>1, <1>2, <1>3, <1>4

LEMMA ShuffleLoop ==
    ASSUME NEW js \in PartnerChoices
    PROVE  \E g : IsShuffle(js, g) /\ Shuffled(js) = g[Size - 1]
  <1> DEFINE V == {arr \in Arrays : Permutation(arr)}
             base == [i \in 1..Size |-> i]
             go(k, arr) == IF k \in 0..Size - 2
                           THEN Swap(arr, Size - k, js[k + 1]) ELSE arr
             step == [ka \in Nat \X V |-> go(ka[1], ka[2])]
             n == Size - 1
             Is(g) == g = [k \in 0..Len(js) |-> ShuffleBody(js, g, k)]
             c == CHOOSE g : Is(g)
  <1>1. n \in Nat /\ n - 1 = Size - 2
    BY ArraySize
  <1>2. Len(js) = n /\ \A k \in 0..Size - 2 : js[k + 1] \in 1..Size - k
    BY ChoiceFacts
  <1>3. base \in V
    BY DEF Arrays, Permutation
  <1>4. \A k \in 0..Size - 2 : Size - k \in 1..Size /\ js[k + 1] \in 1..Size
    BY <1>2, ArraySize
  <1>5. ASSUME NEW k \in Nat, NEW arr \in V PROVE go(k, arr) \in V
    <2>1. Permutation(arr)
      OBVIOUS
    <2>2. CASE k \in 0..Size - 2
      <3>1. PICK new : new = Swap(arr, Size - k, js[k + 1])
        OBVIOUS
      <3>2. Permutation(new)
        BY <1>4, <2>1, <2>2, <3>1, SwapPermutes, Zenon DEF Swapped
      <3>3. new \in V
        BY <3>2 DEF Permutation
      <3> QED BY <2>2, <3>1, <3>3
    <2>3. CASE k \notin 0..Size - 2
      BY <2>3
    <2> QED BY <2>2, <2>3
  <1>6. step \in [Nat \X V -> V]
    <2> HIDE DEF go, V
    <2> QED BY <1>5
  <1>7. \A arr \in V : Permutation(arr)
    OBVIOUS
  <1> HIDE DEF V, base, n
  <1>8. PICK g \in [0..n -> V] : IsRun(g, n, base, step)
    <2> HIDE DEF step
    <2> QED BY <1>1, <1>3, <1>6, RunExists, Zenon
  <1>9. g[0] = base
    BY <1>8 DEF IsRun
  <1>10. ASSUME NEW k \in 0..n - 1
         PROVE  g[k + 1] = Swap(g[k], Size - k, js[k + 1])
    <2>1. k \in Nat /\ k \in 0..n /\ k \in 0..Size - 2
      BY <1>1
    <2>2. step[<<k, g[k]>>] = go(k, g[k])
      <3> HIDE DEF go
      <3> QED BY <2>1
    <2>3. go(k, g[k]) = Swap(g[k], Size - k, js[k + 1])
      BY <2>1
    <2> HIDE DEF step, go
    <2> QED BY <1>8, <2>2, <2>3 DEF IsRun
  <1> HIDE DEF step, go
  <1>11. Is(g)
    <2>1. ASSUME NEW k \in 0..n PROVE g[k] = ShuffleBody(js, g, k)
      <3>1. CASE k = 0
        BY <1>9, <3>1 DEF ShuffleBody, base
      <3>2. CASE k # 0
        <4>1. PICK j \in 0..n - 1 : k = j + 1
          <5>1. k - 1 \in 0..n - 1 /\ k = (k - 1) + 1
            BY <1>1, <3>2
          <5> QED BY <5>1
        <4>2. k - 1 = j /\ Size + 1 - k = Size - j
          BY <4>1, ArraySize
        <4>3. ShuffleBody(js, g, k) = Swap(g[j], Size - j, js[k])
          BY <3>2, <4>2, Zenon DEF ShuffleBody
        <4> QED BY <1>10, <4>1, <4>3
      <3> QED BY <3>1, <3>2
    <2>2. g = [k \in 0..n |-> g[k]]
      OBVIOUS
    <2>3. g = [k \in 0..n |-> ShuffleBody(js, g, k)]
      BY <2>1, <2>2, Zenon
    <2> QED BY <1>2, <2>3
  <1>12. Is(c)
    BY <1>11, Zenon
  <1>13. Shuffled(js) = c[Len(js)]
    BY Zenon DEF Shuffled, ShuffleBody
  <1>14. \A k \in 0..n : c[k] = ShuffleBody(js, c, k)
    <2> HIDE DEF c
    <2>1. \A k \in 0..Len(js) : c[k] = ShuffleBody(js, c, k)
      BY <1>12, Zenon
    <2> QED BY <1>2, <2>1
  <1> HIDE DEF c, Is
  <1>15. c[0] = g[0]
    <2>1. 0 \in 0..n
      BY <1>1
    <2>2. ShuffleBody(js, c, 0) = base
      BY DEF ShuffleBody, base
    <2> QED BY <1>9, <1>14, <2>1, <2>2
  <1>16. \A k \in 0..n - 1 : c[k] = g[k] => c[k + 1] = g[k + 1]
    <2> SUFFICES ASSUME NEW k \in 0..n - 1, c[k] = g[k] PROVE c[k + 1] = g[k + 1]
      OBVIOUS
    <2>1. /\ k + 1 \in 0..n /\ k + 1 # 0 /\ (k + 1) - 1 = k
          /\ Size + 1 - (k + 1) = Size - k
      BY <1>1, ArraySize
    <2>2. ShuffleBody(js, c, k + 1) = Swap(c[k], Size - k, js[k + 1])
      BY <2>1, Zenon DEF ShuffleBody
    <2>3. /\ c[k + 1] = ShuffleBody(js, c, k + 1)
          /\ g[k + 1] = Swap(g[k], Size - k, js[k + 1])
      BY <1>10, <1>14, <2>1, Zenon
    <2> QED BY <2>2, <2>3, Zenon
  <1>17. \A k \in 0..n : c[k] = g[k]
    <2>1. StepsAgree(c, g, n)
      BY <1>15, <1>16, Zenon DEF StepsAgree
    <2>2. n \in Nat
      BY <1>1
    <2>3. Same(c, g, n)
      BY <2>1, <2>2, RunsAgree, Zenon
    <2> QED BY <2>3, Zenon DEF Same
  <1>18. Shuffled(js) = g[n]
    BY <1>1, <1>2, <1>13, <1>17
  <1>19. IsShuffle(js, g)
    <2>1. \A k \in 0..n : Permutation(g[k])
      BY <1>7
    <2> QED BY <1>1, <1>9, <1>10, <2>1 DEF IsShuffle, n, base
  <1> QED BY <1>18, <1>19 DEF n

\* A position that has been swapped is not touched again.
LEMMA Settled ==
    ASSUME NEW js \in PartnerChoices, NEW g, IsShuffle(js, g),
           NEW k \in 0..Size - 1, NEW t \in 1..Size, t > Size - k
    PROVE  g[Size - 1][t] = g[k][t]
  <1>1. PICK n \in Nat : n = Size - 1 /\ Size = n + 1
    <2>1. Size - 1 \in Nat /\ Size = (Size - 1) + 1
      BY ArraySize
    <2> QED BY <2>1
  <1> DEFINE T == {i \in Nat : t > Size - (n - i) => g[n][t] = g[n - i][t]}
  <1>2. 0 \in T
    <2>1. n - 0 = n
      OBVIOUS
    <2> QED BY <2>1
  <1>3. ASSUME NEW i \in 0..n - 1, i \in T PROVE i + 1 \in T
    <2> SUFFICES ASSUME t > Size - (n - (i + 1))
                 PROVE  g[n][t] = g[n - (i + 1)][t]
      OBVIOUS
    <2>1. PICK m \in 0..n - 1 : m = n - (i + 1) /\ n - i = m + 1
      <3>1. n - (i + 1) \in 0..n - 1 /\ n - i = (n - (i + 1)) + 1
        OBVIOUS
      <3> QED BY <3>1
    <2>2. t > Size - m /\ t > Size - (m + 1)
      BY <1>1, <2>1
    <2>3. g[n][t] = g[m + 1][t]
      BY <1>3, <2>1, <2>2
    <2>4. m \in 0..Size - 2 /\ m \in 0..Size - 1
      BY <1>1
    <2>5. PICK q : q = js[m + 1]
      OBVIOUS
    <2>6. q \in 1..Size - m
      BY <2>4, <2>5, ChoiceFacts
    <2>7. g[m + 1] = Swap(g[m], Size - m, q) /\ Permutation(g[m])
      BY <2>4, <2>5 DEF IsShuffle
    <2>8. Size - m \in 1..Size /\ q \in 1..Size /\ t # Size - m /\ t # q
      BY <1>1, <2>2, <2>6
    <2>9. Swapped(g[m + 1], g[m], Size - m, q)
      BY <2>7, <2>8, SwapPermutes, Zenon
    <2>10. g[m + 1][t] = g[m][t]
      BY <2>8, <2>9, Zenon DEF Swapped
    <2> QED BY <2>1, <2>3, <2>10
  <1>4. n - k \in 0..n /\ n - (n - k) = k
    BY <1>1
  <1>5. n - k \in T
    <2> HIDE DEF T
    <2>1. 0..n \subseteq T
      BY <1>2, <1>3, UpTo
    <2> QED BY <1>4, <2>1
  <1> QED BY <1>1, <1>4, <1>5

\* Different partners make different arrays.
LEMMA ShuffleInjective ==
    ASSUME NEW js \in PartnerChoices, NEW ks \in PartnerChoices,
           Shuffled(js) = Shuffled(ks)
    PROVE  js = ks
  <1>1. PICK g : IsShuffle(js, g) /\ Shuffled(js) = g[Size - 1]
    BY ShuffleLoop
  <1>2. PICK h : IsShuffle(ks, h) /\ Shuffled(ks) = h[Size - 1]
    BY ShuffleLoop
  <1>3. PICK n \in Nat : n = Size - 1 /\ Size = n + 1
    <2>1. Size - 1 \in Nat /\ Size = (Size - 1) + 1
      BY ArraySize
    <2> QED BY <2>1
  <1> DEFINE T == {k \in 0..n : g[k] = h[k] /\ \A m \in 1..k : js[m] = ks[m]}
  <1>4. 0 \in T
    <2>1. g[0] = h[0]
      BY <1>1, <1>2 DEF IsShuffle
    <2> QED BY <2>1
  <1>5. ASSUME NEW k \in 0..n - 1, k \in T PROVE k + 1 \in T
    <2>1. k \in 0..Size - 2 /\ k \in 0..Size - 1 /\ k + 1 \in 0..Size - 1
      BY <1>3
    <2>2. PICK a, p, q : a = g[k] /\ p = js[k + 1] /\ q = ks[k + 1]
      OBVIOUS
    <2>3. a = h[k]
      BY <1>5, <2>2
    <2>4. p \in 1..Size - k /\ q \in 1..Size - k
      BY <2>1, <2>2, ChoiceFacts
    <2>5. PICK t \in 1..Size : t = Size - k
      BY <1>3
    <2>6. p \in 1..Size /\ q \in 1..Size
      BY <1>3, <2>4
    <2>7. /\ g[k + 1] = Swap(a, t, p) /\ h[k + 1] = Swap(a, t, q)
          /\ Permutation(a)
      BY <1>1, <1>2, <2>1, <2>2, <2>3, <2>5 DEF IsShuffle
    <2>8. g[k + 1][t] = a[p] /\ h[k + 1][t] = a[q]
      <3>1. Swapped(g[k + 1], a, t, p) /\ Swapped(h[k + 1], a, t, q)
        BY <2>6, <2>7, SwapPermutes, Zenon
      <3> QED BY <3>1, Zenon DEF Swapped
    <2>9. t > Size - (k + 1)
      BY <1>3, <2>5
    <2>10. g[Size - 1][t] = g[k + 1][t] /\ h[Size - 1][t] = h[k + 1][t]
      BY <1>1, <1>2, <2>1, <2>9, Settled
    <2>11. a[p] = a[q]
      BY <1>1, <1>2, <2>8, <2>10
    <2>12. p = q
      BY <2>6, <2>7, <2>11 DEF Permutation
    <2>13. \A m \in 1..k + 1 : js[m] = ks[m]
      <3>1. \A m \in 1..k + 1 : m \in 1..k \/ m = k + 1
        OBVIOUS
      <3> QED BY <1>5, <2>2, <2>12, <3>1
    <2> QED BY <2>7, <2>12, <2>13
  <1>6. \A m \in 1..n : js[m] = ks[m]
    <2>1. n \in T
      <3> HIDE DEF T
      <3>1. 0..n \subseteq T
        BY <1>4, <1>5, UpTo
      <3> QED BY <3>1
    <2> QED BY <2>1
  <1>7. js \in [1..n -> 1..Size] /\ ks \in [1..n -> 1..Size]
    BY <1>3, ChoiceFacts
  <1> QED BY <1>6, <1>7

\* An array that some partners make is a permutation, and no others make it.
LEMMA ShuffleOnce ==
    ASSUME NEW js \in PartnerChoices, NEW arr, arr = Shuffled(js)
    PROVE  /\ {arr[i] : i \in 1..Size} = 1..Size
           /\ Cardinality({ks \in PartnerChoices : Shuffled(ks) = arr}) = 1
  <1>1. Permutation(arr)
    <2>1. PICK g : IsShuffle(js, g) /\ Shuffled(js) = g[Size - 1]
      BY ShuffleLoop
    <2>2. Size - 1 \in 0..Size - 1
      BY ArraySize
    <2> QED BY <2>1, <2>2 DEF IsShuffle
  <1>2. {arr[i] : i \in 1..Size} = 1..Size
    <2>1. \A i \in 1..Size : arr[i] \in 1..Size
      BY <1>1 DEF Permutation, Arrays
    <2>2. \A e \in 1..Size : \E i \in 1..Size : arr[i] = e
      BY <1>1 DEF Permutation
    <2> QED BY <2>1, <2>2
  <1>3. {ks \in PartnerChoices : Shuffled(ks) = arr} = {js}
    BY ShuffleInjective
  <1>4. Cardinality({js}) = 1
    BY FS_Singleton
  <1> QED BY <1>2, <1>3, <1>4

-----------------------------------------------------------------------------
(* How often a value is drawn.                                             *)

\* Of as many blocks of p words, each has the residues of a set once.
LEMMA ResidueCount ==
    ASSUME NEW p \in Nat \ {0}, NEW n \in Nat \ {0},
           NEW Res, Res \subseteq 0..p - 1, IsFiniteSet(Res)
    PROVE  LET Words == {word \in 0..p * n - 1 : word % p \in Res}
           IN  Cardinality(Words) = Cardinality(Res) * n
  <1> DEFINE Words == {word \in 0..p * n - 1 : word % p \in Res}
             Pairs == Res \X (0..n - 1)
             word(rq) == p * rq[2] + rq[1]
             f == [rq \in Pairs |-> word(rq)]
  <1>1. p * n \in Nat
    OBVIOUS
  <1>2. ASSUME NEW r \in Res, NEW q \in 0..n - 1, NEW a, a = p * q + r
        PROVE  /\ a \in 0..p * n - 1 /\ a \div p = q /\ a % p = r
    <2>1. r \in 0..p - 1 /\ q \in Nat
      OBVIOUS
    <2>2. p * q <= p * n - p
      <3>1. p * q <= p * (n - 1)
        OBVIOUS
      <3>2. p * (n - 1) = p * n - p
        OBVIOUS
      <3> QED BY <3>1, <3>2
    <2>3. p * q \in Nat
      OBVIOUS
    <2>4. a \in 0..p * n - 1
      BY <1>1, <1>2, <2>1, <2>2, <2>3
    <2>5. a \in Nat
      BY <2>4
    <2> QED BY <1>2, <2>1, <2>4, <2>5, DivUnique
  <1>3. \A rq \in Pairs : /\ word(rq) \in Words
                          /\ word(rq) \div p = rq[2] /\ word(rq) % p = rq[1]
    <2>1. ASSUME NEW rq \in Pairs
          PROVE  /\ word(rq) \in Words
                 /\ word(rq) \div p = rq[2] /\ word(rq) % p = rq[1]
      <3>1. PICK r \in Res, q \in 0..n - 1 : r = rq[1] /\ q = rq[2]
        OBVIOUS
      <3>2. PICK a : a = p * q + r
        OBVIOUS
      <3>3. a \in 0..p * n - 1 /\ a \div p = q /\ a % p = r
        BY <1>2, <3>2
      <3>4. word(rq) = a
        BY <3>1, <3>2
      <3> HIDE DEF word
      <3> QED BY <3>1, <3>3, <3>4
    <2> QED BY <2>1
  <1> HIDE DEF word
  <1>4. f \in [Pairs -> Words]
    BY <1>3
  <1>5. ASSUME NEW a \in Pairs, NEW b \in Pairs, f[a] = f[b] PROVE a = b
    <2>1. word(a) = word(b)
      BY <1>5
    <2>2. a[1] = b[1] /\ a[2] = b[2]
      BY <1>3, <2>1
    <2> QED BY <2>2
  <1>6. ASSUME NEW w \in Words PROVE \E rq \in Pairs : f[rq] = w
    <2>1. w \in Nat /\ w < p * n /\ w % p \in Res
      BY <1>1
    <2>2. PICK d \in Nat, r \in 0..p - 1 : d = w \div p /\ r = w % p /\ w = p * d + r
      BY <2>1, Division
    <2>3. d < n
      <3> SUFFICES ASSUME d >= n PROVE FALSE
        OBVIOUS
      <3>1. PICK e \in Nat : d = n + e
        <4>1. d - n \in Nat /\ d = n + (d - n)
          OBVIOUS
        <4> QED BY <4>1
      <3>2. p * d = p * n + p * e /\ p * e \in Nat /\ p * d \in Nat
        BY <3>1
      <3> QED BY <1>1, <2>1, <2>2, <3>2
    <2>4. <<r, d>> \in Pairs
      BY <2>1, <2>2, <2>3
    <2>5. word(<<r, d>>) = w
      BY <2>2 DEF word
    <2>6. f[<<r, d>>] = w
      BY <2>4, <2>5
    <2> HIDE DEF f, Pairs
    <2> QED BY <2>4, <2>6, Zenon
  <1> HIDE DEF f
  <1>7. ExistsBijection(Pairs, Words)
    <2> HIDE DEF Pairs, Words
    <2>1. f \in Bijection(Pairs, Words)
      <3>1. \A a, b \in Pairs : f[a] = f[b] => a = b
        BY <1>5, Zenon
      <3>2. \A w \in Words : \E rq \in Pairs : f[rq] = w
        BY <1>6, Zenon
      <3> QED BY <1>4, <3>1, <3>2, Fun_IsBij, Zenon
    <2> QED BY <2>1 DEF ExistsBijection
  <1>8. n - 1 \in Int /\ IsFiniteSet(0..n - 1) /\ Cardinality(0..n - 1) = n
    <2>1. 0 \in Int /\ n - 1 \in Int /\ ~(0 > n - 1) /\ (n - 1) - 0 + 1 = n
      OBVIOUS
    <2>2. IsFiniteSet(0..n - 1) /\ Cardinality(0..n - 1) = (n - 1) - 0 + 1
      BY <2>1, FS_Interval
    <2> QED BY <2>1, <2>2
  <1>9. IsFiniteSet(Pairs) /\ Cardinality(Pairs) = Cardinality(Res) * n
    BY <1>8, FS_Product
  <1> HIDE DEF Pairs, Words
  <1>10. Cardinality(Words) = Cardinality(Pairs)
    BY <1>7, <1>9, FS_Bijection, Zenon
  <1> QED BY <1>9, <1>10 DEF Words

Draws(drawn, range) ==
    drawn = [word \in 0..TwoPower[W] - 1 |-> Candidate(word, range)]

Accepted(accepted, drawn, range) ==
    accepted = {word \in DOMAIN drawn : Accepts(drawn[word], range)}

Evenly(drawn, accepted, range) ==
    /\ {drawn[word] : word \in accepted} = 0..range - 1
    /\ \A v \in 0..range - 1 :
          Cardinality({word \in accepted : drawn[word] = v}) * range
              = Cardinality(accepted)

\* Every value of a range up to half of the words is drawn equally often.
LEMMA EqualChances ==
    ASSUME NEW range \in 1..TwoPower[W - 1], NEW drawn, Draws(drawn, range),
           NEW accepted, Accepted(accepted, drawn, range)
    PROVE  Evenly(drawn, accepted, range)
  <1>0. /\ drawn = [word \in 0..TwoPower[W] - 1 |-> Candidate(word, range)]
        /\ accepted = {word \in DOMAIN drawn : Accepts(drawn[word], range)}
    BY DEF Draws, Accepted
  <1>1. PICK w \in Nat \ {0} : w = W
    BY WordSize
  <1>2. PICK j \in 0..W - 1 :
            /\ range <= TwoPower[j]
            /\ \A word \in Nat : Candidate(word, range) = word % TwoPower[j]
    BY CandidateForm
  <1>3. PICK k \in Nat : w = j + k
    <2>1. w - j \in Nat /\ w = j + (w - j)
      BY <1>1
    <2> QED BY <2>1
  <1>4. PICK p \in Nat \ {0}, n \in Nat \ {0} :
            p = TwoPower[j] /\ n = TwoPower[k] /\ TwoPower[W] = p * n
    <2>1. j \in Nat
      BY <1>1
    <2>2. TwoPower[j + k] = TwoPower[j] * TwoPower[k]
      BY <2>1, TwoPowerSum
    <2>3. TwoPower[W] = TwoPower[j] * TwoPower[k]
      BY <1>1, <1>3, <2>2
    <2>4. TwoPower[j] \in Nat \ {0} /\ TwoPower[k] \in Nat \ {0}
      BY <2>1, TwoPowerFacts
    <2> QED BY <2>3, <2>4
  <1>5. PICK m \in Nat \ {0} : m = range /\ m <= p
    <2>0. W - 1 \in Nat
      BY <1>1
    <2>1. TwoPower[W - 1] \in Nat
      BY <2>0, TwoPowerFacts
    <2> QED BY <1>2, <1>4, <2>1
  <1>6. p * n \in Nat /\ p <= p * n
    OBVIOUS
  <1>7. DOMAIN drawn = 0..p * n - 1
    BY <1>0, <1>4
  <1>8. \A word \in 0..p * n - 1 :
            drawn[word] = word % p /\ word % p \in 0..p - 1 /\ word \in Nat
    <2>1. ASSUME NEW word \in 0..p * n - 1
          PROVE  drawn[word] = word % p /\ word % p \in 0..p - 1 /\ word \in Nat
      <3>1. word \in Nat
        BY <1>6
      <3>2. drawn[word] = Candidate(word, range)
        BY <1>0, <1>4
      <3>3. word % p \in 0..p - 1
        BY <3>1, DivMod
      <3> QED BY <1>2, <1>4, <3>1, <3>2, <3>3
    <2> QED BY <2>1
  <1>9. accepted = {word \in 0..p * n - 1 : word % p \in 0..m - 1}
    <2>1. \A word \in 0..p * n - 1 :
              Accepts(drawn[word], range) <=> word % p \in 0..m - 1
      <3>1. \A r \in 0..p - 1 : r < m <=> r \in 0..m - 1
        BY <1>5
      <3> QED BY <1>5, <1>8, <3>1 DEF Accepts
    <2> QED BY <1>0, <1>7, <2>1
  <1>10. \A v \in 0..m - 1 : v \in 0..p * n - 1 /\ v % p = v
    <2>1. ASSUME NEW v \in 0..m - 1 PROVE v \in 0..p * n - 1 /\ v % p = v
      <3>1. v \in Nat /\ v \in 0..p - 1 /\ v \in 0..p * n - 1
        BY <1>5, <1>6
      <3>2. PICK z \in Int : z = 0
        OBVIOUS
      <3>3. v = p * z + v
        BY <3>1, <3>2
      <3> QED BY <3>1, <3>3, DivUnique
    <2> QED BY <2>1
  <1>11. {drawn[word] : word \in accepted} = 0..m - 1
    <2>1. \A word \in accepted : drawn[word] \in 0..m - 1
      BY <1>8, <1>9
    <2>2. \A v \in 0..m - 1 : v \in accepted /\ drawn[v] = v
      BY <1>8, <1>9, <1>10
    <2>3. PICK f, A, B : f = drawn /\ A = accepted /\ B = 0..m - 1
      OBVIOUS
    <2>4. (\A u \in A : f[u] \in B) /\ (\A v \in B : v \in A /\ f[v] = v)
      BY <2>1, <2>2, <2>3
    <2>5. {f[u] : u \in A} = B
      BY <2>4
    <2> QED BY <2>3, <2>5
  <1>12. Cardinality(accepted) = m * n
    <2>1. 0..m - 1 \subseteq 0..p - 1
      BY <1>5
    <2>2. IsFiniteSet(0..m - 1) /\ Cardinality(0..m - 1) = m
      <3>1. 0 \in Int /\ m - 1 \in Int /\ ~(0 > m - 1) /\ (m - 1) - 0 + 1 = m
        OBVIOUS
      <3>2. IsFiniteSet(0..m - 1) /\ Cardinality(0..m - 1) = (m - 1) - 0 + 1
        BY <3>1, FS_Interval
      <3> QED BY <3>1, <3>2
    <2>3. PICK Res : Res = 0..m - 1
      OBVIOUS
    <2>4. Res \subseteq 0..p - 1 /\ IsFiniteSet(Res)
      BY <2>1, <2>2, <2>3
    <2>5. Cardinality({word \in 0..p * n - 1 : word % p \in Res})
            = Cardinality(Res) * n
      BY <2>4, ResidueCount, Zenon
    <2> QED BY <1>9, <2>2, <2>3, <2>5
  <1>13. ASSUME NEW v \in 0..m - 1
         PROVE  Cardinality({word \in accepted : drawn[word] = v}) = n
    <2>1. v \in 0..p - 1
      BY <1>5
    <2>2. {word \in accepted : drawn[word] = v}
            = {word \in 0..p * n - 1 : word % p \in {v}}
      <3>1. \A word \in 0..p * n - 1 : word % p = v => word \in accepted
        BY <1>9
      <3>2. accepted \subseteq 0..p * n - 1
        BY <1>9
      <3> QED BY <1>8, <3>1, <3>2
    <2>3. PICK Res : Res = {v}
      OBVIOUS
    <2>4. Res \subseteq 0..p - 1 /\ IsFiniteSet(Res) /\ Cardinality(Res) = 1
      BY <2>1, <2>3, FS_Singleton
    <2>5. Cardinality({word \in 0..p * n - 1 : word % p \in Res})
            = Cardinality(Res) * n
      BY <2>4, ResidueCount, Zenon
    <2>6. 1 * n = n
      OBVIOUS
    <2> QED BY <2>2, <2>3, <2>4, <2>5, <2>6
  <1>14. n * m = m * n
    OBVIOUS
  <1> QED BY <1>5, <1>11, <1>12, <1>13, <1>14 DEF Evenly

-----------------------------------------------------------------------------
(* The steps of the streams.                                               *)

LEMMA CandidateType ==
    ASSUME NEW word, NEW range
    PROVE  Candidate(word, range) \in Int
  <1>1. PICK bits : bits = Bits(word) \cap Mask(range)
    OBVIOUS
  <1>2. PICK g : IsNumber(bits, g) /\ Number(bits) = g[W]
    BY NumberLoop
  <1>3. W \in Nat /\ W - 1 \in Nat /\ W \in 0..W
    BY WordSize
  <1>4. Number(bits) \in Nat
    BY <1>2, <1>3 DEF IsNumber
  <1>5. TwoPower[W] \in Nat /\ TwoPower[W - 1] \in Nat
    BY <1>3, TwoPowerFacts
  <1>6. Signed(Number(bits)) \in Int
    BY <1>4, <1>5 DEF Signed
  <1> QED BY <1>1, <1>6, Zenon DEF Candidate

LEMMA ReadStep ==
    ASSUME StreamInv, NEW i \in DOMAIN streams, NEW n \in Nat,
           NEW r \in Reads(i, n), Take(i, r)
    PROVE  /\ StreamTypeInv' /\ BufferInv' /\ BytesInv'
           /\ DOMAIN streams' = DOMAIN streams
  BY ReadsFacts, TakeStep, Zenon

LEMMA ForkedPath ==
    ASSUME StreamInv, NEW i \in DOMAIN streams, NEW labels \in Forks
    PROVE  streams[i].path \o labels \in Path
  <1>1. streams[i] \in StreamState
    BY DEF StreamInv, BufferInv, Buffered
  <1>2. streams[i].path \in Path
    BY <1>1 DEF StreamState
  <1>3. labels \in Path
    BY StreamAssumption DEF Path
  <1> QED BY <1>2, <1>3 DEF Path

LEMMA FloatStep ==
    ASSUME StreamInv, NEW i \in DOMAIN streams, NextFloat(i)
    PROVE  StreamInv'
  <1>1. 2 * WordBytes \in Nat
    BY StreamAssumption
  <1>2. PICK n \in Nat : n = 2 * WordBytes
    BY <1>1
  <1>3. PICK r \in Reads(i, n) : Take(i, r) /\ call'.kind = "float"
    BY <1>2 DEF NextFloat
  <1>4. StreamTypeInv' /\ BufferInv' /\ BytesInv'
    BY <1>3, ReadStep, Zenon
  <1>5. CallInv'
    BY <1>3 DEF CallInv
  <1> QED BY <1>4, <1>5 DEF StreamInv

LEMMA NextBytesStep ==
    ASSUME StreamInv, NEW i \in DOMAIN streams, NEW n \in ByteCounts,
           NextBytes(i, n)
    PROVE  StreamInv'
  <1>1. n \in Nat
    BY StreamAssumption
  <1>2. PICK r \in Reads(i, n) : Take(i, r)
    BY DEF NextBytes
  <1>3. StreamTypeInv' /\ BufferInv' /\ BytesInv'
    BY <1>1, <1>2, ReadStep, Zenon
  <1>4. CallInv'
    BY DEF NextBytes, CallInv, NoCall
  <1> QED BY <1>3, <1>4 DEF StreamInv

LEMMA StartStep ==
    ASSUME StreamInv, NEW i \in DOMAIN streams,
           \/ \E min, range : StartRange(i, min, range)
           \/ StartShuffle(i)
    PROVE  StreamInv'
  <1>1. UNCHANGED <<sha512, streams, given>>
    BY DEF StartRange, StartShuffle
  <1>2. CASE StartShuffle(i)
    <2>1. <<>> \in Seq(Int)
      OBVIOUS
    <2>2. call' = [kind |-> "shuffle", on |-> i, partners |-> <<>>]
      BY <1>2 DEF StartShuffle
    <2>3. call' \in [kind : {"shuffle"}, on : DOMAIN streams, partners : Seq(Int)]
      BY <2>1, <2>2
    <2>4. CallInv'
      BY <1>1, <2>2, <2>3 DEF CallInv
    <2> QED BY <1>1, <2>4, QuietStep, Zenon
  <1>3. CASE \E min, range : StartRange(i, min, range)
    <2>1. CallInv'
      BY <1>1, <1>3 DEF StartRange, CallInv
    <2> QED BY <1>1, <2>1, QuietStep, Zenon
  <1> QED BY <1>2, <1>3

LEMMA DrawStep ==
    ASSUME StreamInv, Draw
    PROVE  StreamInv'
  <1>1. call.kind = "range" /\ WordBytes \in Nat
    BY StreamAssumption DEF Draw
  <1>2. PICK i \in DOMAIN streams : i = call.on
    BY <1>1 DEF StreamInv, CallInv
  <1>3. PICK r \in Reads(i, WordBytes) :
            /\ Take(i, r)
            /\ call'.kind = "value" \/ call' = call
    BY <1>2 DEF Draw
  <1>4. /\ StreamTypeInv' /\ BufferInv' /\ BytesInv'
        /\ DOMAIN streams' = DOMAIN streams
    BY <1>1, <1>3, ReadStep, Zenon
  <1>5. CallInv'
    BY <1>1, <1>3, <1>4 DEF StreamInv, CallInv
  <1> QED BY <1>4, <1>5 DEF StreamInv

LEMMA DrawPartnerStep ==
    ASSUME StreamInv, DrawPartner
    PROVE  StreamInv'
  <1>1. call.kind = "shuffle" /\ WordBytes \in Nat
    BY StreamAssumption DEF DrawPartner
  <1>2. call \in [kind : {"shuffle"}, on : DOMAIN streams, partners : Seq(Int)]
    BY <1>1 DEF StreamInv, CallInv
  <1>3. PICK i \in DOMAIN streams : i = call.on
    BY <1>2
  <1>4. PICK r \in Reads(i, WordBytes) :
            /\ Take(i, r)
            /\ \E range, v :
                  /\ v = Candidate(Word(r.read.out), range)
                  /\ call' = IF Accepts(v, range)
                             THEN [call EXCEPT !.partners = Append(@, v + 1)]
                             ELSE call
    BY <1>3, Zenon DEF DrawPartner
  <1>5. PICK v : /\ v \in Int
                 /\ \/ call' = [call EXCEPT !.partners = Append(@, v + 1)]
                    \/ call' = call
    BY <1>4, CandidateType
  <1>6. /\ StreamTypeInv' /\ BufferInv' /\ BytesInv'
        /\ DOMAIN streams' = DOMAIN streams
    BY <1>1, <1>4, ReadStep, Zenon
  <1>7. call' \in [kind : {"shuffle"}, on : DOMAIN streams', partners : Seq(Int)]
    <2>1. CASE call' = call
      BY <1>2, <1>6, <2>1
    <2>2. CASE call' = [call EXCEPT !.partners = Append(@, v + 1)]
      <3>1. Append(call.partners, v + 1) \in Seq(Int)
        BY <1>2, <1>5
      <3> QED BY <1>2, <1>6, <2>2, <3>1
    <2> QED BY <1>5, <2>1, <2>2
  <1>8. CallInv'
    BY <1>7 DEF CallInv
  <1> QED BY <1>6, <1>8 DEF StreamInv

LEMMA FinishStep ==
    ASSUME StreamInv, FinishShuffle
    PROVE  StreamInv'
  <1>1. UNCHANGED <<sha512, streams, given>> /\ call'.kind = "array"
    BY DEF FinishShuffle
  <1>2. CallInv'
    BY <1>1 DEF CallInv
  <1> QED BY <1>1, <1>2, QuietStep, Zenon

LEMMA StreamBegins == StreamInit => StreamInv
  <1> SUFFICES ASSUME StreamInit PROVE StreamInv
    OBVIOUS
  <1>1. /\ sha512 = <<>> /\ streams = <<>> /\ given = <<>>
        /\ DOMAIN streams = {} /\ DOMAIN sha512 = {}
    BY DEF StreamInit
  <1>2. <<>> \in [{} -> Block]
    OBVIOUS
  <1>3. StreamTypeInv
    BY <1>1, <1>2 DEF StreamTypeInv, Oracle
  <1>4. BufferInv /\ BytesInv
    BY <1>1 DEF BufferInv, BytesInv
  <1>5. CallInv
    BY DEF StreamInit, CallInv, NoCall
  <1> QED BY <1>3, <1>4, <1>5 DEF StreamInv

LEMMA StreamStep == StreamInv /\ [StreamNext]_streamVars => StreamInv'
  <1> SUFFICES ASSUME StreamInv, [StreamNext]_streamVars PROVE StreamInv'
    OBVIOUS
  <1>1. ASSUME NEW path \in Paths, Open(path) PROVE StreamInv'
    <2>1. path \in Path
      BY StreamAssumption DEF Path
    <2> QED BY <1>1, <2>1, OpenStep, Zenon
  <1>2. ASSUME NEW i \in DOMAIN streams, NEW labels \in Forks, fork(i, labels)
        PROVE  StreamInv'
    BY <1>2, ForkedPath, OpenStep, Zenon DEF fork
  <1>3. ASSUME NEW i \in DOMAIN streams, NEW n \in ByteCounts, NextBytes(i, n)
        PROVE  StreamInv'
    BY <1>3, NextBytesStep, Zenon
  <1>4. ASSUME NEW i \in DOMAIN streams, NextFloat(i) PROVE StreamInv'
    BY <1>4, FloatStep, Zenon
  <1>5. ASSUME NEW i \in DOMAIN streams,
               \/ \E min \in Mins, range \in Ranges : StartRange(i, min, range)
               \/ Pick(i)
               \/ StartShuffle(i)
        PROVE  StreamInv'
    BY <1>5, StartStep, Zenon DEF Pick
  <1>6. ASSUME Draw PROVE StreamInv'
    BY <1>6, DrawStep, Zenon
  <1>7. ASSUME DrawPartner PROVE StreamInv'
    BY <1>7, DrawPartnerStep, Zenon
  <1>8. ASSUME FinishShuffle PROVE StreamInv'
    BY <1>8, FinishStep, Zenon
  <1>9. ASSUME UNCHANGED streamVars PROVE StreamInv'
    <2>1. UNCHANGED <<sha512, streams, given>> /\ call' = call
      BY <1>9 DEF streamVars
    <2>2. CallInv'
      BY <2>1 DEF StreamInv, CallInv
    <2> QED BY <2>1, <2>2, QuietStep, Zenon
  <1> QED BY <1>1, <1>2, <1>3, <1>4, <1>5, <1>6, <1>7, <1>8, <1>9, Zenon
          DEF StreamNext

\* Every stream stands, after any calls, at the end of the bytes it handed out:
\* its buffer is the last block of its path, and what it handed out is the
\* beginning of the blocks laid end to end.
THEOREM StreamInvariant == StreamSpec => []StreamInv
  <1>1. StreamInit => StreamInv
    BY StreamBegins
  <1>2. StreamInv /\ [StreamNext]_streamVars => StreamInv'
    BY StreamStep
  <1> QED BY <1>1, <1>2, PTL DEF StreamSpec

\* Whatever is called on whichever streams, in whatever sizes, no byte of a
\* stream is skipped, repeated or lost (nextBytes and refill of expand.ts).
THEOREM BytesOrdered == StreamSpec => []BytesInOrder
  <1>1. StreamInv => BytesInOrder
    <2> SUFFICES ASSUME StreamInv, NEW i \in DOMAIN streams
                 PROVE  /\ \A k \in DOMAIN given[i] :
                              given[i][k] = ByteAt(streams[i].path, k - 1)
                        /\ streams[i].blockIndex * BlockBytes
                              - (Len(streams[i].buf) - streams[i].bufOffset)
                                 = Len(given[i])
      BY DEF BytesInOrder
    <2>1. InOrder(given[i], 0, streams[i].path, sha512)
      BY DEF StreamInv, BytesInv
    <2>2. Position(streams[i]) = Len(given[i])
      BY DEF StreamInv, BytesInv
    <2>3. given[i] \in Seq(Byte) /\ DOMAIN given[i] = 1..Len(given[i])
      BY DEF StreamInv, StreamTypeInv
    <2>4. ASSUME NEW k \in 1..Len(given[i])
          PROVE  given[i][k] = ByteAt(streams[i].path, k - 1)
      <3>1. given[i][k] = HashByte(sha512, streams[i].path, 0 + k - 1)
        BY <2>1 DEF InOrder
      <3>2. 0 + k - 1 = k - 1
        OBVIOUS
      <3>3. given[i][k] = HashByte(sha512, streams[i].path, k - 1)
        BY <3>1, <3>2
      <3> QED BY <3>3, Zenon DEF HashByte, ByteAt
    <2> QED BY <2>2, <2>3, <2>4 DEF Position
  <1> QED BY <1>1, StreamInvariant, PTL

\* Streams under different paths read different blocks, whatever their labels
\* are and however they were forked (encodePath of expand.ts).
THEOREM PathsApart == StreamSpec => []PathsDoNotCollide
  <1>1. StreamInv => PathsDoNotCollide
    <2> SUFFICES ASSUME StreamInv, NEW i \in DOMAIN streams, NEW j \in DOMAIN streams,
                        NEW k \in 0..streams[i].blockIndex,
                        NEW l \in 0..streams[j].blockIndex,
                        BlockInput(streams[i].path, k) = BlockInput(streams[j].path, l)
                 PROVE  streams[i].path = streams[j].path
      BY DEF PathsDoNotCollide
    <2>1. streams[i] \in StreamState /\ streams[j] \in StreamState
      BY DEF StreamInv, BufferInv, Buffered
    <2>2. streams[i].path \in Path /\ streams[j].path \in Path
      BY <2>1 DEF StreamState
    <2>3. k \in Nat /\ l \in Nat
      OBVIOUS
    <2> QED BY <2>2, <2>3, BlockInputInjective
  <1> QED BY <1>1, StreamInvariant, PTL

-----------------------------------------------------------------------------
(* Ranges and shuffles in progress.                                        *)

\* Every range that is drawn from was asked for, or is that of a pick.
RangeInv == call.kind = "range" => call.range \in Ranges \cup {Size}

\* What a call that is not of the kind at hand leaves.
Elsewhere(kind) == call'.kind # kind \/ call' = call

LEMMA KindsOfSteps ==
    ASSUME StreamInv, [StreamNext]_streamVars
    PROVE  /\ \/ Elsewhere("range")
              \/ /\ call'.kind = "range"
                 /\ call'.range \in Ranges \cup {Size}
           /\ \/ Elsewhere("shuffle")
              \/ call'.kind = "shuffle" /\ call'.partners = <<>>
              \/ DrawPartner
           /\ Elsewhere("array") \/ FinishShuffle
  <1>1. ASSUME NEW i \in DOMAIN streams,
               \/ \E min \in Mins, range \in Ranges : StartRange(i, min, range)
               \/ Pick(i)
        PROVE  /\ call'.kind = "range"
               /\ call'.range \in Ranges \cup {Size}
    BY <1>1 DEF StartRange, Pick
  <1>2. ASSUME NEW i \in DOMAIN streams, StartShuffle(i)
        PROVE  call'.kind = "shuffle" /\ call'.partners = <<>>
    BY <1>2 DEF StartShuffle
  <1>3. ASSUME \/ \E path : Open(path)
               \/ \E i, n : NextBytes(i, n)
        PROVE  call'.kind = "none"
    BY <1>3 DEF Open, NextBytes, NoCall
  <1>4. ASSUME NEW i, NextFloat(i) PROVE call'.kind = "float"
    BY <1>4 DEF NextFloat
  <1>5. ASSUME Draw PROVE call'.kind = "value" \/ call' = call
    BY <1>5 DEF Draw
  <1>6. ASSUME DrawPartner PROVE call'.kind = "shuffle"
    BY <1>6 DEF DrawPartner, StreamInv, CallInv
  <1>7. ASSUME FinishShuffle PROVE call'.kind = "array"
    BY <1>7 DEF FinishShuffle
  <1>8. ASSUME UNCHANGED streamVars PROVE call' = call
    BY <1>8 DEF streamVars
  <1>9. \/ \E i \in DOMAIN streams :
            \/ \E min \in Mins, range \in Ranges : StartRange(i, min, range)
            \/ Pick(i)
        \/ \E i \in DOMAIN streams : StartShuffle(i)
        \/ \E path : Open(path)
        \/ \E i, n : NextBytes(i, n)
        \/ \E i : NextFloat(i)
        \/ Draw \/ DrawPartner \/ FinishShuffle \/ UNCHANGED streamVars
    BY Zenon DEF StreamNext, fork
  <1>10. CASE \E i \in DOMAIN streams :
                 \/ \E min \in Mins, range \in Ranges : StartRange(i, min, range)
                 \/ Pick(i)
    BY <1>1, <1>10 DEF Elsewhere
  <1>11. CASE \E i \in DOMAIN streams : StartShuffle(i)
    BY <1>2, <1>11 DEF Elsewhere
  <1>12. CASE \/ \E path : Open(path)
              \/ \E i, n : NextBytes(i, n)
    BY <1>3, <1>12 DEF Elsewhere
  <1>13. CASE \E i : NextFloat(i)
    BY <1>4, <1>13 DEF Elsewhere
  <1>14. CASE Draw \/ UNCHANGED streamVars
    BY <1>5, <1>8, <1>14 DEF Elsewhere
  <1>15. CASE DrawPartner
    BY <1>6, <1>15 DEF Elsewhere
  <1>16. CASE FinishShuffle
    BY <1>7, <1>16 DEF Elsewhere
  <1> QED BY <1>9, <1>10, <1>11, <1>12, <1>13, <1>14, <1>15, <1>16

\* For ranges up to half of the words, every integer of the range is drawn as
\* often as every other, over all words, and no other is (nextRange of
\* expand.ts).  Larger ranges are those of the finding: their mask has the bit
\* that the language's & makes a sign.
THEOREM DrawsAreUnbiased ==
    ASSUME Ranges \cup {Size} \subseteq 1..TwoPower[W - 1]
    PROVE  StreamSpec => []DrawsUnbiased
  <1>1. StreamInit => RangeInv
    BY DEF StreamInit, RangeInv, NoCall
  <1>2. StreamInv /\ RangeInv /\ [StreamNext]_streamVars => RangeInv'
    <2> SUFFICES ASSUME StreamInv, RangeInv, [StreamNext]_streamVars
                 PROVE  RangeInv'
      OBVIOUS
    <2>1. \/ Elsewhere("range")
          \/ call'.range \in Ranges \cup {Size}
      BY KindsOfSteps, Zenon
    <2> QED BY <2>1 DEF Elsewhere, RangeInv
  <1>3. RangeInv => DrawsUnbiased
    <2> SUFFICES ASSUME RangeInv, call.kind = "range" PROVE DrawsUnbiased
      BY DEF DrawsUnbiased
    <2>1. call.range \in 1..TwoPower[W - 1]
      BY DEF RangeInv
    <2> DEFINE drawn == [word \in 0..TwoPower[W] - 1 |-> Candidate(word, call.range)]
               accepted == {word \in DOMAIN drawn : Accepts(drawn[word], call.range)}
    <2>2. Draws(drawn, call.range) /\ Accepted(accepted, drawn, call.range)
      BY Zenon DEF Draws, Accepted
    <2>3. Evenly(drawn, accepted, call.range)
      <3> HIDE DEF drawn, accepted
      <3> QED BY <2>1, <2>2, EqualChances, Zenon
    <2> QED BY <2>3, Zenon DEF DrawsUnbiased, Evenly
  <1> QED BY <1>1, <1>2, <1>3, StreamInvariant, PTL DEF StreamSpec

\* The partners of a shuffle in progress are in their ranges, and an array was
\* made by such partners.
ChosenInv ==
    /\ call.kind = "shuffle" =>
          /\ Len(call.partners) <= Size - 1
          /\ \A k \in 1..Len(call.partners) :
                call.partners[k] \in Partners(Size + 1 - k)
    /\ call.kind = "array" => \E js \in PartnerChoices : call.arr = Shuffled(js)

LEMMA PartnerDrawn ==
    ASSUME Size \in 1..TwoPower[W - 1], NEW k \in 0..Size - 1,
           NEW range, range = Cardinality(Partners(Size - k)),
           NEW word, Accepts(Candidate(word, range), range)
    PROVE  Candidate(word, range) + 1 \in Partners(Size + 1 - (k + 1))
  <1>1. PICK m \in Nat \ {0} : m = Size - k /\ m = Size + 1 - (k + 1) /\ m <= Size
    BY ArraySize
  <1>2. range = m
    <2>1. 1 \in Int /\ m \in Int /\ ~(1 > m) /\ m - 1 + 1 = m
      OBVIOUS
    <2>2. Cardinality(1..m) = m - 1 + 1
      BY <2>1, FS_Interval
    <2> QED BY <1>1, <2>1, <2>2 DEF Partners
  <1>3. range \in 1..TwoPower[W - 1]
    <2>1. W - 1 \in Nat
      BY WordSize
    <2>2. TwoPower[W - 1] \in Nat
      BY <2>1, TwoPowerFacts
    <2> QED BY <1>1, <1>2, <2>2, ArraySize
  <1>4. Candidate(word, range) \in Nat
    BY <1>3, CandidateForm
  <1>5. Candidate(word, range) < m
    BY <1>2 DEF Accepts
  <1> QED BY <1>1, <1>4, <1>5 DEF Partners

LEMMA PartnerStep ==
    ASSUME Size \in 1..TwoPower[W - 1], StreamInv, ChosenInv, DrawPartner
    PROVE  ChosenInv'
  <1>1. call.kind = "shuffle" /\ Len(call.partners) < Size - 1
    BY DEF DrawPartner
  <1>2. call \in [kind : {"shuffle"}, on : DOMAIN streams, partners : Seq(Int)]
    BY <1>1 DEF StreamInv, CallInv
  <1>3. PICK n \in Nat, js \in Seq(Int) : js = call.partners /\ n = Len(js)
    BY <1>2
  <1>4. n < Size - 1 /\ \A k \in 1..n : js[k] \in Partners(Size + 1 - k)
    BY <1>1, <1>3 DEF ChosenInv
  <1>5. PICK range : range = Cardinality(Partners(Size - n))
    OBVIOUS
  <1>6. \E r : call' = IF Accepts(Candidate(Word(r.read.out), range), range)
                       THEN [call EXCEPT !.partners =
                                Append(@, Candidate(Word(r.read.out), range) + 1)]
                       ELSE call
    BY <1>3, <1>5, Zenon DEF DrawPartner
  <1>7. PICK word : call' = IF Accepts(Candidate(word, range), range)
                            THEN [call EXCEPT !.partners =
                                     Append(@, Candidate(word, range) + 1)]
                            ELSE call
    BY <1>6, Zenon
  <1>8. CASE call' = call
    BY <1>8 DEF ChosenInv
  <1>9. CASE Accepts(Candidate(word, range), range)
    <2>1. PICK j : j = Candidate(word, range) + 1
      OBVIOUS
    <2>2. n \in 0..Size - 1
      BY <1>4, ArraySize
    <2>3. j \in Partners(Size + 1 - (n + 1)) /\ j \in Int
      <3>1. j \in Partners(Size + 1 - (n + 1))
        BY <1>5, <1>9, <2>1, <2>2, PartnerDrawn
      <3> QED BY <2>1, <3>1, CandidateType
    <2>4. call' = [call EXCEPT !.partners = Append(@, j)]
      BY <1>7, <1>9, <2>1
    <2>5. call'.kind = "shuffle" /\ call'.partners = Append(js, j)
      BY <1>2, <1>3, <2>4
    <2>6. PICK ks : ks = Append(js, j)
      OBVIOUS
    <2>7. Len(ks) = n + 1 /\ ks[n + 1] = j /\ \A k \in 1..n : ks[k] = js[k]
      BY <1>3, <2>3, <2>6
    <2>8. Len(ks) <= Size - 1
      BY <1>4, <2>7, ArraySize
    <2>9. ASSUME NEW k \in 1..Len(ks) PROVE ks[k] \in Partners(Size + 1 - k)
      <3>1. k \in 1..n \/ k = n + 1
        BY <2>7
      <3> QED BY <1>4, <2>3, <2>7, <3>1
    <2> QED BY <2>5, <2>6, <2>8, <2>9 DEF ChosenInv
  <1> QED BY <1>7, <1>8, <1>9

LEMMA ArrayStep ==
    ASSUME StreamInv, ChosenInv, FinishShuffle
    PROVE  ChosenInv'
  <1>1. /\ call.kind = "shuffle" /\ Len(call.partners) = Size - 1
        /\ call' = [kind |-> "array", arr |-> Shuffled(call.partners)]
    BY DEF FinishShuffle
  <1>2. PICK js \in Seq(Int) : js = call.partners
    BY <1>1 DEF StreamInv, CallInv
  <1>3. \A k \in 1..Size - 1 : js[k] \in Partners(Size + 1 - k)
    BY <1>1, <1>2 DEF ChosenInv
  <1>4. js \in [1..Size - 1 -> 1..Size]
    <2>1. \A k \in 1..Size - 1 : js[k] \in 1..Size
      <3> SUFFICES ASSUME NEW k \in 1..Size - 1 PROVE js[k] \in 1..Size
        OBVIOUS
      <3>1. js[k] \in 1..Size + 1 - k
        BY <1>3 DEF Partners
      <3> QED BY <3>1, ArraySize
    <2>2. js \in [1..Len(js) -> Int] /\ Len(js) = Size - 1
      BY <1>1, <1>2
    <2> QED BY <2>1, <2>2
  <1>5. js \in PartnerChoices
    BY <1>3, <1>4 DEF PartnerChoices
  <1>6. call'.kind = "array" /\ call'.arr = Shuffled(js)
    BY <1>1, <1>2
  <1> QED BY <1>5, <1>6 DEF ChosenInv

\* For arrays of up to half as many elements as there are words, a shuffled
\* array is a permutation that one choice of partners makes, no more and no
\* fewer (shuffle of expand.ts).
THEOREM ShufflesAreUnbiased ==
    ASSUME Size \in 1..TwoPower[W - 1]
    PROVE  StreamSpec => []ShuffleUnbiased
  <1>1. StreamInit => ChosenInv
    BY DEF StreamInit, ChosenInv, NoCall
  <1>2. StreamInv /\ ChosenInv /\ [StreamNext]_streamVars => ChosenInv'
    <2> SUFFICES ASSUME StreamInv, ChosenInv, [StreamNext]_streamVars
                 PROVE  ChosenInv'
      OBVIOUS
    <2>1. CASE DrawPartner
      BY <2>1, PartnerStep
    <2>2. CASE FinishShuffle
      BY <2>2, ArrayStep
    <2>3. CASE ~DrawPartner /\ ~FinishShuffle
      <3>1. /\ Elsewhere("array")
            /\ \/ Elsewhere("shuffle")
               \/ call'.kind = "shuffle" /\ call'.partners = <<>>
        BY <2>3, KindsOfSteps, Zenon
      <3>2. Len(<<>>) = 0 /\ 0 <= Size - 1 /\ 1..0 = {}
        BY ArraySize
      <3> QED BY <3>1, <3>2 DEF Elsewhere, ChosenInv
    <2> QED BY <2>1, <2>2, <2>3
  <1>3. ChosenInv => ShuffleUnbiased
    BY ShuffleOnce, Zenon DEF ChosenInv, ShuffleUnbiased
  <1> QED BY <1>1, <1>2, <1>3, StreamInvariant, PTL DEF StreamSpec
=============================================================================
