------------------------ MODULE ExecuteBackendProofs ------------------------
(***************************************************************************)
(* Facts about the operators the units share, those of Bits,               *)
(* ExecuteBackend and TaggedQueue, that the proofs about the units rest    *)
(* on.  The provers leave 2^n uninterpreted: a lemma that needs something  *)
(* of a power of two takes it as a hypothesis.                             *)
(***************************************************************************)
EXTENDS ExecuteBackend, TaggedQueue, SequenceTheorems, WellFoundedInduction, TLAPS

-----------------------------------------------------------------------------
(* Induction.  The rule is about a set of naturals, as the provers do not  *)
(* instantiate one about a predicate.                                      *)

\* A set that holds zero and the successor of every natural it holds, holds them all.
LEMMA NaturalInduction ==
    ASSUME NEW S, 0 \in S, \A n \in Nat : n \in S => n + 1 \in S
    PROVE  \A n \in Nat : n \in S
<1> DEFINE R == OpToRel(<, Nat)
           T == {n \in Nat : n \notin S}
<1>1. CASE T = {}
  BY <1>1
<1>2. CASE T # {}
  <2>1. PICK x \in T : \A y \in T : <<y, x>> \notin R
    <3>1. IsWellFoundedOn(R, Nat)
      BY NatLessThanWellFounded
    <3> HIDE DEF R
    <3> QED
      BY <1>2, <3>1, WFMin
  <2>2. x # 0 /\ x - 1 \in Nat
    OBVIOUS
  <2>3. <<x - 1, x>> \in R
    BY <2>2 DEF OpToRel
  <2>4. x - 1 \in S
    BY <2>1, <2>2, <2>3
  <2> QED
    BY <2>2, <2>4
<1> QED
  BY <1>1, <1>2

-----------------------------------------------------------------------------
(* Bit vectors.                                                            *)

\* Truncation to w bits yields a w-bit vector.
LEMMA TruncateIsWord ==
    ASSUME NEW v \in Int, NEW w, 2^w \in Nat \ {0}
    PROVE  Truncate(v, w) \in Word(w)
  BY DEF Truncate, Word

\* Two's complement in w bits yields a w-bit vector.
LEMMA NegatedIsWord ==
    ASSUME NEW v \in Int, NEW w, 2^w \in Nat \ {0}
    PROVE  Negated(v, w) \in Word(w)
  BY TruncateIsWord DEF Negated, Word

\* A bit is zero or one.
LEMMA BitIsBinary ==
    ASSUME NEW v \in Int, NEW i, 2^i \in Nat \ {0}
    PROVE  Bit(v, i) \in {0, 1}
  BY DEF Bit

\* A vector is also one of a larger width.
LEMMA WordIsMonotone ==
    ASSUME NEW w, NEW x, 2^w \in Nat, 2^x \in Nat, 2^w <= 2^x
    PROVE  Word(w) \subseteq Word(x)
  BY DEF Word

\* Quotient and remainder reassemble the dividend.
LEMMA DivisionIsExact ==
    ASSUME NEW v \in Int, NEW m \in Nat \ {0}
    PROVE  /\ v \div m \in Int
           /\ v % m \in 0 .. m - 1
           /\ v = m * (v \div m) + (v % m)
  OBVIOUS

\* The quotient and the remainder, to be named.
LEMMA Division ==
    ASSUME NEW v \in Int, NEW m \in Nat \ {0}
    PROVE  \E q \in Int, r \in 0 .. m - 1 : q = v \div m /\ r = v % m /\ v = m * q + r
<1>1. v \div m \in Int /\ v % m \in 0 .. m - 1 /\ v = m * (v \div m) + (v % m)
  BY DivisionIsExact
<1> QED
  BY <1>1, Zenon

\* The remainder of a multiple of four by a multiple of four leaves room for two
\* more bits.
LEMMA RemainderOfFours ==
    ASSUME NEW v \in Int, NEW quarter \in Nat \ {0}
    PROVE  (v * 4) % (4 * quarter) <= 4 * quarter - 4
<1>1. PICK m \in Nat \ {0}, x \in Int : m = 4 * quarter /\ x = v * 4
  OBVIOUS
<1>2. PICK q \in Int, r \in 0 .. m - 1 : q = x \div m /\ r = x % m /\ x = m * q + r
  BY DivisionIsExact
<1>3. PICK p \in Int : p = quarter * q
  OBVIOUS
<1>4. m * q = 4 * p
  BY <1>1, <1>3
<1>5. r = 4 * (v - p)
  BY <1>1, <1>2, <1>4
<1> QED
  BY <1>1, <1>2, <1>5

\* Shifting two bits into the low end of a vector of at least two bits yields a
\* vector of its width.
LEMMA TwoBitsShiftedIn ==
    ASSUME NEW v \in Int, NEW w, NEW quarter \in Nat \ {0}, 2^w = 4 * quarter,
           NEW b \in 0 .. 3
    PROVE  Truncate(v * 4, w) + b \in Word(w)
<1>1. Truncate(v * 4, w) \in Word(w)
  BY TruncateIsWord
<1>2. Truncate(v * 4, w) <= 2^w - 4
  BY RemainderOfFours DEF Truncate
<1> QED
  BY <1>1, <1>2 DEF Word

\* A quotient and a remainder that reassemble a number are the ones it has.
LEMMA DivisionIsUnique ==
    ASSUME NEW m \in Nat \ {0}, NEW q \in Int, NEW r \in 0 .. m - 1
    PROVE  (m * q + r) \div m = q /\ (m * q + r) % m = r
<1>1. PICK v \in Int : v = m * q + r
  OBVIOUS
<1>2. PICK d \in Int, e \in 0 .. m - 1 : d = v \div m /\ e = v % m /\ v = m * d + e
  BY DivisionIsExact
<1>3. m * q + r = m * d + e
  BY <1>1, <1>2
<1>4. ASSUME NEW a \in Int, NEW b \in Int, a < b PROVE m * a + m <= m * b
  <2>1. PICK c \in Nat : b = a + 1 + c
    BY <1>4
  <2>2. m * b = m * a + m + m * c /\ m * c >= 0
    BY <2>1
  <2> QED
    BY <2>2
<1>5. ~(q < d) /\ ~(d < q)
  BY <1>3, <1>4
<1> QED
  BY <1>1, <1>2, <1>3, <1>5

\* A multiple of the modulus makes no difference to a remainder.
LEMMA RemainderOfSum ==
    ASSUME NEW m \in Nat \ {0}, NEW v \in Int, NEW k \in Int
    PROVE  (v + m * k) % m = v % m
<1>1. PICK q \in Int, r \in 0 .. m - 1 : q = v \div m /\ r = v % m /\ v = m * q + r
  BY Division, Zenon
<1>2. v + m * k = m * (q + k) + r /\ q + k \in Int
  BY <1>1
<1>3. (m * (q + k) + r) % m = r
  BY DivisionIsUnique
<1> QED
  BY <1>1, <1>2, <1>3

\* A remainder is kept by the remainder by a multiple.
LowerRemainder(v, m, n) == (v % (m * n)) % m = v % m

\* Nor does a remainder by one of its multiples.
LEMMA RemainderOfRemainder ==
    ASSUME NEW m \in Nat \ {0}, NEW n \in Nat \ {0}, NEW v \in Int
    PROVE  LowerRemainder(v, m, n)
<1>1. PICK p \in Nat \ {0} : p = m * n
  OBVIOUS
<1>2. PICK q \in Int, r \in 0 .. p - 1 : q = v \div p /\ r = v % p /\ v = p * q + r
  BY Division, Zenon
<1>3. v = r + m * (n * q) /\ n * q \in Int /\ r \in Int
  <2>1. r \in Int /\ v = r + p * q
    BY <1>2
  <2>2. p * q = m * (n * q) /\ n * q \in Int
    BY <1>1
  <2> QED
    BY <2>1, <2>2
<1>4. (r + m * (n * q)) % m = r % m
  BY <1>3, RemainderOfSum
<1> QED
  BY <1>1, <1>2, <1>3, <1>4 DEF LowerRemainder

\* The sign bit is set in the upper half of the vectors of a width.
LEMMA SignIsUpperHalf ==
    ASSUME NEW v \in Int, NEW w, NEW half \in Nat \ {0}, 2^(w - 1) = half, 2^w = 2 * half
    PROVE  SignSet(v, w) <=> Truncate(v, w) >= half
<1>1. PICK q \in Int, r \in 0 .. 2 * half - 1 : v = (2 * half) * q + r /\ v % (2 * half) = r
  <2>1. 2 * half \in Nat \ {0}
    OBVIOUS
  <2> QED
    BY <2>1, DivisionIsExact
<1>2. PICK b \in {0, 1}, e \in 0 .. half - 1 : r = half * b + e
  <2>1. CASE r < half
    BY <2>1
  <2>2. CASE r >= half
    <3>1. r = half * 1 + (r - half) /\ r - half \in 0 .. half - 1
      BY <2>2
    <3> QED
      BY <3>1
  <2> QED
    BY <2>1, <2>2
<1>3. v = half * (2 * q + b) + e /\ 2 * q + b \in Int
  BY <1>1, <1>2
<1>4. v \div half = 2 * q + b
  BY <1>2, <1>3, DivisionIsUnique, ZenonT(30)
<1>5. (2 * q + b) % 2 = b
  OBVIOUS
<1>6. b = 1 <=> r >= half
  BY <1>2
<1> QED
  BY <1>1, <1>4, <1>5, <1>6 DEF SignSet, Bit, Truncate

\* Vectors that agree in their low bits agree in the sign of those.
LEMMA SameSign ==
    ASSUME NEW u \in Int, NEW v \in Int, NEW w, NEW half \in Nat \ {0},
           2^(w - 1) = half, 2^w = 2 * half, Truncate(u, w) = Truncate(v, w)
    PROVE  SignSet(u, w) <=> SignSet(v, w)
  BY SignIsUpperHalf

\* A vector of a width is its own truncation to it.
LEMMA TruncateOfWord ==
    ASSUME NEW w, 2^w \in Nat \ {0}, NEW v \in Word(w)
    PROVE  Truncate(v, w) = v
<1>1. v \in 0 .. 2^w - 1 /\ v = 2^w * 0 + v
  BY DEF Word
<1> QED
  BY <1>1, DivisionIsUnique DEF Truncate

\* The number a vector stands for, by the half of the vectors it is in.
LEMMA SignedValue ==
    ASSUME NEW w, NEW half \in Nat \ {0}, 2^(w - 1) = half, 2^w = 2 * half,
           NEW v \in Word(w)
    PROVE  /\ v \in 0 .. 2 * half - 1
           /\ AsSigned(v, w) = IF v >= half THEN v - 2 * half ELSE v
           /\ AsSigned(v, w) \in -half .. half - 1
<1>1. v \in 0 .. 2 * half - 1 /\ v \in Int /\ 2^w \in Nat \ {0}
  BY DEF Word
<1>2. Truncate(v, w) = v
  BY <1>1, TruncateOfWord
<1>3. SignSet(v, w) <=> v >= half
  BY <1>1, <1>2, SignIsUpperHalf
<1>4. AsSigned(v, w) = IF v >= half THEN v - 2 * half ELSE v
  BY <1>2, <1>3 DEF AsSigned
<1> QED
  BY <1>1, <1>4

\* Truncation keeps a number that two's complement can represent.
LEMMA SignedValueOfRemainder ==
    ASSUME NEW w, NEW half \in Nat \ {0}, 2^(w - 1) = half, 2^w = 2 * half,
           NEW v \in -half .. half - 1
    PROVE  v % 2^w \in Word(w) /\ AsSigned(v % 2^w, w) = v
<1>1. PICK m \in Nat \ {0} : m = 2 * half /\ m = 2^w
  OBVIOUS
<1>2. CASE v >= 0
  <2>1. v \in Word(w) /\ 2^w \in Nat \ {0}
    BY <1>1, <1>2 DEF Word
  <2>2. v % 2^w = v
    BY <2>1, TruncateOfWord DEF Truncate
  <2>3. AsSigned(v, w) = v
    BY <2>1, SignedValue
  <2> QED
    BY <2>1, <2>2, <2>3
<1>3. CASE v < 0
  <2>1. v + m \in 0 .. m - 1 /\ v = m * (-1) + (v + m)
    BY <1>1, <1>3
  <2>2. v % m = v + m
    <3>1. PICK q \in Int, r \in 0 .. m - 1 : q = -1 /\ r = v + m
      BY <2>1
    <3>2. (m * q + r) % m = r
      BY DivisionIsUnique
    <3> QED
      BY <2>1, <3>1, <3>2
  <2>3. v + m \in Word(w)
    BY <1>1, <2>1 DEF Word
  <2>4. AsSigned(v + m, w) = v
    <3>1. AsSigned(v + m, w) = IF v + m >= half THEN (v + m) - 2 * half ELSE v + m
      BY <2>3, SignedValue
    <3> QED
      BY <1>1, <1>3, <3>1
  <2> QED
    BY <1>1, <2>2, <2>3, <2>4
<1> QED
  BY <1>2, <1>3

\* Two's complement in w bits is negation modulo 2^w.
LEMMA NegatedIsNegation ==
    ASSUME NEW v \in Int, NEW w, 2^w \in Nat \ {0}
    PROVE  Negated(v, w) = (-v) % 2^w
<1>1. PICK m \in Nat \ {0} : m = 2^w
  OBVIOUS
<1>2. PICK q \in Int, r \in 0 .. m - 1 : v = m * q + r /\ v % m = r
  BY DivisionIsExact
<1>3. PICK u \in Int, c \in 0 .. m : u = -v /\ c = m - r
  BY <1>2
<1>4. ASSUME NEW k \in Int, NEW e \in 0 .. m - 1, NEW x \in Int, x = m * k + e
      PROVE  x % m = e
  BY <1>4, DivisionIsUnique
<1>5. CASE r = 0
  <2>1. c = m * 1 + 0 /\ u = m * (-q) + 0 /\ 0 \in 0 .. m - 1 /\ -q \in Int
    BY <1>2, <1>3, <1>5
  <2>2. c % m = 0 /\ u % m = 0
    BY <1>4, <2>1
  <2> QED
    BY <1>1, <1>2, <1>3, <2>2 DEF Negated, Truncate
<1>6. CASE r # 0
  <2>1. c = m * 0 + c /\ u = m * (-q - 1) + c /\ c \in 0 .. m - 1 /\ -q - 1 \in Int
    BY <1>2, <1>3, <1>6
  <2>2. c % m = c /\ u % m = c
    BY <1>4, <2>1
  <2> QED
    BY <1>1, <1>2, <1>3, <2>2 DEF Negated, Truncate
<1> QED
  BY <1>5, <1>6

-----------------------------------------------------------------------------
(* Powers of two, from the equation that defines them up to some width.    *)

\* Exponents add.
LEMMA PowersAdd ==
    ASSUME NEW width \in Nat, \A n \in 0 .. width - 1 : 2^(n + 1) = 2 * 2^n
    PROVE  \A m, n \in Nat : m + n <= width =>
              /\ 2^m \in Nat \ {0}
              /\ 2^(m + n) = 2^m * 2^n
<1> DEFINE Positive == {n \in Nat : n <= width => 2^n \in Nat \ {0}}
<1>1. 2^0 = 1
  OBVIOUS
<1>2. \A n \in Nat : n \in Positive
  <2>1. 0 \in Positive
    BY <1>1
  <2>2. ASSUME NEW n \in Nat, n \in Positive PROVE n + 1 \in Positive
    <3>1. CASE n + 1 <= width
      <4>1. n \in 0 .. width - 1 /\ n <= width
        BY <3>1
      <4>2. 2^n \in Nat \ {0} /\ 2^(n + 1) = 2 * 2^n
        BY <2>2, <4>1
      <4> QED
        BY <4>2
    <3> QED
      BY <3>1
  <2> HIDE DEF Positive
  <2> QED
    BY <2>1, <2>2, NaturalInduction
<1>3. ASSUME NEW m \in Nat
      PROVE  \A n \in Nat : m + n <= width => 2^(m + n) = 2^m * 2^n
  <2> DEFINE Adds == {n \in Nat : m + n <= width => 2^(m + n) = 2^m * 2^n}
  <2>1. 0 \in Adds
    BY <1>1, <1>2
  <2>2. ASSUME NEW n \in Nat, n \in Adds PROVE n + 1 \in Adds
    <3>1. CASE m + (n + 1) <= width
      <4>1. n \in 0 .. width - 1 /\ m + n \in 0 .. width - 1 /\ m + (n + 1) = (m + n) + 1
            /\ m <= width
        BY <3>1
      <4>2. 2^(m + n) = 2^m * 2^n /\ 2^(n + 1) = 2 * 2^n /\ 2^((m + n) + 1) = 2 * 2^(m + n)
        BY <2>2, <4>1
      <4>3. 2^m \in Nat /\ 2^n \in Nat
        BY <1>2, <4>1
      <4>4. \A a, b \in Nat : 2 * (a * b) = a * (2 * b)
        OBVIOUS
      <4> QED
        BY <4>1, <4>2, <4>3, <4>4
    <3> QED
      BY <3>1
  <2>3. \A n \in Nat : n \in Adds
    <3> HIDE DEF Adds
    <3> QED
      BY <2>1, <2>2, NaturalInduction
  <2> QED
    BY <2>3
<1> QED
  BY <1>2, <1>3

-----------------------------------------------------------------------------
(* The powers of two a register and its rings are measured by.             *)

\* The powers of two up to that of a ring as long as a register are powers.
LEMMA LengthPowersAdd ==
    \A m, n \in Nat : m + n <= XLEN + 1 => 2^m \in Nat \ {0} /\ 2^(m + n) = 2^m * 2^n
<1>1. XLEN + 1 \in Nat /\ \A n \in 0 .. (XLEN + 1) - 1 : n \in 0 .. XLEN
  BY LengthAssumption
<1> QED
  BY <1>1, LengthAssumption, PowersAdd

\* The lengths of a register, a ring and their parts.
Length == 0 .. XLEN + 1

\* The power of a length is positive.
LEMMA LengthPower ==
    ASSUME NEW n \in Length
    PROVE  n \in Nat /\ 2^n \in Nat \ {0}
<1>1. n \in Nat /\ n + 0 <= XLEN + 1
  BY LengthAssumption DEF Length
<1> QED
  BY <1>1, LengthPowersAdd

\* The lengths of two parts add up to the whole's.
LEMMA PartPowers ==
    ASSUME NEW m \in Nat, NEW n \in Nat, NEW whole \in Length, whole = m + n
    PROVE  /\ m \in Length /\ n \in Length
           /\ 2^m \in Nat \ {0} /\ 2^n \in Nat \ {0}
           /\ 2^whole = 2^m * 2^n
<1>1. m \in Length /\ n \in Length /\ m + n <= XLEN + 1
  BY LengthAssumption DEF Length
<1> QED
  BY <1>1, LengthPower, LengthPowersAdd

-----------------------------------------------------------------------------
(* A vector in two parts.                                                  *)

\* Two parts of which the upper one is shifted over the lower one.
LEMMA JoinIsWord ==
    ASSUME NEW m \in Nat, NEW n \in Nat, NEW whole \in Length, whole = m + n,
           NEW low \in Word(m), NEW high \in Word(n)
    PROVE  high * 2^m + low \in Word(whole)
<1>1. PICK a \in Nat \ {0}, b \in Nat \ {0} : a = 2^m /\ b = 2^n /\ 2^whole = a * b
  <2>1. 2^m \in Nat \ {0} /\ 2^n \in Nat \ {0} /\ 2^whole = 2^m * 2^n
    BY PartPowers
  <2> QED
    BY <2>1
<1>2. low \in 0 .. a - 1 /\ high \in 0 .. b - 1
  BY <1>1 DEF Word
<1>3. (b - 1 - high) * a >= 0 /\ (b - 1 - high) * a = a * b - a - high * a /\ high * a >= 0
  BY <1>2
<1>4. high * a + low \in 0 .. a * b - 1
  BY <1>2, <1>3
<1> QED
  BY <1>1, <1>4 DEF Word

\* The parts of such a vector.
LEMMA PartsOfJoin ==
    ASSUME NEW m \in Length, NEW low \in Word(m), NEW high \in Int
    PROVE  /\ (high * 2^m + low) \div 2^m = high
           /\ (high * 2^m + low) % 2^m = low
<1>1. PICK a \in Nat \ {0} : a = 2^m
  BY LengthPower
<1>2. low \in 0 .. a - 1 /\ high * a + low = a * high + low
  BY <1>1 DEF Word
<1> QED
  BY SMTT(30), <1>1, <1>2, DivisionIsUnique

\* Every vector has two such parts.
LEMMA WordSplits ==
    ASSUME NEW m \in Nat, NEW n \in Nat, NEW whole \in Length, whole = m + n,
           NEW v \in Word(whole)
    PROVE  \E low \in Word(m), high \in Word(n) : v = high * 2^m + low
<1>1. PICK a \in Nat \ {0}, b \in Nat \ {0} : a = 2^m /\ b = 2^n /\ 2^whole = a * b
  <2>1. 2^m \in Nat \ {0} /\ 2^n \in Nat \ {0} /\ 2^whole = 2^m * 2^n
    BY PartPowers
  <2> QED
    BY <2>1
<1>2. v \in 0 .. a * b - 1
  BY <1>1 DEF Word
<1>3. PICK q \in Int, r \in 0 .. a - 1 : v = a * q + r
  <2>1. v \in Int
    BY <1>2
  <2>2. a \in Nat \ {0}
    BY <1>1
  <2> QED
    BY <2>1, <2>2, Division, ZenonT(30)
<1>4. q \in 0 .. b - 1
  <2>1. CASE q < 0
    <3>1. a * q <= -a
      <4>1. (-1 - q) * a >= 0 /\ (-1 - q) * a = -a - a * q
        BY <1>1, <2>1
      <4> QED
        BY <4>1
    <3> QED
      BY <1>2, <1>3, <3>1
  <2>2. CASE q >= b
    <3>1. (q - b) * a >= 0 /\ (q - b) * a = a * q - a * b
      BY <1>1, <2>2
    <3> QED
      BY <1>2, <1>3, <3>1
  <2> QED
    BY <1>3, <2>1, <2>2
<1>5. r \in Word(m) /\ q \in Word(n) /\ v = q * 2^m + r
  BY <1>1, <1>3, <1>4 DEF Word
<1> QED
  BY <1>5

-----------------------------------------------------------------------------
(* Rotations.                                                              *)

\* A rotation to the left by the length of the upper part exchanges the parts.
LEMMA RotationExchanges ==
    ASSUME NEW k \in Nat, NEW m \in Nat, NEW whole \in Length, whole = k + m,
           NEW low \in Word(m), NEW high \in Word(k)
    PROVE  RotatedLeft(high * 2^m + low, k, whole) = low * 2^k + high
<1>1. whole - k = m /\ m \in Length
  BY PartPowers
<1>2. high \in Int
  BY PartPowers DEF Word
<1> QED
  BY <1>1, <1>2, PartsOfJoin DEF RotatedLeft, Truncate

\* The ring stays a ring.
LEMMA RotationIsWord ==
    ASSUME NEW n \in Length, NEW k \in 0 .. n, NEW v \in Word(n)
    PROVE  RotatedLeft(v, k, n) \in Word(n)
<1>1. k \in Nat /\ n - k \in Nat /\ n \in Nat
  BY LengthPower
<1>2. PICK m \in Nat : n = k + m /\ n = m + k
  BY <1>1
<1>3. PICK low \in Word(m), high \in Word(k) : v = high * 2^m + low
  BY <1>1, <1>2, WordSplits
<1>4. RotatedLeft(v, k, n) = low * 2^k + high
  BY <1>1, <1>2, <1>3, RotationExchanges
<1>5. low * 2^k + high \in Word(n)
  BY <1>1, <1>2, JoinIsWord
<1> QED
  BY <1>4, <1>5

\* Rotations that together stay below a whole turn add up.
LEMMA RotationsAdd ==
    ASSUME NEW n \in Length, NEW a \in Nat, NEW b \in Nat, a + b <= n, NEW v \in Word(n)
    PROVE  RotatedLeft(RotatedLeft(v, a, n), b, n) = RotatedLeft(v, a + b, n)
<1>1. n \in 0 .. XLEN + 1 /\ XLEN \in Nat
  BY LengthAssumption DEF Length
<1>2. PICK m \in Nat : n = (a + b) + m
  <2>1. n - (a + b) \in Nat /\ n = (a + b) + (n - (a + b))
    BY <1>1
  <2> QED
    BY <2>1
<1>3. PICK bm \in Nat, am \in Nat, ab \in Nat :
          /\ bm = b + m /\ bm = m + b /\ am = a + m /\ ab = a + b /\ ab = b + a
          /\ n = a + bm /\ n = bm + a /\ n = b + am /\ n = ab + m
          /\ bm \in 0 .. XLEN + 1 /\ am \in 0 .. XLEN + 1 /\ ab \in 0 .. XLEN + 1
  BY <1>1, <1>2
<1>4. bm \in Length /\ am \in Length /\ ab \in Length
  BY <1>3 DEF Length
<1>5. PICK rest \in Word(bm), high \in Word(a) : v = high * 2^bm + rest
  BY <1>3, WordSplits, ZenonT(30)
<1>6. PICK low \in Word(m), middle \in Word(b) : rest = middle * 2^m + low
  BY <1>3, <1>4, <1>5, WordSplits
<1>7. PICK pa \in Nat \ {0}, pb \in Nat \ {0}, pm \in Nat \ {0} :
          /\ pa = 2^a /\ pb = 2^b /\ pm = 2^m
          /\ 2^bm = pb * pm /\ 2^am = pa * pm /\ 2^ab = pa * pb
  BY <1>3, <1>4, PartPowers
<1>8. low \in Int /\ middle \in Int /\ high \in Int /\ rest \in Int
  <2>1. low \in Int /\ middle \in Int /\ high \in Int
    BY <1>5, <1>6, <1>7 DEF Word
  <2>2. rest = middle * pm + low
    BY <1>6, <1>7
  <2> QED
    BY <2>1, <2>2
<1>9. RotatedLeft(v, a, n) = middle * 2^am + (low * 2^a + high)
  <2>1. RotatedLeft(v, a, n) = rest * 2^a + high
    BY <1>3, <1>5, RotationExchanges
  <2>2. (middle * pm + low) * pa + high = middle * (pa * pm) + (low * pa + high)
    BY <1>7, <1>8
  <2> QED
    BY <1>6, <1>7, <2>1, <2>2
<1>10. low * 2^a + high \in Word(am)
  BY <1>3, <1>4, <1>5, <1>6, JoinIsWord
<1>11. RotatedLeft(RotatedLeft(v, a, n), b, n) = (low * 2^a + high) * 2^b + middle
  BY <1>3, <1>6, <1>9, <1>10, RotationExchanges
<1>12. high * 2^b + middle \in Word(ab)
  BY <1>3, <1>4, <1>5, <1>6, JoinIsWord
<1>13. v = (high * 2^b + middle) * 2^m + low
  <2>1. high * (pb * pm) + (middle * pm + low) = (high * pb + middle) * pm + low
    BY <1>7, <1>8
  <2> QED
    BY <1>5, <1>6, <1>7, <2>1
<1>14. RotatedLeft(v, ab, n) = low * 2^ab + (high * 2^b + middle)
  BY <1>3, <1>6, <1>12, <1>13, RotationExchanges
<1>15. (low * pa + high) * pb + middle = low * (pa * pb) + (high * pb + middle)
  BY <1>7, <1>8
<1> QED
  BY <1>3, <1>7, <1>11, <1>14, <1>15

-----------------------------------------------------------------------------
(* Bits of a vector in two parts.                                          *)

\* A multiple of the divisor adds to the quotient.
LEMMA QuotientOfSum ==
    ASSUME NEW a \in Nat \ {0}, NEW k \in Int, NEW v \in Int
    PROVE  (a * k + v) \div a = k + (v \div a)
<1>1. PICK q \in Int, r \in 0 .. a - 1 : q = v \div a /\ v = a * q + r
  BY Division, Zenon
<1>2. PICK s \in Int : s = k + q
  <2>1. k + q \in Int
    BY <1>1
  <2> QED
    BY <2>1, Zenon
<1>3. a * k + v = a * s + r
  BY <1>1, <1>2
<1>4. (a * s + r) \div a = s
  BY <1>1, <1>2, DivisionIsUnique
<1> QED
  BY <1>1, <1>2, <1>3, <1>4

\* Dividing twice is dividing by the product.
LEMMA QuotientOfQuotient ==
    ASSUME NEW a \in Nat \ {0}, NEW b \in Nat \ {0}, NEW v \in Int
    PROVE  v \div (a * b) = (v \div a) \div b
<1>1. PICK q \in Int, r \in 0 .. a - 1 : q = v \div a /\ v = a * q + r
  BY Division, ZenonT(30)
<1>2. PICK s \in Int, t \in 0 .. b - 1 : s = q \div b /\ q = b * s + t
  <2>1. q \in Int
    BY <1>1
  <2> QED
    BY <2>1, Division, ZenonT(30)
<1>3. a * t + r \in 0 .. a * b - 1
  <2>1. (b - 1 - t) * a >= 0 /\ (b - 1 - t) * a = a * b - a - a * t /\ a * t >= 0
    BY <1>2
  <2> QED
    BY <1>1, <2>1
<1>4. v = (a * b) * s + (a * t + r)
  <2>1. a * (b * s + t) + r = (a * b) * s + (a * t + r)
    BY <1>1, <1>2
  <2> QED
    BY <1>1, <1>2, <2>1
<1>5. PICK ab \in Nat \ {0} : ab = a * b /\ a * t + r \in 0 .. ab - 1
  <2>1. a * b \in Nat \ {0}
    OBVIOUS
  <2> QED
    BY <1>3, <2>1
<1>6. (ab * s + (a * t + r)) \div ab = s
  BY <1>2, <1>5, DivisionIsUnique
<1> QED
  BY <1>1, <1>2, <1>4, <1>5, <1>6

\* The lower bits are those of the lower part.
LEMMA BitOfLow ==
    ASSUME NEW m \in Length, NEW i \in Nat, i < m, NEW low \in Word(m), NEW high \in Int
    PROVE  Bit(high * 2^m + low, i) = Bit(low, i)
<1>1. PICK j \in Nat, above \in Nat : above = 1 + j /\ m = i + above
  <2>1. m - i - 1 \in Nat /\ m = i + (1 + (m - i - 1)) /\ 1 + (m - i - 1) \in Nat
    BY LengthPower
  <2> QED
    BY <2>1
<1>2. above \in Length
  BY <1>1, PartPowers
<1>3. PICK pi \in Nat \ {0}, pj \in Nat \ {0} : pi = 2^i /\ pj = 2^j /\ 2^m = pi * (2 * pj)
  <2>1. 2^i \in Nat \ {0} /\ 2^m = 2^i * 2^above
    BY <1>1, PartPowers
  <2>2. PICK one \in Nat : one = 1 /\ above = one + j
    BY <1>1
  <2>3. 2^above = 2^one * 2^j /\ 2^j \in Nat \ {0}
    BY <1>2, <2>2, PartPowers
  <2>4. 2^one = 2
    BY <2>2
  <2> QED
    BY <2>1, <2>3, <2>4
<1>4. low \in Int
  BY LengthPower DEF Word
<1>5. PICK k \in Int : k = high * pj
  BY <1>3
<1>6. high * 2^m + low = pi * (2 * k) + low
  <2>1. high * (pi * (2 * pj)) = pi * (2 * (high * pj))
    BY <1>3
  <2> QED
    BY <1>3, <1>5, <2>1
<1>7. (pi * (2 * k) + low) \div pi = 2 * k + (low \div pi)
  <2>1. 2 * k \in Int
    BY <1>5
  <2> QED
    BY <1>3, <1>4, <2>1, QuotientOfSum
<1>8. PICK q \in Int : q = low \div pi
  BY <1>3, <1>4, Division
<1>9. (q + 2 * k) % 2 = q % 2
  BY <1>5, <1>8, RemainderOfSum
<1> QED
  BY <1>3, <1>5, <1>6, <1>7, <1>8, <1>9 DEF Bit

\* The upper bits are those of the upper part.
LEMMA BitOfHigh ==
    ASSUME NEW m \in Nat, NEW k \in Nat, NEW whole \in Length, whole = m + k,
           NEW low \in Word(m), NEW high \in Int
    PROVE  Bit(high * 2^m + low, whole) = Bit(high, k)
<1>1. m \in Length /\ 2^m \in Nat \ {0} /\ 2^k \in Nat \ {0} /\ 2^whole = 2^m * 2^k
  BY PartPowers
<1>2. PICK pm \in Nat \ {0}, pk \in Nat \ {0} : pm = 2^m /\ pk = 2^k /\ 2^whole = pm * pk
  BY <1>1
<1>3. PICK v \in Int : v = high * 2^m + low
  <2>1. low \in Int
    BY <1>1 DEF Word
  <2> QED
    BY <1>2, <2>1
<1>4. v \div pm = high
  BY <1>1, <1>2, <1>3, PartsOfJoin
<1>5. v \div (pm * pk) = high \div pk
  BY <1>2, <1>3, <1>4, QuotientOfQuotient
<1> QED
  BY <1>2, <1>3, <1>5 DEF Bit

-----------------------------------------------------------------------------
(* Reversal.                                                               *)

\* f gives the reversals of the lower bits of v, m of them at most.
Reversal(f, v, m) ==
    f = [i \in 0 .. m |-> IF i = 0 THEN 0 ELSE 2 * f[i - 1] + Bit(v, i - 1)]

\* The recursive function that Reversed is defined by exists.
LEMMA ReversalExists ==
    ASSUME NEW v
    PROVE  \A m \in Nat : \E f : Reversal(f, v, m)
<1> DEFINE S == {m \in Nat : \E f : Reversal(f, v, m)}
<1>1. 0 \in S
  <2> DEFINE f == [i \in 0 .. 0 |-> 0]
  <2>1. Reversal(f, v, 0)
    BY DEF Reversal
  <2> QED
    BY <2>1
<1>2. ASSUME NEW m \in Nat, m \in S PROVE m + 1 \in S
  <2>1. PICK f : Reversal(f, v, m)
    BY <1>2
  <2> DEFINE last == 2 * f[m] + Bit(v, m)
             g == [i \in 0 .. m + 1 |-> IF i = m + 1 THEN last ELSE f[i]]
  <2>2. ASSUME NEW i \in 0 .. m + 1
        PROVE  g[i] = IF i = 0 THEN 0 ELSE 2 * g[i - 1] + Bit(v, i - 1)
    <3> HIDE DEF last
    <3>1. CASE i = m + 1
      <4>1. i # 0 /\ g[i] = last /\ i - 1 = m /\ g[i - 1] = f[m]
        BY <3>1
      <4> QED
        BY <3>1, <4>1 DEF last
    <3>2. CASE i # m + 1
      <4>1. i \in 0 .. m /\ g[i] = f[i] /\ (i # 0 => g[i - 1] = f[i - 1])
        BY <3>2
      <4>2. f[i] = IF i = 0 THEN 0 ELSE 2 * f[i - 1] + Bit(v, i - 1)
        BY <2>1, <4>1 DEF Reversal
      <4> HIDE DEF g
      <4> QED
        BY <4>1, <4>2
    <3> QED
      BY <3>1, <3>2
  <2>3. g = [i \in 0 .. m + 1 |-> g[i]]
    OBVIOUS
  <2> HIDE DEF g
  <2>4. Reversal(g, v, m + 1)
    BY <2>2, <2>3 DEF Reversal
  <2> QED
    BY <2>4
<1> HIDE DEF S
<1>3. \A m \in Nat : m \in S
  BY <1>1, <1>2, NaturalInduction
<1> QED
  BY <1>3 DEF S

\* Reversed is the last value of that function.
LEMMA ReversedIsLast ==
    ASSUME NEW v, NEW m \in Nat
    PROVE  \E f : Reversal(f, v, m) /\ Reversed(v, m) = f[m]
<1> DEFINE f == CHOOSE f : Reversal(f, v, m)
<1>1. Reversal(f, v, m)
  BY ReversalExists
<1>2. Reversed(v, m) = f[m]
  BY DEF Reversed, Reversal
<1> HIDE DEF f
<1> QED
  BY <1>1, <1>2

\* The reversal of the lower bits depends on them alone.
LEMMA ReversalOfPrefix ==
    ASSUME NEW v, NEW u, NEW m \in Nat, NEW k \in Nat, k >= m, NEW f, NEW g,
           \A i \in Nat : i < m => Bit(v, i) = Bit(u, i),
           Reversal(f, v, m), Reversal(g, u, k)
    PROVE  f[m] = g[m]
<1> DEFINE S == {i \in Nat : i <= m => f[i] = g[i]}
<1>1. 0 \in S
  BY DEF Reversal
<1>2. ASSUME NEW i \in Nat, i \in S PROVE i + 1 \in S
  <2>1. CASE i + 1 <= m
    <3>1. i + 1 \in 0 .. m /\ i + 1 \in 0 .. k /\ i + 1 # 0 /\ (i + 1) - 1 = i /\ i < m
          /\ f[i] = g[i]
      BY <1>2, <2>1
    <3>2. f[i + 1] = 2 * f[i] + Bit(v, i) /\ g[i + 1] = 2 * g[i] + Bit(u, i)
      BY <3>1 DEF Reversal
    <3>3. Bit(v, i) = Bit(u, i)
      BY <3>1
    <3> QED
      BY <3>1, <3>2, <3>3
  <2> QED
    BY <2>1
<1>3. \A i \in Nat : i \in S
  <2> HIDE DEF S
  <2> QED
    BY <1>1, <1>2, NaturalInduction
<1> QED
  BY <1>3

\* Nothing reversed is nothing.
LEMMA NothingReversed == \A v : Reversed(v, 0) = 0
<1> TAKE v
<1>1. PICK m \in Nat : m = 0
  OBVIOUS
<1>2. PICK f : Reversal(f, v, m) /\ Reversed(v, m) = f[m]
  BY ReversedIsLast
<1> QED
  BY <1>1, <1>2 DEF Reversal

\* Vectors that agree in their lower bits have the same reversal of these.
LEMMA SameReversal ==
    ASSUME NEW v, NEW u, NEW m \in Nat, \A i \in Nat : i < m => Bit(v, i) = Bit(u, i)
    PROVE  Reversed(v, m) = Reversed(u, m)
<1>1. PICK f : Reversal(f, v, m) /\ Reversed(v, m) = f[m]
  BY ReversedIsLast
<1>2. PICK g : Reversal(g, u, m) /\ Reversed(u, m) = g[m]
  BY ReversedIsLast
<1> QED
  BY <1>1, <1>2, ReversalOfPrefix

\* The next bit is shifted in from below.
LEMMA NextReversed ==
    ASSUME NEW v, NEW m \in Nat
    PROVE  Reversed(v, m + 1) = 2 * Reversed(v, m) + Bit(v, m)
<1>1. PICK f : Reversal(f, v, m) /\ Reversed(v, m) = f[m]
  BY ReversedIsLast
<1>2. PICK n \in Nat : n = m + 1
  OBVIOUS
<1>3. PICK g : Reversal(g, v, n) /\ Reversed(v, n) = g[n]
  BY ReversedIsLast
<1>4. f[m] = g[m]
  BY <1>1, <1>2, <1>3, ReversalOfPrefix
<1>5. g[n] = 2 * g[m] + Bit(v, m)
  BY <1>2, <1>3 DEF Reversal
<1> QED
  BY <1>1, <1>2, <1>3, <1>4, <1>5

\* The reversal of a vector is a vector of the same length.
LEMMA ReversedIsWord ==
    ASSUME NEW v \in Int
    PROVE  \A n \in Length : Reversed(v, n) \in Word(n)
<1> DEFINE S == {n \in Nat : n \in Length => Reversed(v, n) \in Word(n)}
<1>1. 0 \in S
  <2>1. 2^0 = 1 /\ 0 \in Word(0)
    BY DEF Word
  <2> QED
    BY <2>1, NothingReversed
<1>2. ASSUME NEW n \in Nat, n \in S PROVE n + 1 \in S
  <2>1. CASE n + 1 \in Length
    <3>1. PICK whole \in Length, one \in Nat : one = 1 /\ whole = n + one /\ whole = n + 1
                                               /\ whole = one + n
      BY <2>1
    <3>2. /\ n \in Length /\ 2^n \in Nat \ {0} /\ 2^one = 2
          /\ 2^whole = 2^one * 2^n
      <4>1. n \in Length /\ 2^n \in Nat \ {0} /\ 2^whole = 2^one * 2^n
        BY <3>1, PartPowers
      <4>2. 2^one = 2
        BY <3>1
      <4> QED
        BY <4>1, <4>2
    <3>3. Bit(v, n) \in Word(one)
      BY <3>2, BitIsBinary DEF Word
    <3>4. Reversed(v, n) \in Word(n)
      BY <1>2, <3>2
    <3>5. Reversed(v, n) * 2^one + Bit(v, n) \in Word(whole)
      BY <3>1, <3>3, <3>4, JoinIsWord
    <3>6. Reversed(v, n) \in Int
      BY <3>2, <3>4 DEF Word
    <3>7. Reversed(v, whole) = 2 * Reversed(v, n) + Bit(v, n)
      BY <3>1, NextReversed
    <3>8. Reversed(v, whole) \in Word(whole)
      BY <3>2, <3>5, <3>6, <3>7
    <3> QED
      BY <3>1, <3>8
  <2> QED
    BY <2>1
<1> HIDE DEF S
<1>3. \A n \in Nat : n \in S
  BY <1>1, <1>2, NaturalInduction
<1> QED
  BY <1>3, LengthPower DEF S

\* The reversal exchanges the parts and reverses each.
LEMMA ReversalExchanges ==
    ASSUME NEW m \in Length, NEW low \in Word(m), NEW high \in Int
    PROVE  \A k \in Nat, whole \in Length : whole = m + k =>
              Reversed(high * 2^m + low, whole) = Reversed(low, m) * 2^k + Reversed(high, k)
<1> DEFINE v == high * 2^m + low
           S == {k \in Nat : \A whole \in Length : whole = m + k =>
                    Reversed(v, whole) = Reversed(low, m) * 2^k + Reversed(high, k)}
<1>1. Reversed(v, m) = Reversed(low, m)
  BY BitOfLow, SameReversal, LengthPower
<1>2. low \in Int /\ Reversed(low, m) \in Int /\ m \in Nat
  <2>1. low \in Int /\ m \in Nat
    BY LengthPower DEF Word
  <2> QED
    BY <2>1, ReversedIsWord, LengthPower DEF Word
<1> HIDE DEF v
<1>3. 0 \in S
  <2>1. 2^0 = 1
    OBVIOUS
  <2>2. ASSUME NEW whole \in Length, whole = m + 0
        PROVE  Reversed(v, whole) = Reversed(low, m) * 2^0 + Reversed(high, 0)
    <3>1. whole = m
      BY <1>2, <2>2
    <3> QED
      BY <1>1, <1>2, <2>1, <3>1, NothingReversed
  <2> QED
    BY <2>2
<1>4. ASSUME NEW k \in Nat, k \in S PROVE k + 1 \in S
  <2>1. ASSUME NEW whole \in Length, whole = m + (k + 1)
        PROVE  Reversed(v, whole) = Reversed(low, m) * 2^(k + 1) + Reversed(high, k + 1)
    <3>1. PICK before \in Nat : before = m + k /\ whole = before + 1
      BY <1>2, <2>1
    <3>2. PICK one \in Nat, next \in Nat : one = 1 /\ next = k + 1 /\ next = one + k
                                           /\ whole = m + next /\ whole = before + one
      BY <1>2, <2>1, <3>1
    <3>3. before \in Length /\ next \in Length /\ k \in Length
      <4>1. before \in Length
        BY <3>2, PartPowers
      <4>2. next \in Length
        BY <1>2, <3>2, PartPowers
      <4> QED
        BY <3>2, <4>1, <4>2, PartPowers
    <3>4. Reversed(v, before) = Reversed(low, m) * 2^k + Reversed(high, k)
      BY <1>4, <3>1, <3>3
    <3>5. Reversed(v, whole) = 2 * Reversed(v, before) + Bit(v, before)
      BY <3>1, NextReversed
    <3>6. Bit(v, before) = Bit(high, k)
      BY <3>1, <3>3, BitOfHigh, <1>2 DEF v
    <3>7. Reversed(high, next) = 2 * Reversed(high, k) + Bit(high, k)
      BY <3>2, NextReversed
    <3>8. 2^next = 2 * 2^k /\ 2^k \in Nat \ {0}
      <4>1. 2^next = 2^one * 2^k /\ 2^k \in Nat \ {0}
        BY <3>2, <3>3, PartPowers
      <4>2. 2^one = 2
        BY <3>2
      <4> QED
        BY <4>1, <4>2
    <3>9. Reversed(high, k) \in Int /\ Bit(high, k) \in Int
      <4>1. Bit(high, k) \in Int
        BY <3>8, BitIsBinary
      <4>2. Reversed(high, k) \in Word(k)
        BY <3>3, ReversedIsWord
      <4> QED
        BY <3>8, <4>1, <4>2 DEF Word
    <3>10. PICK x \in Int, y \in Int, b \in Int, p \in Nat :
               x = Reversed(low, m) /\ y = Reversed(high, k) /\ b = Bit(high, k) /\ p = 2^k
      BY <1>2, <3>8, <3>9
    <3>11. 2 * (x * p + y) + b = x * (2 * p) + (2 * y + b)
      BY <3>10
    <3>12. Reversed(v, whole) = x * (2 * p) + (2 * y + b)
      BY <3>4, <3>5, <3>6, <3>10, <3>11
    <3> QED
      BY <3>2, <3>7, <3>8, <3>10, <3>12
  <2> QED
    BY <2>1
<1> HIDE DEF S
<1>5. \A k \in Nat : k \in S
  BY <1>3, <1>4, NaturalInduction
<1> QED
  BY <1>5 DEF S, v

\* Reversed twice, a vector is what it was.
LEMMA ReversedTwice == \A n \in Length : \A v \in Word(n) : Reversed(Reversed(v, n), n) = v
<1> DEFINE S == {n \in Nat : n \in Length =>
                    \A v \in Word(n) : Reversed(Reversed(v, n), n) = v}
<1>1. 0 \in S
  <2>1. 2^0 = 1
    OBVIOUS
  <2>2. \A v \in Word(0) : v = 0
    BY <2>1 DEF Word
  <2> QED
    BY <2>2, NothingReversed
<1>2. ASSUME NEW n \in Nat, n \in S PROVE n + 1 \in S
  <2>1. ASSUME n + 1 \in Length, NEW v \in Word(n + 1)
        PROVE  Reversed(Reversed(v, n + 1), n + 1) = v
    <3>1. PICK whole \in Length, one \in Nat : one = 1 /\ whole = n + one /\ whole = n + 1
                                               /\ whole = one + n
      BY <2>1
    <3>2. n \in Length /\ one \in Length /\ 2^n \in Nat \ {0} /\ 2^one = 2
      <4>1. n \in Length /\ one \in Length /\ 2^n \in Nat \ {0}
        BY <3>1, PartPowers
      <4>2. 2^one = 2
        BY <3>1
      <4> QED
        BY <4>1, <4>2
    <3>3. PICK low \in Word(n), high \in Word(one) : v = high * 2^n + low
      BY <2>1, <3>1, WordSplits
    <3>4. high \in {0, 1} /\ high \in Int /\ low \in Int
      BY <3>2 DEF Word
    <3>5. Reversed(high, one) = high
      <4>1. Reversed(high, 0 + 1) = 2 * Reversed(high, 0) + Bit(high, 0)
        BY NextReversed
      <4>2. Bit(high, 0) = high
        <5>1. 2^0 = 1
          OBVIOUS
        <5> QED
          BY <3>4, <5>1 DEF Bit
      <4> QED
        BY <3>1, <3>4, <4>1, <4>2, NothingReversed
    <3>6. Reversed(v, whole) = Reversed(low, n) * 2^one + high
      <4>1. Reversed(v, whole) = Reversed(low, n) * 2^one + Reversed(high, one)
        <5>1. \A k \in Nat, w \in Length : w = n + k =>
                 Reversed(high * 2^n + low, w) = Reversed(low, n) * 2^k + Reversed(high, k)
          BY <3>2, <3>3, <3>4, ReversalExchanges
        <5>2. Reversed(high * 2^n + low, whole) = Reversed(low, n) * 2^one + Reversed(high, one)
          BY <3>1, <5>1
        <5> QED
          BY <3>3, <5>2
      <4> QED
        BY <3>5, <4>1, Zenon
    <3>7. Reversed(low, n) \in Int /\ Reversed(low, n) \in Word(n)
      <4>1. Reversed(low, n) \in Word(n)
        BY <3>2, <3>4, ReversedIsWord
      <4> QED
        BY <3>2, <4>1 DEF Word
    <3>8. Reversed(Reversed(v, whole), whole) =
              Reversed(high, one) * 2^n + Reversed(Reversed(low, n), n)
      <4>1. \A upper \in Int :
                Reversed(upper * 2^one + high, whole) = Reversed(high, one) * 2^n + Reversed(upper, n)
        <5> TAKE upper \in Int
        <5>1. \A k \in Nat, w \in Length : w = one + k =>
                 Reversed(upper * 2^one + high, w) = Reversed(high, one) * 2^k + Reversed(upper, k)
          BY <3>2, <3>3, ReversalExchanges, ZenonT(30)
        <5> QED
          BY <3>1, <5>1
      <4> QED
        BY <3>6, <3>7, <4>1
    <3>9. Reversed(Reversed(low, n), n) = low
      BY <1>2, <3>2
    <3> QED
      BY <3>1, <3>3, <3>5, <3>8, <3>9
  <2> QED
    BY <2>1
<1> HIDE DEF S
<1>3. \A n \in Nat : n \in S
  BY <1>1, <1>2, NaturalInduction
<1> QED
  BY <1>3, LengthPower DEF S

\* A rotation to the left of the reversed ring is one to the right of the ring, to the left
\* by the rest of a turn.
LEMMA ReversedRotation ==
    ASSUME NEW n \in Length, NEW k \in 0 .. n, NEW v \in Word(n)
    PROVE  Reversed(RotatedLeft(Reversed(v, n), k, n), n) = RotatedLeft(v, n - k, n)
<1>1. k \in Nat /\ n \in Nat
  BY LengthPower
<1>2. PICK m \in Nat : m = n - k /\ n = k + m /\ n = m + k
  BY <1>1
<1>3. k \in Length /\ m \in Length
  BY <1>1, <1>2, PartPowers
<1>4. PICK low \in Word(k), high \in Word(m) : v = high * 2^k + low
  BY <1>1, <1>2, WordSplits
<1>5. low \in Int /\ high \in Int
  BY <1>3, LengthPower DEF Word
<1>6. Reversed(v, n) = Reversed(low, k) * 2^m + Reversed(high, m)
  BY <1>2, <1>3, <1>4, <1>5, ReversalExchanges
<1>7. /\ Reversed(low, k) \in Word(k) /\ Reversed(low, k) \in Int
      /\ Reversed(high, m) \in Word(m) /\ Reversed(high, m) \in Int
  <2>1. Reversed(low, k) \in Word(k) /\ Reversed(high, m) \in Word(m)
    BY <1>3, <1>5, ReversedIsWord
  <2> QED
    BY <1>3, <2>1, LengthPower DEF Word
<1>8. RotatedLeft(Reversed(v, n), k, n) = Reversed(high, m) * 2^k + Reversed(low, k)
  BY <1>1, <1>2, <1>6, <1>7, RotationExchanges
<1>9. Reversed(RotatedLeft(Reversed(v, n), k, n), n) =
          Reversed(Reversed(low, k), k) * 2^m + Reversed(Reversed(high, m), m)
  BY <1>2, <1>3, <1>7, <1>8, ReversalExchanges
<1>10. Reversed(Reversed(low, k), k) = low /\ Reversed(Reversed(high, m), m) = high
  BY <1>3, ReversedTwice
<1>11. RotatedLeft(v, m, n) = low * 2^m + high
  BY <1>1, <1>2, <1>4, RotationExchanges
<1> QED
  BY <1>2, <1>9, <1>10, <1>11

\* No turn and a whole turn leave the ring as it is.
LEMMA WholeTurn ==
    ASSUME NEW n \in Length, NEW v \in Word(n)
    PROVE  RotatedLeft(v, 0, n) = v /\ RotatedLeft(v, n, n) = v
<1>1. n \in Nat /\ 2^n \in Nat \ {0} /\ v \in Int
  BY LengthPower DEF Word
<1>2. PICK none \in Nat : none = 0
  OBVIOUS
<1>3. n = none + n /\ n = n + none /\ 2^none = 1
  BY <1>1, <1>2
<1>4. none \in Word(none)
  BY <1>2, <1>3 DEF Word
<1>5. RotatedLeft(none * 2^n + v, none, n) = v * 2^none + none
  BY <1>1, <1>3, <1>4, RotationExchanges
<1>6. RotatedLeft(v * 2^none + none, n, n) = none * 2^n + v
  BY <1>1, <1>3, <1>4, RotationExchanges
<1>7. none * 2^n + v = v /\ v * 2^none + none = v
  BY <1>1, <1>2, <1>3
<1> QED
  BY <1>2, <1>5, <1>6, <1>7

\* A count's lower bits, one bit more at a time.
LEMMA LowBitsGrow ==
    ASSUME NEW count \in Nat, NEW stage \in Nat,
           2^stage \in Nat \ {0}, 2^(stage + 1) = 2 * 2^stage
    PROVE  /\ count % 2^stage \in Nat /\ Bit(count, stage) \in {0, 1}
           /\ count % 2^(stage + 1) = (count % 2^stage) + Bit(count, stage) * 2^stage
           /\ count % 2^(stage + 1) <= count
<1>2. PICK p \in Nat \ {0} : p = 2^stage /\ 2^(stage + 1) = 2 * p
  OBVIOUS
<1>3. PICK q \in Int, low \in 0 .. p - 1 : q = count \div p /\ low = count % p
                                         /\ count = p * q + low
  <2>1. count \in Int /\ p \in Nat \ {0}
    BY <1>2
  <2> QED
    BY <2>1, Division, Zenon
<1>4. PICK h \in Int, b \in 0 .. 1 : h = q \div 2 /\ b = q % 2 /\ q = 2 * h + b
  BY <1>3
<1>5. Bit(count, stage) = b
  BY <1>2, <1>3, <1>4 DEF Bit
<1>6. p * b + low \in 0 .. 2 * p - 1 /\ b * p = p * b
  BY SMTT(30), <1>2, <1>3, <1>4
<1>7. count = (2 * p) * h + (p * b + low)
  <2>1. p * (2 * h + b) + low = (2 * p) * h + (p * b + low)
    BY <1>2, <1>3, <1>4
  <2> QED
    BY <1>3, <1>4, <2>1
<1>8. PICK m \in Nat \ {0} : m = 2 * p
  BY <1>2
<1>9. count % m = p * b + low
  <2>1. (m * h + (p * b + low)) % m = p * b + low
    BY <1>4, <1>6, <1>8, DivisionIsUnique
  <2> QED
    BY <1>7, <1>8, <2>1
<1>10. p * b + low <= count
  <2>1. h >= 0
    <3>1. CASE h <= -1
      <4>1. (-1 - h) * m >= 0 /\ (-1 - h) * m = -m - m * h
        BY <1>4, <1>8, <3>1
      <4> QED
        BY <1>6, <1>7, <1>8, <4>1
    <3> QED
      BY <1>4, <3>1
  <2>2. m * h >= 0
    BY <1>4, <1>8, <2>1
  <2> QED
    BY <1>6, <1>7, <1>8, <2>2
<1> QED
  BY <1>2, <1>3, <1>4, <1>5, <1>6, <1>8, <1>9, <1>10

-----------------------------------------------------------------------------
(* What survives a squash.                                                 *)

\* f gives what survives of the first operations of a queue, m of them at most.
Survival(f, queue, squash, m) ==
    f = [n \in 0 .. m |->
            IF n = 0 THEN <<>>
            ELSE IF queue[n].tag = squash THEN f[n - 1]
            ELSE Append(f[n - 1], queue[n])]

\* The recursive function that Surviving is defined by exists.
LEMMA SurvivalExists ==
    ASSUME NEW queue, NEW squash
    PROVE  \A m \in Nat : \E f : Survival(f, queue, squash, m)
<1> DEFINE S == {m \in Nat : \E f : Survival(f, queue, squash, m)}
<1>1. 0 \in S
  <2> DEFINE f == [n \in 0 .. 0 |-> <<>>]
  <2>1. Survival(f, queue, squash, 0)
    BY DEF Survival
  <2> QED
    BY <2>1
<1>2. ASSUME NEW m \in Nat, m \in S PROVE m + 1 \in S
  <2>1. PICK f : Survival(f, queue, squash, m)
    BY <1>2
  <2> DEFINE last == IF queue[m + 1].tag = squash THEN f[m] ELSE Append(f[m], queue[m + 1])
             g == [n \in 0 .. m + 1 |-> IF n = m + 1 THEN last ELSE f[n]]
  <2>2. ASSUME NEW n \in 0 .. m + 1
        PROVE  g[n] = IF n = 0 THEN <<>>
                      ELSE IF queue[n].tag = squash THEN g[n - 1]
                      ELSE Append(g[n - 1], queue[n])
    <3> HIDE DEF last
    <3>1. CASE n = m + 1
      <4>1. n # 0 /\ g[n] = last /\ n - 1 = m /\ g[n - 1] = f[m]
        BY <3>1
      <4> QED
        BY <3>1, <4>1 DEF last
    <3>2. CASE n # m + 1
      <4>1. n \in 0 .. m /\ g[n] = f[n] /\ (n # 0 => g[n - 1] = f[n - 1])
        BY <3>2
      <4>2. f[n] = IF n = 0 THEN <<>>
                   ELSE IF queue[n].tag = squash THEN f[n - 1]
                   ELSE Append(f[n - 1], queue[n])
        BY <2>1, <4>1 DEF Survival
      <4> HIDE DEF g
      <4> QED
        BY <4>1, <4>2
    <3> QED
      BY <3>1, <3>2
  <2>3. g = [n \in 0 .. m + 1 |-> g[n]]
    OBVIOUS
  <2> HIDE DEF g
  <2>4. Survival(g, queue, squash, m + 1)
    BY <2>2, <2>3 DEF Survival
  <2> QED
    BY <2>4
<1> HIDE DEF S
<1>3. \A m \in Nat : m \in S
  BY <1>1, <1>2, NaturalInduction
<1> QED
  BY <1>3 DEF S

\* Surviving is the last value of that function.
LEMMA SurvivingIsLast ==
    ASSUME NEW queue, NEW squash, Len(queue) \in Nat
    PROVE  \E f : /\ Survival(f, queue, squash, Len(queue))
                  /\ Surviving(queue, squash) = f[Len(queue)]
<1> DEFINE f == CHOOSE f : Survival(f, queue, squash, Len(queue))
<1>1. Survival(f, queue, squash, Len(queue))
  BY SurvivalExists
<1>2. Surviving(queue, squash) = f[Len(queue)]
  BY DEF Surviving, Survival
<1> HIDE DEF f
<1> QED
  BY <1>1, <1>2

\* What survives of the first operations depends on them alone.
LEMMA SurvivalOfPrefix ==
    ASSUME NEW queue, NEW longer, NEW squash, NEW m \in Nat, NEW k \in Nat, k >= m,
           NEW f, NEW g, \A i \in 1 .. m : longer[i] = queue[i],
           Survival(f, queue, squash, m), Survival(g, longer, squash, k)
    PROVE  \A n \in 0 .. m : f[n] = g[n]
<1> DEFINE S == {n \in Nat : n <= m => f[n] = g[n]}
<1>1. 0 \in S
  BY DEF Survival
<1>2. ASSUME NEW n \in Nat, n \in S PROVE n + 1 \in S
  <2>1. CASE n + 1 <= m
    <3>1. n + 1 \in 0 .. m /\ n + 1 \in 0 .. k /\ n + 1 \in 1 .. m /\ n + 1 # 0
          /\ (n + 1) - 1 = n /\ f[n] = g[n]
      BY <1>2, <2>1
    <3>2. f[n + 1] = IF queue[n + 1].tag = squash THEN f[n] ELSE Append(f[n], queue[n + 1])
      BY <3>1 DEF Survival
    <3>3. g[n + 1] = IF longer[n + 1].tag = squash THEN g[n]
                     ELSE Append(g[n], longer[n + 1])
      BY <3>1 DEF Survival
    <3> QED
      BY <3>1, <3>2, <3>3
  <2> QED
    BY <2>1
<1>3. \A n \in Nat : n \in S
  <2> HIDE DEF S
  <2> QED
    BY <1>1, <1>2, NaturalInduction
<1> QED
  BY <1>3

\* Nothing survives of nothing.
LEMMA EmptySurvives == \A squash : Surviving(<<>>, squash) = <<>>
  BY SurvivingIsLast DEF Survival

\* The youngest operation of a queue survives unless its own tag is squashed, and makes
\* no difference to the others.
LEMMA YoungestSurvives ==
    ASSUME NEW S, NEW queue \in Seq(S), NEW op \in S, NEW squash
    PROVE  Surviving(Append(queue, op), squash) =
              IF op.tag = squash THEN Surviving(queue, squash)
              ELSE Append(Surviving(queue, squash), op)
<1> DEFINE m == Len(queue)
           longer == Append(queue, op)
<1>1. m \in Nat /\ Len(longer) = m + 1 /\ longer[m + 1] = op
      /\ \A i \in 1 .. m : longer[i] = queue[i]
  OBVIOUS
<1> HIDE DEF longer
<1>2. PICK f : Survival(f, queue, squash, m) /\ Surviving(queue, squash) = f[m]
  BY <1>1, SurvivingIsLast
<1>3. PICK g : /\ Survival(g, longer, squash, m + 1)
               /\ Surviving(longer, squash) = g[m + 1]
  BY <1>1, SurvivingIsLast
<1>4. f[m] = g[m]
  <2>1. m + 1 \in Nat /\ m + 1 >= m /\ m \in 0 .. m
    BY <1>1
  <2> HIDE DEF m
  <2>2. \A n \in 0 .. m : f[n] = g[n]
    BY <1>1, <1>2, <1>3, <2>1, SurvivalOfPrefix
  <2> QED
    BY <2>1, <2>2
<1>5. m + 1 \in 0 .. m + 1 /\ m + 1 # 0 /\ (m + 1) - 1 = m
  BY <1>1
<1>6. g[m + 1] = IF op.tag = squash THEN g[m] ELSE Append(g[m], op)
  BY <1>1, <1>3, <1>5 DEF Survival
<1> QED
  BY <1>2, <1>3, <1>4, <1>6 DEF longer

\* What survives of one operation.
LEMMA OneSurvives ==
    ASSUME NEW op, NEW squash
    PROVE  Surviving(<<op>>, squash) = IF op.tag = squash THEN <<>> ELSE <<op>>
<1>1. <<>> \in Seq({op}) /\ Append(<<>>, op) = <<op>>
  OBVIOUS
<1>2. Surviving(Append(<<>>, op), squash) =
        IF op.tag = squash THEN Surviving(<<>>, squash)
        ELSE Append(Surviving(<<>>, squash), op)
  <2>1. \A queue \in Seq({op}) : Surviving(Append(queue, op), squash) =
          IF op.tag = squash THEN Surviving(queue, squash)
          ELSE Append(Surviving(queue, squash), op)
    BY YoungestSurvives
  <2> QED
    BY <1>1, <2>1
<1> QED
  BY <1>1, <1>2, EmptySurvives

-----------------------------------------------------------------------------
(* What a consumer sees.                                                   *)

\* A response that counts no result shows none.
LEMMA NothingIsVisible ==
    ASSUME NEW rsp, rsp.result_count = 0
    PROVE  VisibleResults(rsp) = <<>>
  BY DEF VisibleResults

\* A response that counts one result shows the first.
LEMMA OneIsVisible ==
    ASSUME NEW rsp, NEW a, NEW b, rsp.result_count = 1, rsp.results = <<a, b>>
    PROVE  VisibleResults(rsp) = <<[role |-> a.role, value |-> a.value]>>
  BY DEF VisibleResults

\* A response that counts two results shows both.
LEMMA TwoAreVisible ==
    ASSUME NEW rsp, NEW a, NEW b, rsp.result_count = 2, rsp.results = <<a, b>>
    PROVE  VisibleResults(rsp) = <<[role |-> a.role, value |-> a.value],
                                   [role |-> b.role, value |-> b.value]>>
  BY DEF VisibleResults

\* Lists of at most one element each, one after the other.
LEMMA ShortListsConcatenate ==
    ASSUME NEW a, NEW b
    PROVE  /\ <<>> \o <<>> = <<>>
           /\ <<a>> \o <<>> = <<a>>
           /\ <<>> \o <<b>> = <<b>>
           /\ <<a>> \o <<b>> = <<a, b>>
<1>1. <<>> \in Seq({a, b}) /\ <<a>> \in Seq({a, b}) /\ <<b>> \in Seq({a, b})
  OBVIOUS
<1>2. Append(<<a>>, b) = <<a>> \o <<b>>
  BY <1>1, AppendIsConcat
<1>3. Append(<<a>>, b) = <<a, b>>
  <2>1. PICK s \in Seq({a, b}) : s = Append(<<a>>, b)
    BY <1>1, AppendProperties
  <2>2. Len(s) = 2 /\ s[1] = a /\ s[2] = b
    BY <1>1, <2>1, AppendProperties
  <2>3. PICK t \in Seq({a, b}) : t = <<a, b>> /\ Len(t) = 2 /\ t[1] = a /\ t[2] = b
    <3>1. /\ <<a, b>> \in Seq({a, b}) /\ Len(<<a, b>>) = 2
          /\ <<a, b>>[1] = a /\ <<a, b>>[2] = b
      OBVIOUS
    <3> QED
      BY <3>1
  <2>4. s = t
    BY <2>2, <2>3, SeqEqual
  <2> QED
    BY <2>1, <2>3, <2>4
<1>4. \A s \in Seq({a, b}) : s \o <<>> = s /\ <<>> \o s = s
  BY ConcatEmptySeq
<1> QED
  BY <1>1, <1>2, <1>3, <1>4

\* What a queue of at most one operation leaves of itself.
Rest(held, squash) ==
    IF held = <<>> THEN <<>> ELSE IF held[1].tag = squash THEN <<>> ELSE held

\* A stage behind a queue loses its operation to its own tag alone.
SurvivesBehind(S, queue, held, squash) ==
    /\ queue \o held \in Seq(S) /\ Surviving(queue \o held, squash) \in Seq(S)
    /\ Surviving(queue \o held, squash) = Surviving(queue, squash) \o Rest(held, squash)

\* It does.
LEMMA StageSurvives ==
    ASSUME NEW S, NEW queue \in Seq(S), NEW squash,
           NEW held \in {<<>>} \cup {<<op>> : op \in S}, Surviving(queue, squash) \in Seq(S)
    PROVE  SurvivesBehind(S, queue, held, squash)
<1> DEFINE left == Surviving(queue, squash)
<1>1. CASE held = <<>>
  <2>1. queue \o <<>> = queue /\ left \o <<>> = left
    <3> HIDE DEF left
    <3> QED
      BY ConcatEmptySeq
  <2> QED
    BY <1>1, <2>1 DEF Rest, SurvivesBehind
<1>2. CASE held # <<>>
  <2>1. PICK op \in S : held = <<op>> /\ held[1] = op
    BY <1>2
  <2>2. \A s \in Seq(S) : s \o <<op>> = Append(s, op) /\ s \o <<>> = s /\ s \o <<op>> \in Seq(S)
    OBVIOUS
  <2>3. Surviving(Append(queue, op), squash) =
            IF op.tag = squash THEN left ELSE Append(left, op)
    BY YoungestSurvives
  <2>4. Rest(held, squash) = IF op.tag = squash THEN <<>> ELSE <<op>>
    BY <1>2, <2>1 DEF Rest
  <2> HIDE DEF left
  <2>5. Surviving(queue \o held, squash) = left \o Rest(held, squash)
    BY <2>1, <2>2, <2>3, <2>4 DEF left
  <2>6. left \o Rest(held, squash) \in Seq(S)
    BY <2>2, <2>4 DEF left
  <2> QED
    BY <2>1, <2>2, <2>5, <2>6 DEF left, SurvivesBehind
<1> QED
  BY <1>1, <1>2

\* The oldest of a queue, and the others.
LEMMA OldestOfQueue ==
    ASSUME NEW S, NEW op \in S, NEW queue \in Seq(S)
    PROVE  /\ <<op>> \o queue # <<>>
           /\ Head(<<op>> \o queue) = op
           /\ Tail(<<op>> \o queue) = queue
<1>1. PICK s \in Seq(S) :
          /\ s = <<op>> \o queue
          /\ Len(s) = Len(queue) + 1
          /\ \A i \in 1 .. Len(queue) + 1 : s[i] = IF i <= 1 THEN op ELSE queue[i - 1]
  <2>1. PICK first \in Seq(S) : first = <<op>> /\ Len(first) = 1 /\ first[1] = op
    <3>1. <<op>> \in Seq(S) /\ Len(<<op>>) = 1 /\ <<op>>[1] = op
      OBVIOUS
    <3> QED
      BY <3>1, Zenon
  <2>2. /\ first \o queue \in Seq(S)
        /\ Len(first \o queue) = Len(first) + Len(queue)
        /\ \A i \in 1 .. Len(first) + Len(queue) :
              (first \o queue)[i] = IF i <= Len(first) THEN first[i] ELSE queue[i - Len(first)]
    BY ConcatProperties
  <2>3. PICK s \in Seq(S) : s = first \o queue
    BY <2>2
  <2>4. Len(s) = Len(queue) + 1
    BY <2>1, <2>2, <2>3
  <2>5. \A i \in 1 .. Len(queue) + 1 : s[i] = IF i <= 1 THEN op ELSE queue[i - 1]
    BY <2>1, <2>2, <2>3
  <2> QED
    BY <2>1, <2>3, <2>4, <2>5
<1>2. Len(s) = Len(queue) + 1 /\ s[1] = op /\ \A i \in 1 .. Len(queue) : s[i + 1] = queue[i]
  <2>1. Len(queue) \in Nat
    OBVIOUS
  <2>2. ASSUME NEW i \in 1 .. Len(queue) PROVE s[i + 1] = queue[i]
    BY <1>1, <2>1
  <2> QED
    BY <1>1, <2>1, <2>2
<1>3. s # <<>> /\ Head(s) = op /\ Tail(s) \in Seq(S) /\ Len(Tail(s)) = Len(queue)
  BY <1>2
<1>4. \A i \in 1 .. Len(queue) : Tail(s)[i] = queue[i]
  BY <1>2, <1>3
<1>5. Tail(s) = queue
  BY <1>3, <1>4, SeqEqual
<1> QED
  BY <1>1, <1>3, <1>5
=============================================================================
