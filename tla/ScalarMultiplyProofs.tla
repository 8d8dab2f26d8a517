------------------------ MODULE ScalarMultiplyProofs ------------------------
(***************************************************************************)
(* Theorems about ScalarMultiply, for every register width, set of operand *)
(* sizes and set of requests its assumptions allow.                        *)
(***************************************************************************)
EXTENDS ScalarMultiply, ExecuteBackendProofs

-----------------------------------------------------------------------------
(* Arithmetic of two halves.                                               *)

\* The product of two numbers below a bound is below the product of the bounds.
LEMMA ProductBound ==
    ASSUME NEW m \in Nat \ {0}, NEW n \in Nat \ {0}, NEW x \in 0 .. m - 1, NEW y \in 0 .. n - 1
    PROVE  x * y \in Nat /\ x * y < m * n
<1>1. PICK c \in Nat : m = x + 1 + c
  <2>1. m - x - 1 \in Nat /\ m = x + 1 + (m - x - 1)
    OBVIOUS
  <2> QED
    BY <2>1
<1>2. PICK d \in Nat : n = y + 1 + d
  <2>1. n - y - 1 \in Nat /\ n = y + 1 + (n - y - 1)
    OBVIOUS
  <2> QED
    BY <2>1
<1>3. m * n = x * y + x * (1 + d) + n * (1 + c)
  BY <1>1, <1>2
<1>4. x * y \in Nat /\ x * (1 + d) \in Nat /\ n * (1 + c) \in Nat /\ n * (1 + c) >= n
  BY <1>1, <1>2
<1> QED
  BY <1>3, <1>4

\* The quotient of a number below a product is below the other factor.
LEMMA QuotientBound ==
    ASSUME NEW m \in Nat \ {0}, NEW n \in Nat \ {0}, NEW v \in Nat, v < m * n
    PROVE  v \div m \in 0 .. n - 1
<1>1. v \in Int
  OBVIOUS
<1>2. PICK q \in Int, r \in 0 .. m - 1 : q = v \div m /\ r = v % m /\ v = m * q + r
  BY <1>1, Division, Zenon
<1>3. q >= 0
  <2>1. ASSUME q < 0 PROVE FALSE
    <3>1. PICK c \in Nat : q = -(1 + c)
      <4>1. -q - 1 \in Nat /\ q = -(1 + (-q - 1))
        BY <2>1
      <4> QED
        BY <4>1
    <3>2. m * q = -m - m * c /\ m * c \in Nat
      BY <3>1
    <3> QED
      BY <1>2, <3>2
  <2> QED
    BY <2>1
<1>4. q < n
  <2>1. ASSUME q >= n PROVE FALSE
    <3>1. PICK c \in Nat : q = n + c
      <4>1. q - n \in Nat /\ q = n + (q - n)
        BY <2>1
      <4> QED
        BY <4>1
    <3>2. m * q = m * n + m * c /\ m * c \in Nat
      BY <3>1
    <3> QED
      BY <1>2, <3>2
  <2> QED
    BY <2>1
<1> QED
  BY <1>2, <1>3, <1>4

\* The cross sum and the low sum of two pairs of halves below b fit one bit more than a
\* register p, and their carries make the product less e high halves.
LongMultiplies(b, p, e, l0, l1, r0, r1, cross, low_sum) ==
    /\ cross \in 0 .. 2 * p - 1 /\ low_sum \in 0 .. 2 * p - 1
    /\ ((((l1 * r1 - e) % p) + (cross \div b) + (low_sum \div p)) % p) * p + (low_sum % p)
          = ((l1 * b + l0) * (r1 * b + r0) - e * p) % (p * p)

\* The carries of the low sum, of the cross sum and of the corrected high half are the
\* ones of long multiplication modulo the double register, for halves below b.
LEMMA SchoolbookProduct ==
    ASSUME NEW b \in Nat \ {0}, NEW p, p = b * b, NEW e \in Int,
           NEW l0 \in 0 .. b - 1, NEW l1 \in 0 .. b - 1,
           NEW r0 \in 0 .. b - 1, NEW r1 \in 0 .. b - 1,
           NEW cross, cross = l0 * r1 + l1 * r0,
           NEW low_sum, low_sum = l0 * r0 + (cross % b) * b
    PROVE  LongMultiplies(b, p, e, l0, l1, r0, r1, cross, low_sum)
<1>1. p \in Nat \ {0}
  OBVIOUS
<1>2. PICK c00 \in Nat, c01 \in Nat, c10 \in Nat, c11 \in Nat :
          /\ c00 = l0 * r0 /\ c01 = l0 * r1 /\ c10 = l1 * r0 /\ c11 = l1 * r1
          /\ c00 < p /\ c01 < p /\ c10 < p
  <2>1. l0 * r0 \in Nat /\ l0 * r1 \in Nat /\ l1 * r0 \in Nat /\ l1 * r1 \in Nat
        /\ l0 * r0 < p /\ l0 * r1 < p /\ l1 * r0 < p
    BY ProductBound
  <2> QED
    BY <2>1
<1>3. cross \in 0 .. 2 * p - 1 /\ cross = c01 + c10
  BY <1>1, <1>2
<1>3a. cross \in Int
  BY <1>3
<1>4. PICK ch \in Int, cl \in 0 .. b - 1 :
          ch = cross \div b /\ cl = cross % b /\ cross = b * ch + cl
  BY <1>3a, Division, Zenon
<1>5. PICK clb \in Nat : clb = cl * b /\ clb <= p - b
  <2>1. PICK d \in Nat : b = cl + 1 + d
    <3>1. b - cl - 1 \in Nat /\ b = cl + 1 + (b - cl - 1)
      OBVIOUS
    <3> QED
      BY <3>1
  <2>2. p = cl * b + b + d * b /\ d * b \in Nat /\ cl * b \in Nat
    BY <2>1
  <2> QED
    BY <1>1, <2>2
<1>6. low_sum \in 0 .. 2 * p - 1 /\ low_sum = c00 + clb
  BY <1>1, <1>2, <1>4, <1>5
<1>6a. low_sum \in Int
  BY <1>6
<1>7. PICK c \in Int, s \in 0 .. p - 1 :
          c = low_sum \div p /\ s = low_sum % p /\ low_sum = p * c + s
  BY <1>1, <1>6a, Division, Zenon
<1>8. PICK q1 \in Int, high \in 0 .. p - 1 :
          high = (c11 - e) % p /\ c11 - e = p * q1 + high
  <2>1. c11 - e \in Int
    BY <1>2
  <2>2. \E q \in Int, r \in 0 .. p - 1 :
            q = (c11 - e) \div p /\ r = (c11 - e) % p /\ c11 - e = p * q + r
    BY <1>1, <2>1, Division, Zenon
  <2> QED
    BY <2>2
<1>9. PICK q2 \in Int, t \in 0 .. p - 1 :
          t = (high + ch + c) % p /\ high + ch + c = p * q2 + t
  <2>1. high + ch + c \in Int
    BY <1>1, <1>8
  <2>2. \E q \in Int, r \in 0 .. p - 1 :
            q = (high + ch + c) \div p /\ r = (high + ch + c) % p /\ high + ch + c = p * q + r
    BY <1>1, <2>1, Division, Zenon
  <2> QED
    BY <2>2
<1>10. PICK f \in Int : f = e * p
  BY <1>1
<1>11. (l1 * b + l0) * (r1 * b + r0) = c11 * p + cross * b + c00
  <2>1. (l1 * b + l0) * (r1 * b + r0) =
            (l1 * r1) * (b * b) + (l0 * r1 + l1 * r0) * b + l0 * r0
    OBVIOUS
  <2> QED
    BY <1>2, <2>1
<1>12. cross * b = ch * p + clb
  BY <1>4, <1>5
<1>13. c11 * p - f + ch * p + p * c + s = (p * p) * (q1 + q2) + (t * p + s)
  <2>1. c11 * p - f = (p * q1 + high) * p
    <3>1. c11 * p - f = (c11 - e) * p
      BY <1>1, <1>2, <1>10
    <3> QED
      BY <1>8, <3>1
  <2>2. (p * q1 + high) * p + ch * p + p * c = (p * q1 + (high + ch + c)) * p
    BY <1>1
  <2>3. (p * q1 + (p * q2 + t)) * p = (p * p) * (q1 + q2) + t * p
    BY <1>1
  <2>4. PICK x \in Int, y \in Int, z \in Int, u \in Int, v \in Int :
            x = c11 * p - f /\ y = ch * p /\ z = p * c
            /\ u = (p * p) * (q1 + q2) /\ v = t * p
    BY <1>1, <1>2
  <2>5. x + y + z = u + v
    BY <1>9, <2>1, <2>2, <2>3, <2>4
  <2> QED
    BY <1>1, <2>4, <2>5
<1>14. t * p + s \in 0 .. p * p - 1
  <2>1. PICK d \in Nat : p = t + 1 + d
    <3>1. p - t - 1 \in Nat /\ p = t + 1 + (p - t - 1)
      BY <1>1
    <3> QED
      BY <3>1
  <2>2. p * p = t * p + p + d * p /\ d * p \in Nat /\ t * p \in Nat /\ p * p \in Nat
    BY <1>1, <2>1
  <2> QED
    BY <1>1, <2>2
<1>15. (l1 * b + l0) * (r1 * b + r0) - e * p = (p * p) * (q1 + q2) + (t * p + s)
  <2>1. PICK x \in Int, y \in Int, z \in Int : x = c11 * p /\ y = ch * p /\ z = p * c
    BY <1>1, <1>2
  <2>2. (l1 * b + l0) * (r1 * b + r0) = x + (y + clb) + c00
    BY <1>11, <1>12, <2>1
  <2>3. c00 + clb = z + s
    BY <1>6, <1>7, <2>1
  <2>4. (l1 * b + l0) * (r1 * b + r0) - f = x - f + y + z + s
    BY <1>1, <2>1, <2>2, <2>3
  <2> QED
    BY <1>10, <1>13, <2>1, <2>4
<1>16. ((l1 * b + l0) * (r1 * b + r0) - e * p) % (p * p) = t * p + s
  <2>1. p * p \in Nat \ {0} /\ q1 + q2 \in Int
    BY <1>1
  <2> QED
    <3>1. PICK pp \in Nat \ {0}, q \in Int, r \in 0 .. p * p - 1, v \in Int :
              /\ pp = p * p /\ q = q1 + q2 /\ r = t * p + s
              /\ v = (l1 * b + l0) * (r1 * b + r0) - e * p
      BY <1>10, <1>14, <2>1
    <3>2. r \in 0 .. pp - 1 /\ v = pp * q + r
      BY <1>15, <3>1
    <3>3. v % pp = r
      BY <3>2, DivisionIsUnique
    <3> QED
      BY <3>1, <3>3
<1>17. ((l1 * r1 - e) % p) + (cross \div b) + (low_sum \div p) = high + ch + c
  BY <1>2, <1>4, <1>7, <1>8
<1> QED
  BY <1>3, <1>6, <1>7, <1>9, <1>16, <1>17 DEF LongMultiplies

-----------------------------------------------------------------------------
(* The powers of two the stages are measured by.                           *)

\* The requests whose sources have been truncated to their operand size.
PreparedRequest ==
    {op \in MultiplyRequest :
        /\ op.source_left \in Word(Width[op.operand_size])
        /\ op.source_right \in Word(Width[op.operand_size])}

\* The powers of two up to the product's are powers.
LEMMA ProductPowersAdd ==
    \A m, n \in Nat : m + n <= 2 * XLEN => 2^m \in Nat \ {0} /\ 2^(m + n) = 2^m * 2^n
<1>1. 2 * XLEN \in Nat
  BY WidthAssumption
<1> QED
  BY <1>1, PowerAssumption, PowersAdd

\* The register is one of two halves.
LEMMA RegisterWidth ==
    XLEN \in Nat /\ Half \in Nat /\ XLEN = Half + Half
<1>1. XLEN \in Nat /\ XLEN % 2 = 0
  BY WidthAssumption
<1> QED
  BY <1>1 DEF Half

\* The powers of two of a register.
LEMMA RegisterPowers ==
    \E b \in Nat \ {0} :
        2^Half = b /\ 2^XLEN = b * b /\ 2^(2 * XLEN) = (b * b) * (b * b)
<1>1. PICK h \in Nat, x \in Nat : h = Half /\ x = XLEN /\ x = h + h
  BY RegisterWidth
<1>2. h + h <= 2 * XLEN /\ x + x <= 2 * XLEN /\ x + x = 2 * XLEN
  BY <1>1
<1>3. 2^h \in Nat \ {0} /\ 2^(h + h) = 2^h * 2^h /\ 2^(x + x) = 2^x * 2^x
  BY <1>2, ProductPowersAdd
<1> QED
  BY <1>1, <1>2, <1>3

\* The width of an operand size, and its powers of two.
LEMMA SizePowers ==
    ASSUME NEW s \in OperandSize
    PROVE  /\ Width[s] \in Nat \ {0} /\ (Width[s] = XLEN \/ 2 * Width[s] <= XLEN)
           /\ XLEN \in Nat \ {0, 1}
           /\ \E half \in Nat \ {0} :
                 /\ 2^(Width[s] - 1) = half /\ 2^Width[s] = 2 * half
                 /\ 2^(2 * Width[s]) = (2 * half) * (2 * half)
                 /\ 2^(2 * Width[s] - 1) = half * (2 * half)
<1>1. /\ Width[s] \in Nat \ {0} /\ (Width[s] = XLEN \/ 2 * Width[s] <= XLEN)
      /\ XLEN \in Nat \ {0, 1}
  BY WidthAssumption
<1>2. PICK n \in Nat, w \in Nat : n = Width[s] - 1 /\ w = Width[s] /\ w = n + 1
  BY <1>1
<1>3. n + 1 <= 2 * XLEN /\ w + w <= 2 * XLEN /\ n + w <= 2 * XLEN /\ 1 \in Nat
  BY <1>1, <1>2
<1>4. /\ 2^n \in Nat \ {0} /\ 2^(n + 1) = 2^n * 2^1
      /\ 2^(w + w) = 2^w * 2^w /\ 2^(n + w) = 2^n * 2^w
  BY <1>3, ProductPowersAdd
<1>5. w + w = 2 * Width[s] /\ n + w = 2 * Width[s] - 1 /\ 2^1 = 2
  BY <1>2
<1>6. PICK half \in Nat \ {0} : half = 2^n /\ 2^w = 2 * half
  BY <1>2, <1>4, <1>5
<1> QED
  BY <1>1, <1>2, <1>4, <1>5, <1>6

\* A size that does not fill the register fits in it twice, and leaves its sign bit clear.
LEMMA NarrowSizes ==
    ASSUME NEW s \in OperandSize, Width[s] # XLEN
    PROVE  \E gap \in Nat \ {0}, top \in Nat \ {0} :
              /\ 2^XLEN = 2^(2 * Width[s]) * gap
              /\ 2^(XLEN - 1) = top /\ 2^XLEN = 2 * top /\ 2^Width[s] <= top
<1>1. PICK w \in Nat \ {0}, k \in Nat : w = Width[s] /\ XLEN = 2 * w + k /\ XLEN \in Nat
  <2>1. /\ Width[s] \in Nat \ {0} /\ XLEN - 2 * Width[s] \in Nat /\ XLEN \in Nat
        /\ XLEN = 2 * Width[s] + (XLEN - 2 * Width[s])
    BY SizePowers
  <2> QED
    BY <2>1
<1>2. PICK e \in Nat, n \in Nat, d \in Nat :
          e = 2 * w /\ n = XLEN - 1 /\ n + 1 = XLEN /\ d = n - w /\ n = w + d
  <2>1. 2 * w \in Nat /\ XLEN - 1 \in Nat /\ (XLEN - 1) - w \in Nat
    BY <1>1
  <2> QED
    BY <1>1, <2>1
<1>3. /\ 2^e \in Nat \ {0} /\ 2^k \in Nat \ {0} /\ 2^(e + k) = 2^e * 2^k
      /\ 2^n \in Nat \ {0} /\ 2^(n + 1) = 2^n * 2^1
      /\ 2^w \in Nat \ {0} /\ 2^(w + d) = 2^w * 2^d
  <2>1. e + k <= 2 * XLEN /\ n + 1 <= 2 * XLEN /\ w + d <= 2 * XLEN /\ k + e <= 2 * XLEN
        /\ 1 \in Nat
    BY <1>1, <1>2
  <2> QED
    BY <2>1, ProductPowersAdd
<1>4. 2^d \in Nat \ {0}
  <2>1. d + w <= 2 * XLEN
    BY <1>1, <1>2
  <2> QED
    BY <2>1, ProductPowersAdd
<1>5. 2^1 = 2
  OBVIOUS
<1>6. PICK gap \in Nat \ {0}, top \in Nat \ {0}, small \in Nat \ {0}, more \in Nat \ {0} :
          gap = 2^k /\ top = 2^n /\ small = 2^w /\ more = 2^d
  BY <1>3, <1>4
<1>7. top = small * more /\ small <= small * more
  BY <1>2, <1>3, <1>6
<1>8. 2^XLEN = 2 * top
  BY <1>2, <1>3, <1>5, <1>6
<1> QED
  BY <1>1, <1>2, <1>3, <1>6, <1>7, <1>8

-----------------------------------------------------------------------------
(* The stages a prepared request passes through.                           *)

Multiplied(op) == CalculatedPartialProducts([op |-> op])
Reduced(op) == CalculatedReduction(Multiplied(op))

\* The fields of a prepared request.
LEMMA PreparedFields ==
    ASSUME NEW op \in PreparedRequest
    PROVE  /\ op \in MultiplyRequest /\ op.tag \in Tag /\ op.operand_size \in OperandSize
           /\ op.signed_operation \in BOOLEAN /\ op.widening \in BOOLEAN
           /\ op.update_flags \in BOOLEAN
           /\ op.source_left \in Word(XLEN) /\ op.source_right \in Word(XLEN)
           /\ op.source_left \in Word(Width[op.operand_size])
           /\ op.source_right \in Word(Width[op.operand_size])
  BY DEF PreparedRequest, MultiplyRequest

\* A size's vectors are vectors of the register.
LEMMA SizeFits ==
    ASSUME NEW s \in OperandSize
    PROVE  Word(Width[s]) \subseteq Word(XLEN)
<1>1. PICK half \in Nat \ {0} :
          2^Width[s] = 2 * half /\ 2^(2 * Width[s]) = (2 * half) * (2 * half)
  BY SizePowers
<1>2. CASE Width[s] = XLEN
  BY <1>2
<1>3. CASE Width[s] # XLEN
  <2>1. PICK gap \in Nat \ {0}, top \in Nat \ {0} :
            2^XLEN = 2 * top /\ 2^Width[s] <= top
    BY <1>3, NarrowSizes
  <2>2. 2^Width[s] \in Nat /\ 2^XLEN \in Nat /\ 2^Width[s] <= 2^XLEN
    BY <1>1, <2>1
  <2> QED
    BY <2>2, WordIsMonotone
<1> QED
  BY <1>2, <1>3

\* Preparing a request prepares it.
LEMMA PreparationIsPrepared ==
    ASSUME NEW r \in MultiplyRequest
    PROVE  /\ PreparedOperands(r).op \in PreparedRequest
           /\ PreparedOperands(r) = [op |-> PreparedOperands(r).op]
           /\ PreparedOperands(r).op.tag = r.tag
<1> DEFINE w == Width[r.operand_size]
           left == Truncate(r.source_left, w)
           right == Truncate(r.source_right, w)
<1>1. r.operand_size \in OperandSize /\ r.source_left \in Int /\ r.source_right \in Int
  <2>1. 2^XLEN \in Nat
    BY RegisterPowers
  <2> QED
    BY <2>1 DEF MultiplyRequest, Word
<1>2. left \in Word(w) /\ right \in Word(w)
  BY <1>1, SizePowers, TruncateIsWord
<1>3. left \in Word(XLEN) /\ right \in Word(XLEN)
  BY <1>1, <1>2, SizeFits
<1>4. PreparedOperands(r) = [op |-> [r EXCEPT !.source_left = left, !.source_right = right]]
  BY DEF PreparedOperands, MultiplyRequest
<1> HIDE DEF left, right, w
<1>5. PICK op : op = [r EXCEPT !.source_left = left, !.source_right = right]
  OBVIOUS
<1>6. /\ op \in MultiplyRequest /\ op.operand_size = r.operand_size /\ op.tag = r.tag
      /\ op.source_left = left /\ op.source_right = right
  BY <1>3, <1>5 DEF MultiplyRequest
<1>7. op \in PreparedRequest
  BY <1>2, <1>6 DEF PreparedRequest, w
<1>8. PreparedOperands(r) = [op |-> op]
  BY <1>4, <1>5
<1> QED
  BY <1>6, <1>7, <1>8

\* A register value is its two halves.
LEMMA HalvesOfRegister ==
    ASSUME NEW v \in Word(XLEN), NEW b \in Nat \ {0}, 2^Half = b, 2^XLEN = b * b
    PROVE  /\ LowHalf(v) \in 0 .. b - 1 /\ HighHalf(v) \in 0 .. b - 1
           /\ v = HighHalf(v) * b + LowHalf(v)
<1>1. v \in Nat /\ v \in Int /\ v < b * b
  BY DEF Word
<1>2. PICK q \in Int, r \in 0 .. b - 1 : q = v \div b /\ r = v % b /\ v = b * q + r
  BY <1>1, Division, ZenonT(30)
<1>3. q \in 0 .. b - 1
  BY <1>1, <1>2, QuotientBound
<1>5. q \in 0 .. b - 1 /\ v = q * b + r
  BY <1>2, <1>3
<1> QED
  BY <1>2, <1>5 DEF LowHalf, HighHalf, Truncate

\* The partial products are the products of the halves, and fit the register.
LEMMA PartialProducts ==
    ASSUME NEW op \in PreparedRequest, NEW b \in Nat \ {0}, 2^Half = b, 2^XLEN = b * b
    PROVE  \E l0, l1, r0, r1 \in 0 .. b - 1 :
              /\ op.source_left = l1 * b + l0
              /\ op.source_right = r1 * b + r0
              /\ Multiplied(op) = [op |-> op, low_low |-> l0 * r0, low_high |-> l0 * r1,
                                   high_low |-> l1 * r0, high_high |-> l1 * r1]
              /\ Multiplied(op) \in PartialProductStage
<1> DEFINE l == op.source_left
           r == op.source_right
<1>1. op \in MultiplyRequest /\ l \in Word(XLEN) /\ r \in Word(XLEN)
  BY PreparedFields
<1>2. PICK l0 \in 0 .. b - 1, l1 \in 0 .. b - 1, r0 \in 0 .. b - 1, r1 \in 0 .. b - 1 :
          /\ l0 = LowHalf(l) /\ l1 = HighHalf(l) /\ r0 = LowHalf(r) /\ r1 = HighHalf(r)
          /\ l = l1 * b + l0 /\ r = r1 * b + r0
  BY SMTT(30), <1>1, HalvesOfRegister
<1>3. Multiplied(op) = [op |-> op, low_low |-> l0 * r0, low_high |-> l0 * r1,
                        high_low |-> l1 * r0, high_high |-> l1 * r1]
  BY <1>2 DEF Multiplied, CalculatedPartialProducts
<1>4. /\ l0 * r0 \in Word(XLEN) /\ l0 * r1 \in Word(XLEN)
      /\ l1 * r0 \in Word(XLEN) /\ l1 * r1 \in Word(XLEN)
  <2>1. ASSUME NEW x \in 0 .. b - 1, NEW y \in 0 .. b - 1 PROVE x * y \in Word(XLEN)
    <3>1. x * y \in Nat /\ x * y < b * b /\ b * b \in Nat
      BY ProductBound
    <3> QED
      BY <3>1 DEF Word
  <2> QED
    BY <2>1
<1>5. Multiplied(op) \in PartialProductStage
  BY <1>1, <1>3, <1>4 DEF PartialProductStage
<1> QED
  BY <1>2, <1>3, <1>5

\* What a negative register operand takes from the high half.
Correction(op, negative, other) ==
    IF op.signed_operation /\ SignSet(negative, XLEN) THEN other ELSE 0

Corrections(op) ==
    Correction(op, op.source_left, op.source_right)
        + Correction(op, op.source_right, op.source_left)

\* The powers of two the reduction is measured by.
LEMMA ReductionPowers ==
    ASSUME NEW s \in OperandSize, NEW b \in Nat \ {0}, 2^XLEN = b * b
    PROVE  /\ 2^(XLEN + 1) = 2 * (b * b)
           /\ \E top \in Nat \ {0} : 2^(XLEN - 1) = top /\ b * b = 2 * top
<1>1. PICK n \in Nat, x \in Nat : n = XLEN - 1 /\ x = XLEN /\ x = n + 1
  BY SizePowers
<1>2. n + 1 <= 2 * XLEN /\ x + 1 <= 2 * XLEN /\ 1 \in Nat
  BY <1>1, SizePowers
<1>3. 2^n \in Nat \ {0} /\ 2^(n + 1) = 2^n * 2^1 /\ 2^(x + 1) = 2^x * 2^1
  BY <1>2, ProductPowersAdd
<1>4. 2^1 = 2 /\ b * b \in Nat
  OBVIOUS
<1> QED
  BY <1>1, <1>3, <1>4

\* The reduction of a prepared request is that of its halves.
LEMMA ReductionOfHalves ==
    ASSUME NEW op \in PreparedRequest, NEW b \in Nat \ {0}, 2^Half = b, 2^XLEN = b * b
    PROVE  \E l0, l1, r0, r1 \in 0 .. b - 1 :
              /\ op.source_left = l1 * b + l0
              /\ op.source_right = r1 * b + r0
              /\ Reduced(op) =
                    [op |-> op, low_low |-> l0 * r0, cross_sum |-> l0 * r1 + l1 * r0,
                     corrected_high_high |-> (l1 * r1 - Corrections(op)) % (b * b)]
              /\ Reduced(op) \in ReductionStage
<1> DEFINE l == op.source_left
           r == op.source_right
<1>1. PICK l0, l1, r0, r1 \in 0 .. b - 1 :
          /\ op.source_left = l1 * b + l0
          /\ op.source_right = r1 * b + r0
          /\ Multiplied(op) = [op |-> op, low_low |-> l0 * r0, low_high |-> l0 * r1,
                               high_low |-> l1 * r0, high_high |-> l1 * r1]
          /\ Multiplied(op) \in PartialProductStage
  BY PartialProducts, Zenon
<1>2. op \in MultiplyRequest /\ l \in Nat /\ r \in Nat
  <2>1. 2^XLEN \in Nat
    OBVIOUS
  <2> QED
    BY <2>1, PreparedFields DEF Word
<1>3. /\ Correction(op, l, r) \in Nat /\ Correction(op, r, l) \in Nat
      /\ Corrections(op) = Correction(op, l, r) + Correction(op, r, l)
  BY <1>2 DEF Correction, Corrections
<1>4. PICK c00 \in Nat, c01 \in Nat, c10 \in Nat, c11 \in Nat, p \in Nat \ {0} :
          /\ c00 = l0 * r0 /\ c01 = l0 * r1 /\ c10 = l1 * r0 /\ c11 = l1 * r1 /\ p = b * b
          /\ c00 < p /\ c01 < p /\ c10 < p
  <2>1. /\ l0 * r0 \in Nat /\ l0 * r1 \in Nat /\ l1 * r0 \in Nat /\ l1 * r1 \in Nat
        /\ l0 * r0 < b * b /\ l0 * r1 < b * b /\ l1 * r0 < b * b /\ b * b \in Nat \ {0}
    BY ProductBound
  <2> QED
    BY <2>1
<1>5. Reduced(op) =
        [op |-> op, low_low |-> c00, cross_sum |-> Truncate(c01 + c10, XLEN + 1),
         corrected_high_high |-> (c11 - Correction(op, l, r) - Correction(op, r, l)) % 2^XLEN]
  BY <1>1, <1>4 DEF Reduced, CalculatedReduction, Correction
<1>6. 2^(XLEN + 1) = 2 * p
  BY <1>4, PreparedFields, ReductionPowers
<1>7. c01 + c10 \in Word(XLEN + 1)
  BY <1>4, <1>6 DEF Word
<1>8. Truncate(c01 + c10, XLEN + 1) = c01 + c10
  <2>1. 2^(XLEN + 1) \in Nat \ {0}
    BY <1>6
  <2> QED
    BY <1>7, <2>1, TruncateOfWord
<1>9. c11 - Correction(op, l, r) - Correction(op, r, l) = c11 - Corrections(op)
      /\ c11 - Corrections(op) \in Int
  BY <1>3
<1>10. (c11 - Corrections(op)) % p \in Word(XLEN) /\ c00 \in Word(XLEN)
  <2>1. (c11 - Corrections(op)) % p \in 0 .. p - 1
    BY <1>9
  <2> QED
    BY <1>4, <2>1 DEF Word
<1>11. Reduced(op) =
        [op |-> op, low_low |-> c00, cross_sum |-> c01 + c10,
         corrected_high_high |-> (c11 - Corrections(op)) % p]
  BY <1>4, <1>5, <1>8, <1>9
<1>12. Reduced(op) \in ReductionStage
  BY <1>2, <1>7, <1>10, <1>11 DEF ReductionStage
<1> QED
  BY <1>1, <1>4, <1>11, <1>12

\* Subtracting the other operand from the high half for each operand that m and n say is
\* negative multiplies, modulo two registers, the numbers they stand for.
CorrectsProduct(p, l, r, m, n) ==
    (l * r - (m * r + n * l) * p) % (p * p) = ((l - m * p) * (r - n * p)) % (p * p)

\* It does.
LEMMA CorrectedProduct ==
    ASSUME NEW p \in Nat \ {0}, NEW l \in Int, NEW r \in Int,
           NEW m \in {0, 1}, NEW n \in {0, 1}
    PROVE  CorrectsProduct(p, l, r, m, n)
<1>1. PICK pp \in Nat \ {0} : pp = p * p
  OBVIOUS
<1>2. PICK x \in Int, y \in Int, k \in Int :
          x = l * r - (m * r + n * l) * p /\ y = (l - m * p) * (r - n * p) /\ k = m * n
  <2>1. l * r - (m * r + n * l) * p \in Int /\ (l - m * p) * (r - n * p) \in Int
        /\ m * n \in Int
    OBVIOUS
  <2> QED
    BY <2>1
<1>3. y = x + pp * k
  <2>1. (l - m * p) * (r - n * p) = l * r - (m * r + n * l) * p + (p * p) * (m * n)
    OBVIOUS
  <2> QED
    BY <1>1, <1>2, <2>1
<1>4. y % pp = x % pp
  <2>1. (x + pp * k) % pp = x % pp
    BY RemainderOfSum, Zenon
  <2> QED
    BY <1>3, <2>1
<1> QED
  BY <1>1, <1>2, <1>4 DEF CorrectsProduct

\* An operand that does not fill the register is not negative in it.
LEMMA NarrowIsPositive ==
    ASSUME NEW s \in OperandSize, Width[s] # XLEN, NEW v \in Word(Width[s])
    PROVE  ~SignSet(v, XLEN)
<1>1. PICK gap \in Nat \ {0}, top \in Nat \ {0} :
          2^(XLEN - 1) = top /\ 2^XLEN = 2 * top /\ 2^Width[s] <= top
  BY NarrowSizes
<1>2. 2^Width[s] \in Nat
  BY SizePowers
<1>3. v \in Nat /\ v < top /\ v \in Word(XLEN) /\ 2^XLEN \in Nat \ {0}
  BY <1>1, <1>2 DEF Word
<1>4. Truncate(v, XLEN) = v
  BY <1>3, TruncateOfWord
<1> QED
  BY <1>1, <1>3, <1>4, SignIsUpperHalf

\* An operand as the register integer it stands for when it fills the register.
RegisterOperand(op, v) ==
    AsOperand(v, XLEN, op.signed_operation /\ Width[op.operand_size] = XLEN)

\* The register integer of a source, by the sign its correction looks at.
LEMMA RegisterOperandIs ==
    ASSUME NEW op \in PreparedRequest, NEW v \in Word(Width[op.operand_size]),
           NEW p \in Nat \ {0}, p = 2^XLEN
    PROVE  /\ v \in Nat
           /\ RegisterOperand(op, v) =
                 IF op.signed_operation /\ SignSet(v, XLEN) THEN v - p ELSE v
<1>1. op.operand_size \in OperandSize /\ op.signed_operation \in BOOLEAN
  BY PreparedFields
<1>2. v \in Word(XLEN) /\ v \in Nat
  <2>1. v \in Word(XLEN)
    BY <1>1, SizeFits
  <2> QED
    BY <2>1 DEF Word
<1>3. Truncate(v, XLEN) = v
  BY <1>2, TruncateOfWord
<1>4. CASE Width[op.operand_size] = XLEN
  BY <1>1, <1>2, <1>3, <1>4 DEF RegisterOperand, AsOperand, AsSigned
<1>5. CASE Width[op.operand_size] # XLEN
  <2>1. ~SignSet(v, XLEN)
    BY <1>1, <1>5, NarrowIsPositive
  <2> QED
    BY <1>1, <1>2, <1>3, <1>5, <2>1 DEF RegisterOperand, AsOperand
<1> QED
  BY <1>2, <1>4, <1>5

\* The reduction stands for the product of the operands modulo two registers.
LEMMA ReductionIsProduct ==
    ASSUME NEW op \in PreparedRequest
    PROVE  CalculatedFullProduct(Reduced(op)) =
              (RegisterOperand(op, op.source_left) * RegisterOperand(op, op.source_right))
                  % 2^(2 * XLEN)
<1> DEFINE l == op.source_left
           r == op.source_right
           stage == Reduced(op)
<1>1. PICK b \in Nat \ {0} :
          2^Half = b /\ 2^XLEN = b * b /\ 2^(2 * XLEN) = (b * b) * (b * b)
  BY RegisterPowers
<1>2. PICK l0, l1, r0, r1 \in 0 .. b - 1 :
          /\ op.source_left = l1 * b + l0
          /\ op.source_right = r1 * b + r0
          /\ Reduced(op) =
                [op |-> op, low_low |-> l0 * r0, cross_sum |-> l0 * r1 + l1 * r0,
                 corrected_high_high |-> (l1 * r1 - Corrections(op)) % (b * b)]
          /\ Reduced(op) \in ReductionStage
  BY <1>1, ReductionOfHalves, ZenonT(30)
<1>3. /\ op \in MultiplyRequest /\ op.operand_size \in OperandSize
      /\ op.signed_operation \in BOOLEAN
      /\ l \in Word(Width[op.operand_size]) /\ r \in Word(Width[op.operand_size])
  BY PreparedFields
<1> DEFINE m == op.signed_operation /\ SignSet(l, XLEN)
           n == op.signed_operation /\ SignSet(r, XLEN)
<1>4. PICK p \in Nat \ {0} : p = b * b /\ p = 2^XLEN
  BY <1>1
<1>5. /\ l \in Nat /\ RegisterOperand(op, l) = IF m THEN l - p ELSE l
      /\ r \in Nat /\ RegisterOperand(op, r) = IF n THEN r - p ELSE r
  BY <1>3, <1>4, RegisterOperandIs
<1>6. Corrections(op) = (IF m THEN r ELSE 0) + (IF n THEN l ELSE 0)
  BY <1>3 DEF Corrections, Correction
<1> HIDE DEF m, n
<1>7. PICK u \in {0, 1}, v \in {0, 1}, e \in Int :
          /\ e = Corrections(op) /\ e = u * r + v * l
          /\ RegisterOperand(op, l) = l - u * p
          /\ RegisterOperand(op, r) = r - v * p
  <2>1. PICK u \in {0, 1}, v \in {0, 1} : (u = IF m THEN 1 ELSE 0) /\ (v = IF n THEN 1 ELSE 0)
    OBVIOUS
  <2>2. Corrections(op) \in Int /\ Corrections(op) = u * r + v * l
    BY <1>5, <1>6, <2>1
  <2>3. RegisterOperand(op, l) = l - u * p /\ RegisterOperand(op, r) = r - v * p
    BY <1>5, <2>1
  <2> QED
    BY <2>2, <2>3
<1>8. PICK cross \in Int, low_sum \in Int :
          /\ cross = l0 * r1 + l1 * r0
          /\ low_sum = l0 * r0 + (cross % b) * b
  <2>1. l0 * r1 + l1 * r0 \in Int /\ (l0 * r1 + l1 * r0) % b \in Int
    OBVIOUS
  <2>2. PICK cross \in Int : cross = l0 * r1 + l1 * r0 /\ cross % b \in Int
    BY <2>1
  <2>3. l0 * r0 + (cross % b) * b \in Int
    BY <2>2
  <2> QED
    BY <2>2, <2>3
<1>9. /\ cross \in 0 .. 2 * p - 1 /\ low_sum \in 0 .. 2 * p - 1
      /\ ((((l1 * r1 - e) % p) + (cross \div b) + (low_sum \div p)) % p) * p + (low_sum % p)
           = ((l1 * b + l0) * (r1 * b + r0) - e * p) % (p * p)
  <2>1. /\ l0 \in 0 .. b - 1 /\ l1 \in 0 .. b - 1 /\ r0 \in 0 .. b - 1 /\ r1 \in 0 .. b - 1
        /\ p = b * b
    BY <1>4
  <2>2. LongMultiplies(b, p, e, l0, l1, r0, r1, cross, low_sum)
    BY <1>8, <2>1, SchoolbookProduct, Zenon
  <2> QED
    BY <2>2, Zenon DEF LongMultiplies
<1>10. Bit(low_sum, XLEN) = low_sum \div p
  <2>1. (low_sum \div p) % 2 = low_sum \div p
    <3>1. PICK q \in Int, t \in 0 .. p - 1 :
              q = low_sum \div p /\ t = low_sum % p /\ low_sum = p * q + t
      BY Division, Zenon
    <3>2. q \in {0, 1}
      <4>1. q < 2
        <5>1. ASSUME q >= 2 PROVE FALSE
          <6>1. PICK c \in Nat : q = 2 + c
            <7>1. q - 2 \in Nat /\ q = 2 + (q - 2)
              BY <5>1
            <7> QED
              BY <7>1
          <6>2. p * q = 2 * p + p * c /\ p * c \in Nat
            BY <6>1
          <6> QED
            BY <1>9, <3>1, <6>2
        <5> QED
          BY <5>1
      <4>2. q > -1
        <5>1. ASSUME q <= -1 PROVE FALSE
          <6>1. PICK c \in Nat : q = -(1 + c)
            <7>1. -q - 1 \in Nat /\ q = -(1 + (-q - 1))
              BY <5>1
            <7> QED
              BY <7>1
          <6>2. p * q = -p - p * c /\ p * c \in Nat
            BY <6>1
          <6> QED
            BY <1>9, <3>1, <6>2
        <5> QED
          BY <5>1
      <4> QED
        BY <4>1, <4>2
    <3> QED
      BY <3>1, <3>2
  <2> QED
    BY <1>4, <2>1 DEF Bit
<1>11. CalculatedFullProduct(stage) =
          ((((l1 * r1 - e) % p) + (cross \div b) + (low_sum \div p)) % p) * p + (low_sum % p)
  <2>1. /\ stage.low_low = l0 * r0 /\ stage.cross_sum = cross
        /\ stage.corrected_high_high = (l1 * r1 - e) % p
    BY <1>2, <1>4, <1>7, <1>8
  <2>2. LowHalf(cross) = cross % b /\ HighHalf(cross) = cross \div b
    BY <1>1 DEF LowHalf, HighHalf, Truncate
  <2> HIDE DEF stage
  <2>3. stage.low_low + LowHalf(stage.cross_sum) * 2^Half = low_sum
    BY <1>1, <1>8, <2>1, <2>2
  <2> QED
    BY <1>4, <1>10, <2>1, <2>2, <2>3, Zenon DEF CalculatedFullProduct, Truncate
<1>12. CalculatedFullProduct(stage) = (l * r - e * p) % (p * p)
  BY <1>2, <1>9, <1>11, Zenon
<1>13. (l * r - (u * r + v * l) * p) % (p * p) = ((l - u * p) * (r - v * p)) % (p * p)
  <2>1. l \in Int /\ r \in Int
    BY <1>5
  <2> HIDE DEF l, r
  <2>2. CorrectsProduct(p, l, r, u, v)
    BY <2>1, CorrectedProduct, Zenon
  <2> QED
    BY <2>2, Zenon DEF CorrectsProduct
<1>14. 2^(2 * XLEN) = p * p
  BY <1>1, <1>4
<1> QED
  BY <1>7, <1>12, <1>13, <1>14, Zenon

-----------------------------------------------------------------------------
(* The product of the operands.                                            *)

\* The number an operand of a request stands for, and the product.
OperandOf(op, v) == AsOperand(v, Width[op.operand_size], op.signed_operation)
ProductOf(op) == OperandOf(op, op.source_left) * OperandOf(op, op.source_right)

\* The product of two numbers within a bound is within its square.
LEMMA ProductOfSigned ==
    ASSUME NEW h \in Nat \ {0}, NEW x \in -h .. h, NEW y \in -h .. h
    PROVE  x * y \in -(h * h) .. h * h
<1>1. ASSUME NEW a \in 0 .. h, NEW c \in 0 .. h PROVE a * c \in Nat /\ a * c <= h * h
  <2>1. PICK d \in Nat, e \in Nat : h = a + d /\ h = c + e
    <3>1. h - a \in Nat /\ h = a + (h - a) /\ h - c \in Nat /\ h = c + (h - c)
      OBVIOUS
    <3> QED
      BY <3>1
  <2>2. h * h = a * c + a * e + d * h
    BY <2>1
  <2>3. a * c \in Nat /\ a * e \in Nat /\ d * h \in Nat
    BY <2>1
  <2> QED
    BY <2>2, <2>3
<1>2. CASE x >= 0 /\ y >= 0
  <2>1. x \in 0 .. h /\ y \in 0 .. h
    BY <1>2
  <2> QED
    BY <1>1, <2>1
<1>3. CASE x >= 0 /\ y < 0
  <2>1. x \in 0 .. h /\ -y \in 0 .. h /\ x * y = -(x * (-y))
    BY <1>3
  <2>2. PICK z \in Nat : z = x * (-y) /\ z <= h * h
    BY <1>1, <2>1
  <2> QED
    BY <2>1, <2>2
<1>4. CASE x < 0 /\ y >= 0
  <2>1. -x \in 0 .. h /\ y \in 0 .. h /\ x * y = -((-x) * y)
    BY <1>4
  <2>2. PICK z \in Nat : z = (-x) * y /\ z <= h * h
    BY <1>1, <2>1
  <2> QED
    BY <2>1, <2>2
<1>5. CASE x < 0 /\ y < 0
  <2>1. -x \in 0 .. h /\ -y \in 0 .. h /\ x * y = (-x) * (-y)
    BY <1>5
  <2>2. PICK z \in Nat : z = (-x) * (-y) /\ z <= h * h
    BY <1>1, <2>1
  <2> QED
    BY <2>1, <2>2
<1> QED
  BY <1>2, <1>3, <1>4, <1>5

\* l and r are the operands of op, negative when m and n say so, and half bounds the product.
OperandsAre(op, half, m, n, l, r) ==
    /\ l = op.source_left /\ r = op.source_right
    /\ m = (IF op.signed_operation /\ l >= half THEN 1 ELSE 0)
    /\ n = (IF op.signed_operation /\ r >= half THEN 1 ELSE 0)
    /\ OperandOf(op, op.source_left) = l - m * (2 * half)
    /\ OperandOf(op, op.source_right) = r - n * (2 * half)
    /\ ProductOf(op) = (l - m * (2 * half)) * (r - n * (2 * half))
    /\ op.signed_operation => ProductOf(op) \in -(half * half) .. half * half

\* The operands and the product of a prepared request, in terms of half the vectors of
\* its width.
LEMMA OperandsMean ==
    ASSUME NEW op \in PreparedRequest, NEW half \in Nat \ {0},
           2^(Width[op.operand_size] - 1) = half, 2^Width[op.operand_size] = 2 * half
    PROVE  \E m, n \in {0, 1}, l, r \in 0 .. 2 * half - 1 :
              OperandsAre(op, half, m, n, l, r)
<1> DEFINE w == Width[op.operand_size]
<1>1. /\ op.source_left \in Word(w) /\ op.source_right \in Word(w)
      /\ op.signed_operation \in BOOLEAN
  BY PreparedFields
<1>2. ASSUME NEW v \in Word(w)
      PROVE  /\ v \in 0 .. 2 * half - 1
             /\ OperandOf(op, v) = IF op.signed_operation /\ v >= half THEN v - 2 * half ELSE v
             /\ op.signed_operation => OperandOf(op, v) \in -half .. half
  <2>1. /\ v \in 0 .. 2 * half - 1
        /\ AsSigned(v, w) = IF v >= half THEN v - 2 * half ELSE v
        /\ AsSigned(v, w) \in -half .. half - 1
    BY SignedValue
  <2>2. Truncate(v, w) = v
    BY TruncateOfWord
  <2> QED
    BY <1>1, <2>1, <2>2 DEF OperandOf, AsOperand
<1>3. PICK l \in 0 .. 2 * half - 1, r \in 0 .. 2 * half - 1 :
          l = op.source_left /\ r = op.source_right
  BY <1>1, <1>2
<1>4. PICK m \in {0, 1}, n \in {0, 1} :
          /\ m = (IF op.signed_operation /\ l >= half THEN 1 ELSE 0)
          /\ n = (IF op.signed_operation /\ r >= half THEN 1 ELSE 0)
  OBVIOUS
<1>5. /\ OperandOf(op, op.source_left) = l - m * (2 * half)
      /\ OperandOf(op, op.source_right) = r - n * (2 * half)
  <2>1. /\ OperandOf(op, op.source_left) =
              IF op.signed_operation /\ l >= half THEN l - 2 * half ELSE l
        /\ OperandOf(op, op.source_right) =
              IF op.signed_operation /\ r >= half THEN r - 2 * half ELSE r
    BY <1>1, <1>2, <1>3
  <2>2. 0 * (2 * half) = 0 /\ 1 * (2 * half) = 2 * half
    OBVIOUS
  <2> QED
    BY <1>4, <2>1, <2>2
<1>6. op.signed_operation => ProductOf(op) \in -(half * half) .. half * half
  <2>1. op.signed_operation => /\ OperandOf(op, op.source_left) \in -half .. half
                               /\ OperandOf(op, op.source_right) \in -half .. half
    BY <1>1, <1>2
  <2> QED
    BY <2>1, ProductOfSigned DEF ProductOf
<1>7. ProductOf(op) = (l - m * (2 * half)) * (r - n * (2 * half))
  BY <1>5 DEF ProductOf
<1> QED
  BY <1>3, <1>4, <1>5, <1>6, <1>7 DEF OperandsAre

\* The reduction of a request keeps it.
LEMMA ReductionKeepsRequest ==
    ASSUME NEW op \in PreparedRequest
    PROVE  Reduced(op).op = op /\ Reduced(op) \in ReductionStage
<1>1. PICK b \in Nat \ {0} : 2^Half = b /\ 2^XLEN = b * b
  BY RegisterPowers
<1>2. PICK l0, l1, r0, r1 \in 0 .. b - 1 :
          /\ op.source_left = l1 * b + l0
          /\ op.source_right = r1 * b + r0
          /\ Reduced(op) =
                [op |-> op, low_low |-> l0 * r0, cross_sum |-> l0 * r1 + l1 * r0,
                 corrected_high_high |-> (l1 * r1 - Corrections(op)) % (b * b)]
          /\ Reduced(op) \in ReductionStage
  BY <1>1, ReductionOfHalves, ZenonT(30)
<1> QED
  BY <1>2

\* A product narrower than the register is corrected and sign extended to the product of
\* the numbers.
LEMMA NarrowProductIs ==
    ASSUME NEW op \in PreparedRequest, Width[op.operand_size] # XLEN
    PROVE  SemanticProduct(Reduced(op)) = ProductOf(op) % 2^(2 * XLEN)
<1> DEFINE w == Width[op.operand_size]
           full == CalculatedFullProduct(Reduced(op))
<1>1. /\ op.operand_size \in OperandSize /\ op.signed_operation \in BOOLEAN
      /\ op.source_left \in Word(XLEN) /\ op.source_right \in Word(XLEN)
      /\ Reduced(op).op = op
  BY PreparedFields, ReductionKeepsRequest
<1>2. PICK half \in Nat \ {0} :
          /\ 2^(w - 1) = half /\ 2^w = 2 * half
          /\ 2^(2 * w) = (2 * half) * (2 * half) /\ 2^(2 * w - 1) = half * (2 * half)
  BY <1>1, SizePowers
<1>3. PICK m, n \in {0, 1}, l, r \in 0 .. 2 * half - 1 :
          OperandsAre(op, half, m, n, l, r)
  <2>1. 2^(Width[op.operand_size] - 1) = half /\ 2^Width[op.operand_size] = 2 * half
    BY <1>2
  <2> QED
    BY <2>1, OperandsMean, Zenon
<1> USE DEF OperandsAre
<1>4. PICK ww \in Nat \ {0}, quarter \in Nat \ {0}, middle \in Nat \ {0}, lr \in Nat :
          /\ ww = (2 * half) * (2 * half) /\ quarter = half * half /\ lr = l * r
          /\ middle = half * (2 * half) /\ ww = 2 * middle /\ quarter < middle
          /\ lr < ww
  <2>1. /\ l * r \in Nat /\ l * r < (2 * half) * (2 * half)
    <3>1. 2 * half \in Nat \ {0}
      OBVIOUS
    <3> QED
      BY <3>1, ProductBound
  <2>2. /\ (2 * half) * (2 * half) \in Nat \ {0} /\ half * half \in Nat \ {0}
        /\ half * (2 * half) \in Nat \ {0}
        /\ (2 * half) * (2 * half) = 2 * (half * (2 * half))
        /\ half * half < half * (2 * half)
    OBVIOUS
  <2> QED
    BY <2>1, <2>2
<1>5. lr \in Word(2 * XLEN) /\ 2^(2 * XLEN) \in Nat \ {0}
  <2>1. PICK gap \in Nat \ {0}, top \in Nat \ {0} : 2^XLEN = 2^(2 * w) * gap
    BY <1>1, NarrowSizes
  <2>2. PICK b \in Nat \ {0} : 2^XLEN = b * b /\ 2^(2 * XLEN) = (b * b) * (b * b)
    BY RegisterPowers
  <2>3. PICK p \in Nat \ {0} : p = b * b /\ p = ww * gap
    BY <1>2, <1>4, <2>1, <2>2
  <2>4. ww <= p /\ p <= p * p /\ p * p \in Nat \ {0}
    BY <2>3
  <2>5. 2^(2 * XLEN) = p * p
    BY <2>2, <2>3
  <2> QED
    BY <1>4, <2>4, <2>5 DEF Word
<1>6. full = lr
  <2>1. Truncate(op.source_left, XLEN) = op.source_left
        /\ Truncate(op.source_right, XLEN) = op.source_right
    <3>1. 2^XLEN \in Nat \ {0}
      BY RegisterPowers
    <3> QED
      BY <1>1, <3>1, TruncateOfWord
  <2>2. RegisterOperand(op, op.source_left) = l /\ RegisterOperand(op, op.source_right) = r
    BY <1>3, <2>1 DEF RegisterOperand, AsOperand
  <2>3. full = lr % 2^(2 * XLEN)
    BY <1>4, <2>2, ReductionIsProduct
  <2> QED
    BY <1>5, <2>3, TruncateOfWord DEF Truncate
<1>7. CASE ~op.signed_operation
  <2>1. SemanticProduct(Reduced(op)) = full
    BY <1>1, <1>7 DEF SemanticProduct
  <2>2. m = 0 /\ n = 0
    BY <1>3, <1>7
  <2>3. ProductOf(op) = lr
    BY <1>3, <1>4, <2>2
  <2> QED
    BY <1>5, <1>6, <2>1, <2>3, TruncateOfWord DEF Truncate
<1>8. CASE op.signed_operation
  <2> DEFINE correction(negative, other) ==
                 IF SignSet(negative, w) THEN Truncate(other, w) * 2^w ELSE 0
             corrected == (Truncate(full, 2 * w)
                             - correction(op.source_left, op.source_right)
                             - correction(op.source_right, op.source_left)) % 2^(2 * w)
  <2>1. SemanticProduct(Reduced(op)) = AsSigned(corrected, 2 * w) % 2^(2 * XLEN)
    BY <1>1, <1>8, Zenon DEF SemanticProduct
  <2>2. /\ l \in Word(w) /\ r \in Word(w) /\ 2^w \in Nat \ {0}
        /\ lr \in Word(2 * w) /\ 2^(2 * w) \in Nat \ {0}
    BY <1>2, <1>4 DEF Word
  <2>3. Truncate(l, w) = l /\ Truncate(r, w) = r /\ Truncate(lr, 2 * w) = lr
    BY <2>2, TruncateOfWord
  <2>4. (SignSet(l, w) <=> l >= half) /\ (SignSet(r, w) <=> r >= half)
    BY <1>2, <2>3, SignIsUpperHalf
  <2>5. /\ correction(op.source_left, op.source_right) = (m * r) * (2 * half)
        /\ correction(op.source_right, op.source_left) = (n * l) * (2 * half)
    <3>1. 1 * r = r /\ 0 * r = 0 /\ 1 * l = l /\ 0 * l = 0 /\ 0 * (2 * half) = 0
      OBVIOUS
    <3> QED
      BY <1>2, <1>3, <1>8, <2>3, <2>4, <3>1
  <2>6. corrected = (lr - (m * r + n * l) * (2 * half)) % ww
    <3>1. Truncate(full, 2 * w) = lr /\ 2^(2 * w) = ww
      BY <1>2, <1>4, <1>6, <2>3
    <3>2. PICK x \in Int, y \in Int : x = m * r /\ y = n * l
      OBVIOUS
    <3>3. lr - x * (2 * half) - y * (2 * half) = lr - (x + y) * (2 * half)
      BY <1>4
    <3> HIDE DEF full, correction
    <3> QED
      BY <2>5, <3>1, <3>2, <3>3
  <2>7. corrected = ProductOf(op) % 2^(2 * w)
    <3>1. CorrectsProduct(2 * half, l, r, m, n)
      <4>1. 2 * half \in Nat \ {0} /\ l \in Int /\ r \in Int
        OBVIOUS
      <4> QED
        BY <4>1, CorrectedProduct, Zenon
    <3>2. (l * r - (m * r + n * l) * (2 * half)) % ww =
              ((l - m * (2 * half)) * (r - n * (2 * half))) % ww
      BY <1>4, <3>1, Zenon DEF CorrectsProduct
    <3> HIDE DEF corrected
    <3> QED
      BY <1>2, <1>3, <1>4, <2>6, <3>2, Zenon
  <2>8. ProductOf(op) \in -middle .. middle - 1
    BY <1>3, <1>4, <1>8
  <2>9. AsSigned(ProductOf(op) % 2^(2 * w), 2 * w) = ProductOf(op)
    <3>1. 2^(2 * w - 1) = middle /\ 2^(2 * w) = 2 * middle
      BY <1>2, <1>4
    <3> QED
      BY <2>8, <3>1, SignedValueOfRemainder
  <2> HIDE DEF corrected
  <2> QED
    BY <2>1, <2>7, <2>9
<1> QED
  BY <1>1, <1>7, <1>8

\* The product of every size, sign extended to two registers.
LEMMA SemanticProductIs ==
    ASSUME NEW op \in PreparedRequest
    PROVE  SemanticProduct(Reduced(op)) = ProductOf(op) % 2^(2 * XLEN)
<1>1. CASE Width[op.operand_size] = XLEN
  <2>1. SemanticProduct(Reduced(op)) = CalculatedFullProduct(Reduced(op))
    BY <1>1, ReductionKeepsRequest DEF SemanticProduct
  <2>2. op.signed_operation \in BOOLEAN
    BY PreparedFields
  <2>3. ASSUME NEW v PROVE RegisterOperand(op, v) = OperandOf(op, v)
    BY <1>1, <2>2 DEF RegisterOperand, OperandOf, AsOperand
  <2> QED
    BY <2>1, <2>3, ReductionIsProduct DEF ProductOf
<1> QED
  BY <1>1, NarrowProductIs

-----------------------------------------------------------------------------
(* The response to a request.                                              *)

\* A number of n digits of base m keeps its lowest digit and its quotient by the base.
DigitsKept(m, n, k, r) ==
    /\ ((m * k + r) % (m * n)) \div m = k % n
    /\ ((m * k + r) % (m * n)) % m = r

\* They are what the remainder by both keeps.
LEMMA QuotientOfRemainder ==
    ASSUME NEW m \in Nat \ {0}, NEW n \in Nat \ {0}, NEW k \in Int, NEW r \in 0 .. m - 1
    PROVE  DigitsKept(m, n, k, r)
<1>1. PICK q \in Int, e \in 0 .. n - 1 : q = k \div n /\ e = k % n /\ k = n * q + e
  BY Division, Zenon
<1>2. PICK p \in Nat \ {0}, u \in Int, v \in Int : p = m * n /\ u = m * e + r /\ v = m * k + r
  <2>1. m * n \in Nat \ {0} /\ m * e + r \in Int /\ m * k + r \in Int
    OBVIOUS
  <2> QED
    BY <2>1
<1>3. v = p * q + u
  <2>1. e \in Int
    BY <1>1
  <2>2. m * (n * q + e) + r = (m * n) * q + (m * e + r)
    BY <2>1
  <2> QED
    BY <1>1, <1>2, <2>2
<1>4. u \in 0 .. p - 1
  <2>1. PICK d \in Nat : n = e + 1 + d
    <3>1. n - e - 1 \in Nat /\ n = e + 1 + (n - e - 1)
      BY <1>1
    <3> QED
      BY <3>1
  <2>2. m * (e + 1 + d) = m * e + m + m * d /\ m * d \in Nat /\ m * e \in Nat
    BY <1>1
  <2>3. p = m * e + m + m * d
    BY <1>2, <2>1, <2>2
  <2> QED
    BY <1>1, <1>2, <2>2, <2>3
<1>5. v % p = u
  BY <1>3, <1>4, DivisionIsUnique
<1>6. u \div m = e /\ u % m = r
  <2>1. e \in Int
    BY <1>1
  <2>2. (m * e + r) \div m = e /\ (m * e + r) % m = r
    BY <2>1, DivisionIsUnique, Zenon
  <2> QED
    BY <1>2, <2>2
<1> QED
  BY <1>1, <1>2, <1>5, <1>6 DEF DigitsKept

\* A signed product within the square of half overflows w bits unless the bits above them
\* extend their sign.
LEMMA SignedOverflow ==
    ASSUME NEW half \in Nat \ {0}, NEW q \in Nat \ {0}, q >= 2 * half,
           NEW v \in -(half * half) .. half * half
    PROVE  (v % ((2 * half) * q)) \div (2 * half) =
                (IF (v % ((2 * half) * q)) % (2 * half) >= half THEN q - 1 ELSE 0)
           <=> v \in -half .. half - 1
<1>1. PICK m \in Nat \ {0} : m = 2 * half
  OBVIOUS
<1>2. v \in Int /\ -(half * half) <= v /\ v <= half * half
  OBVIOUS
<1>3. PICK k \in Int, r \in 0 .. m - 1 : k = v \div m /\ r = v % m /\ v = m * k + r
  BY <1>2, Division, Zenon
<1>4. (v % (m * q)) \div m = k % q /\ (v % (m * q)) % m = r
  <2>1. m \in Nat \ {0} /\ k \in Int /\ r \in 0 .. m - 1
    BY <1>1, <1>3
  <2>2. DigitsKept(m, q, k, r)
    BY <2>1, QuotientOfRemainder, Zenon
  <2> QED
    BY <1>3, <2>2, Zenon DEF DigitsKept
<1>5. 2 * k <= half
  <2>1. ASSUME 2 * k > half PROVE FALSE
    <3>1. PICK c \in Nat : 2 * k = half + 1 + c
      <4>1. 2 * k - half - 1 \in Nat /\ 2 * k = half + 1 + (2 * k - half - 1)
        BY <2>1
      <4> QED
        BY <4>1
    <3>2. m * k = half * (2 * k)
      BY <1>1
    <3>3. half * (half + 1 + c) = half * half + half + half * c /\ half * c \in Nat
      OBVIOUS
    <3>4. PICK x \in Int : x = half * half
      OBVIOUS
    <3> QED
      BY <1>2, <1>3, <3>1, <3>2, <3>3, <3>4
  <2> QED
    BY <2>1
<1>6. 2 * k + 1 >= -half
  <2>1. ASSUME 2 * k + 1 < -half PROVE FALSE
    <3>1. PICK c \in Nat : 2 * k = -(half + 2 + c)
      <4>1. -(2 * k) - half - 2 \in Nat /\ 2 * k = -(half + 2 + (-(2 * k) - half - 2))
        BY <2>1
      <4> QED
        BY <4>1
    <3>2. m * k = half * (2 * k)
      BY <1>1
    <3>3. half * (-(half + 2 + c)) = -(half * half) - 2 * half - half * c /\ half * c \in Nat
      OBVIOUS
    <3>4. PICK x \in Int, y \in Nat : x = half * half /\ y = half * c
      BY <3>3
    <3>5. m * k = -x - 2 * half - y
      BY <3>1, <3>2, <3>3, <3>4
    <3> QED
      BY <1>1, <1>2, <1>3, <3>4, <3>5
  <2> QED
    BY <2>1
<1>7. k % q = IF k >= 0 THEN k ELSE k + q
  <2>1. CASE k >= 0
    <3>1. k \in 0 .. q - 1 /\ k = q * 0 + k
      BY <1>5, <2>1
    <3>2. (q * 0 + k) % q = k
      BY <3>1, DivisionIsUnique
    <3> QED
      BY <2>1, <3>1, <3>2
  <2>2. CASE k < 0
    <3>1. k + q \in 0 .. q - 1 /\ k = q * (-1) + (k + q)
      BY <1>6, <2>2
    <3>2. (q * (-1) + (k + q)) % q = k + q
      BY <3>1, DivisionIsUnique
    <3> QED
      BY <2>2, <3>1, <3>2
  <2> QED
    BY <2>1, <2>2
<1>8. k % q = (IF r >= half THEN q - 1 ELSE 0) <=> k = (IF r >= half THEN -1 ELSE 0)
  BY <1>5, <1>6, <1>7
<1>9. k = (IF r >= half THEN -1 ELSE 0) <=> v \in -half .. half - 1
  <2>1. ASSUME k = 0 PROVE v = r
    BY <1>3, <2>1
  <2>2. ASSUME k = -1 PROVE v = r - m
    BY <1>3, <2>2
  <2>3. ASSUME v \in -half .. half - 1 PROVE k = 0 \/ k = -1
    <3>1. CASE k > 0
      <4>1. PICK c \in Nat : k = 1 + c
        <5>1. k - 1 \in Nat /\ k = 1 + (k - 1)
          BY <3>1
        <5> QED
          BY <5>1
      <4>2. m * k = m + m * c /\ m * c \in Nat
        BY <4>1
      <4> QED
        BY <1>1, <1>3, <2>3, <4>2
    <3>2. CASE k < -1
      <4>1. PICK c \in Nat : k = -(2 + c)
        <5>1. -k - 2 \in Nat /\ k = -(2 + (-k - 2))
          BY <3>2
        <5> QED
          BY <5>1
      <4>2. m * k = -(2 * m) - m * c /\ m * c \in Nat
        BY <4>1
      <4> QED
        BY <1>1, <1>3, <2>3, <4>2
    <3> QED
      BY <3>1, <3>2
  <2> QED
    BY <1>1, <2>1, <2>2, <2>3
<1> QED
  BY <1>1, <1>4, <1>8, <1>9

\* An unsigned product overflows w bits unless the bits above them are clear.
LEMMA UnsignedOverflow ==
    ASSUME NEW m \in Nat \ {0}, NEW v \in Nat
    PROVE  v \div m = 0 <=> v \in 0 .. m - 1
<1> v \in Int
  OBVIOUS
<1>1. PICK q \in Int, r \in 0 .. m - 1 : q = v \div m /\ r = v % m /\ v = m * q + r
  BY Division, Zenon
<1>2. ASSUME v \in 0 .. m - 1 PROVE q = 0
  <2>1. v = m * 0 + v
    OBVIOUS
  <2>2. (m * 0 + v) \div m = 0
    BY <1>2, DivisionIsUnique
  <2> QED
    BY <1>1, <2>1, <2>2
<1>3. ASSUME q = 0 PROVE v \in 0 .. m - 1
  BY <1>1, <1>3
<1> QED
  BY <1>1, <1>2, <1>3

\* Two registers hold the vectors of a size, and of its product, a whole number of times.
LEMMA ProductDivides ==
    ASSUME NEW s \in OperandSize
    PROVE  \E q \in Nat \ {0}, rest \in Nat \ {0} :
              /\ q = 2^(2 * XLEN - Width[s]) /\ 2^Width[s] \in Nat \ {0} /\ q >= 2^Width[s]
              /\ 2^(2 * XLEN) = 2^Width[s] * q
              /\ 2^(2 * XLEN) = 2^(2 * Width[s]) * rest /\ 2^(2 * Width[s]) \in Nat \ {0}
<1>1. PICK w \in Nat \ {0}, x \in Nat \ {0} :
          w = Width[s] /\ x = XLEN /\ (w = x \/ 2 * w <= x)
  BY SizePowers
<1>2. PICK d \in Nat, u \in Nat, y \in Nat :
          /\ u = 2 * w /\ y = 2 * x - w /\ d = 2 * x - 2 * w
          /\ 2 * x = u + d /\ y = w + d /\ 2 * x = w + y
  <2>1. 2 * w \in Nat /\ 2 * x - w \in Nat /\ 2 * x - 2 * w \in Nat
    BY <1>1
  <2>2. 2 * x = 2 * w + (2 * x - 2 * w) /\ 2 * x - w = w + (2 * x - 2 * w)
        /\ 2 * x = w + (2 * x - w)
    OBVIOUS
  <2> QED
    BY <2>1, <2>2
<1>3. u + d <= 2 * XLEN /\ w + d <= 2 * XLEN /\ w + y <= 2 * XLEN /\ d + u <= 2 * XLEN
      /\ y + w <= 2 * XLEN
  <2>1. /\ u + d <= 2 * x /\ w + d <= 2 * x /\ w + y <= 2 * x /\ d + u <= 2 * x
        /\ y + w <= 2 * x
    BY <1>2
  <2> QED
    BY <1>1, <2>1, Zenon
<1>4. /\ 2^u \in Nat \ {0} /\ 2^d \in Nat \ {0} /\ 2^w \in Nat \ {0} /\ 2^y \in Nat \ {0}
      /\ 2^(u + d) = 2^u * 2^d /\ 2^(w + d) = 2^w * 2^d /\ 2^(w + y) = 2^w * 2^y
  BY <1>3, ProductPowersAdd
<1>5. PICK pu \in Nat \ {0}, pd \in Nat \ {0}, pw \in Nat \ {0}, py \in Nat \ {0} :
          pu = 2^u /\ pd = 2^d /\ pw = 2^w /\ py = 2^y
  BY <1>4
<1>6. py = pw * pd /\ pw * pd >= pw
  BY <1>2, <1>4, <1>5
<1>7. u = 2 * Width[s] /\ y = 2 * XLEN - Width[s] /\ 2 * XLEN = u + d /\ 2 * XLEN = w + y
  BY <1>1, <1>2
<1>8. 2^(2 * XLEN) = pu * pd /\ 2^(2 * XLEN) = pw * py
  BY <1>4, <1>5, <1>7
<1>9. py = 2^(2 * XLEN - Width[s]) /\ pw = 2^Width[s] /\ pu = 2^(2 * Width[s])
  BY <1>1, <1>5, <1>7
<1> QED
  BY <1>6, <1>8, <1>9

\* The bounds of a product.
LEMMA ProductIsBounded ==
    ASSUME NEW op \in PreparedRequest, NEW half \in Nat \ {0},
           2^(Width[op.operand_size] - 1) = half, 2^Width[op.operand_size] = 2 * half
    PROVE  /\ ProductOf(op) \in Int
           /\ op.signed_operation => ProductOf(op) \in -(half * half) .. half * half
           /\ ~op.signed_operation =>
                 ProductOf(op) \in Nat /\ ProductOf(op) < (2 * half) * (2 * half)
<1>1. PICK m, n \in {0, 1}, l, r \in 0 .. 2 * half - 1 : OperandsAre(op, half, m, n, l, r)
  BY OperandsMean, Zenon
<1>2. (l - m * (2 * half)) * (r - n * (2 * half)) \in Int
  BY <1>1
<1>3. ASSUME ~op.signed_operation
      PROVE  ProductOf(op) \in Nat /\ ProductOf(op) < (2 * half) * (2 * half)
  <2>1. m = 0 /\ n = 0
    BY <1>1, <1>3 DEF OperandsAre
  <2>2. ProductOf(op) = l * r
    BY <1>1, <2>1 DEF OperandsAre
  <2>3. 2 * half \in Nat \ {0}
    OBVIOUS
  <2>4. l * r \in Nat /\ l * r < (2 * half) * (2 * half)
    BY <2>3, ProductBound
  <2> QED
    BY <2>2, <2>4
<1> QED
  BY <1>1, <1>2, <1>3, Zenon DEF OperandsAre

\* The bits of a narrow product above its result extend it when the result represents it.
LEMMA NarrowOverflowIs ==
    ASSUME NEW op \in PreparedRequest
    PROVE  NarrowOverflows(SemanticProduct(Reduced(op)), Width[op.operand_size],
                           op.signed_operation)
           <=> ProductOf(op) \notin Representable(Width[op.operand_size], op.signed_operation)
<1>1. op.operand_size \in OperandSize /\ op.signed_operation \in BOOLEAN
  BY PreparedFields
<1>2. PICK half \in Nat \ {0} :
          /\ 2^(Width[op.operand_size] - 1) = half /\ 2^Width[op.operand_size] = 2 * half
  BY <1>1, SizePowers
<1>3. PICK q \in Nat \ {0} :
          /\ q = 2^(2 * XLEN - Width[op.operand_size]) /\ q >= 2 * half
          /\ 2^(2 * XLEN) = (2 * half) * q
  BY <1>1, <1>2, ProductDivides
<1>4. PICK v, s :
          /\ v \in Int /\ v = ProductOf(op) /\ s = SemanticProduct(Reduced(op)) /\ s = v % ((2 * half) * q)
          /\ op.signed_operation => v \in -(half * half) .. half * half
          /\ ~op.signed_operation => v \in Nat /\ v < (2 * half) * (2 * half)
  <2>1. /\ ProductOf(op) \in Int
        /\ op.signed_operation => ProductOf(op) \in -(half * half) .. half * half
        /\ ~op.signed_operation =>
              ProductOf(op) \in Nat /\ ProductOf(op) < (2 * half) * (2 * half)
    BY <1>2, ProductIsBounded
  <2>2. SemanticProduct(Reduced(op)) = ProductOf(op) % ((2 * half) * q)
    BY <1>3, SemanticProductIs
  <2> QED
    BY <2>1, <2>2
<1>5. CASE op.signed_operation
  <2>1. SignSet(s, Width[op.operand_size]) <=> s % (2 * half) >= half
    <3>1. s \in Int
      <4>1. PICK p \in Nat \ {0} : p = (2 * half) * q
        BY <1>3
      <4> QED
        BY <1>4, <4>1
    <3> QED
      BY <1>2, <3>1, SignIsUpperHalf DEF Truncate
  <2>2. s \div (2 * half) = (IF s % (2 * half) >= half THEN q - 1 ELSE 0)
            <=> v \in -half .. half - 1
    BY SMTT(30), <1>3, <1>4, <1>5, SignedOverflow
  <2>3. NarrowOverflows(s, Width[op.operand_size], op.signed_operation)
            <=> s \div (2 * half) # IF s % (2 * half) >= half THEN q - 1 ELSE 0
    BY <1>2, <1>3, <1>5, <2>1 DEF NarrowOverflows
  <2>4. Representable(Width[op.operand_size], op.signed_operation) = -half .. half - 1
    BY <1>2, <1>5 DEF Representable
  <2> QED
    BY <1>4, <2>2, <2>3, <2>4, Zenon
<1>6. CASE ~op.signed_operation
  <2>1. PICK m \in Nat \ {0} : m = 2 * half
    OBVIOUS
  <2>2. v \in Nat /\ v < m * q
    <3>1. PICK c \in Nat : q = m + c
      <4>1. q - m \in Nat /\ q = m + (q - m)
        BY <1>3, <2>1
      <4> QED
        BY <4>1
    <3>2. m * q = m * m + m * c /\ m * c \in Nat /\ m * m \in Nat
      BY <2>1, <3>1
    <3> QED
      BY <1>4, <1>6, <2>1, <3>2
  <2>3. s = v
    <3>1. PICK p \in Nat \ {0} : p = m * q
      BY <2>1
    <3>2. v \in 0 .. p - 1 /\ v = p * 0 + v
      BY <2>2, <3>1
    <3>3. (p * 0 + v) % p = v
      BY <3>2, DivisionIsUnique
    <3> QED
      BY <1>4, <2>1, <3>1, <3>2, <3>3
  <2>4. v \div m = 0 <=> v \in 0 .. m - 1
    BY <2>1, <2>2, UnsignedOverflow
  <2>5. NarrowOverflows(s, Width[op.operand_size], op.signed_operation) <=> v \div m # 0
    BY <1>2, <1>6, <2>1, <2>3 DEF NarrowOverflows
  <2>6. Representable(Width[op.operand_size], op.signed_operation) = 0 .. m - 1
    BY <1>2, <1>6, <2>1 DEF Representable
  <2> QED
    BY <1>4, <2>4, <2>5, <2>6, Zenon
<1> QED
  BY <1>1, <1>5, <1>6

\* What the executable model computes of a product.
FullOf(op) == ProductOf(op) % 2^(2 * Width[op.operand_size])
LowOf(op) == Truncate(FullOf(op), IF op.widening THEN XLEN ELSE Width[op.operand_size])
HighOf(op) ==
    IF op.widening /\ 2 * Width[op.operand_size] > XLEN
    THEN (FullOf(op) \div 2^XLEN) % 2^XLEN ELSE None
FlagsOf(v, w, overflow) ==
    [negative |-> SignSet(v, w), zero |-> Truncate(v, w) = 0,
     overflow |-> overflow, carry |-> FALSE]
ProductFlags(op) ==
    IF op.widening THEN FlagsOf(FullOf(op), 2 * Width[op.operand_size], FALSE)
    ELSE FlagsOf(LowOf(op), Width[op.operand_size],
                 ProductOf(op) \notin Representable(Width[op.operand_size],
                                                    op.signed_operation))

\* The response the model prescribes, in those terms.
LEMMA ArchitecturalProduct ==
    ASSUME NEW op \in PreparedRequest
    PROVE  Architectural(op) =
              [tag |-> op.tag,
               results |-> Written("LOW", LowOf(op)) \o Written("HIGH", HighOf(op)),
               flags |-> IF op.update_flags THEN ProductFlags(op) ELSE None]
<1> DEFINE w == Width[op.operand_size]
           signed == op.signed_operation
           form == IF op.widening THEN "WIDENING" ELSE "NARROW"
           m == Model!Multiply(op.source_left, op.source_right, w, signed, form,
                               op.update_flags)
<1>1. op.widening \in BOOLEAN
  BY PreparedFields
<1>2. form = "WIDENING" <=> op.widening
  BY <1>1
<1>3. Model!AsOperand(op.source_left, w, signed) = OperandOf(op, op.source_left)
      /\ Model!AsOperand(op.source_right, w, signed) = OperandOf(op, op.source_right)
  BY DEF OperandOf, AsOperand, AsSigned, SignSet, Bit, Truncate, Model!AsOperand,
     Model!AsSigned, Model!SignSet, Model!Bit, Model!Truncate
<1>4. \A v, n : Model!Truncate(v, n) = Truncate(v, n)
  BY DEF Model!Truncate, Truncate
<1>5. \A v, n, overflow : Model!ResultFlags(v, n, overflow) = FlagsOf(v, n, overflow)
  BY DEF Model!ResultFlags, Model!SignSet, Model!Bit, Model!Truncate, FlagsOf, SignSet, Bit,
     Truncate
<1>6. Model!Representable(w, signed) = Representable(w, signed)
  BY DEF Model!Representable, Representable
<1> HIDE DEF form
<1>7. m.low = LowOf(op) /\ m.high = HighOf(op)
      /\ m.flags = IF op.update_flags THEN ProductFlags(op) ELSE None
  <2>1. m = [low |-> LowOf(op), high |-> HighOf(op),
             flags |-> IF op.update_flags THEN ProductFlags(op) ELSE None]
    <3>1. CASE op.widening
      BY <1>2, <1>3, <1>4, <1>5, <3>1, Zenon DEF Model!Multiply, LowOf, HighOf, FullOf,
         ProductFlags, ProductOf
    <3>2. CASE ~op.widening
      BY <1>2, <1>3, <1>4, <1>5, <1>6, <3>2, Zenon DEF Model!Multiply, LowOf, HighOf, FullOf,
         ProductFlags, ProductOf
    <3> QED
      BY <3>1, <3>2
  <2> HIDE DEF m
  <2> QED
    BY <2>1
<1>8. Architectural(op) =
        [tag |-> op.tag, results |-> Written("LOW", m.low) \o Written("HIGH", m.high),
         flags |-> m.flags]
  BY DEF Architectural, form
<1> HIDE DEF m
<1> QED
  BY <1>7, <1>8

\* The product of a size and the double product it is taken from agree in the result.
LEMMA ProductBits ==
    ASSUME NEW op \in PreparedRequest
    PROVE  /\ SemanticProduct(Reduced(op)) \in Word(2 * XLEN)
           /\ FullOf(op) \in Word(2 * Width[op.operand_size])
           /\ Truncate(SemanticProduct(Reduced(op)), 2 * Width[op.operand_size]) = FullOf(op)
           /\ Truncate(FullOf(op), 2 * Width[op.operand_size]) = FullOf(op)
           /\ Truncate(SemanticProduct(Reduced(op)), Width[op.operand_size]) =
                 Truncate(FullOf(op), Width[op.operand_size])
<1>1. op.operand_size \in OperandSize
  BY PreparedFields
<1>2. PICK half \in Nat \ {0} :
          /\ 2^(Width[op.operand_size] - 1) = half /\ 2^Width[op.operand_size] = 2 * half
          /\ 2^(2 * Width[op.operand_size]) = (2 * half) * (2 * half)
  BY <1>1, SizePowers
<1>3. PICK q \in Nat \ {0}, rest \in Nat \ {0} :
          /\ 2^(2 * XLEN) = 2^Width[op.operand_size] * q
          /\ 2^(2 * XLEN) = 2^(2 * Width[op.operand_size]) * rest
  BY <1>1, ProductDivides
<1>4. PICK v \in Int, w \in Nat \ {0}, ww \in Nat \ {0}, p \in Nat \ {0} :
          /\ v = ProductOf(op) /\ w = 2^Width[op.operand_size]
          /\ ww = 2^(2 * Width[op.operand_size]) /\ ww = w * w
          /\ p = 2^(2 * XLEN) /\ p = w * q /\ p = ww * rest
  <2>1. ProductOf(op) \in Int
    BY <1>2, ProductIsBounded
  <2>2. PICK w \in Nat \ {0} : w = 2 * half
    OBVIOUS
  <2>3. PICK ww \in Nat \ {0} : ww = w * w
    BY <2>2
  <2>4. PICK p \in Nat \ {0} : p = w * q
    BY <1>3, <2>2
  <2> QED
    BY <1>2, <1>3, <2>1, <2>2, <2>3, <2>4
<1>5. /\ FullOf(op) = v % ww /\ SemanticProduct(Reduced(op)) = v % p
  BY <1>4, SemanticProductIs DEF FullOf
<1>6. /\ (v % p) % w = v % w /\ (v % p) % ww = v % ww /\ (v % ww) % w = v % w
  <2>1. /\ v \in Int /\ w \in Nat \ {0} /\ ww \in Nat \ {0}
        /\ q \in Nat \ {0} /\ rest \in Nat \ {0}
    BY <1>3, <1>4, Zenon
  <2>2. LowerRemainder(v, w, q) /\ LowerRemainder(v, ww, rest) /\ LowerRemainder(v, w, w)
    BY <2>1, RemainderOfRemainder, Zenon
  <2> QED
    BY <1>4, <2>2, Zenon DEF LowerRemainder
<1>7. v % ww \in Word(2 * Width[op.operand_size]) /\ v % p \in Word(2 * XLEN)
  BY <1>4 DEF Word
<1>8. (v % ww) % ww = v % ww
  BY <1>4, <1>7, TruncateOfWord DEF Truncate
<1> QED
  BY <1>4, <1>5, <1>6, <1>7, <1>8 DEF Truncate

\* The result registers of a response.
ProductOfRequest(op) == SemanticProduct(Reduced(op))
ResultWidth(op) ==
    IF op.widening THEN 2 * Width[op.operand_size] ELSE Width[op.operand_size]
HasHigh(op) == op.widening /\ 2 * Width[op.operand_size] > XLEN
LowRegister(op) == Truncate(ProductOfRequest(op), IF HasHigh(op) THEN XLEN ELSE ResultWidth(op))
HighRegister(op) == IF HasHigh(op) THEN ProductOfRequest(op) \div 2^XLEN ELSE 0

\* They hold what the model computes.
LEMMA ResultRegisters ==
    ASSUME NEW op \in PreparedRequest
    PROVE  /\ LowRegister(op) = LowOf(op) /\ LowRegister(op) \in Word(XLEN)
           /\ HighRegister(op) \in Word(XLEN)
           /\ IF HasHigh(op) THEN HighRegister(op) = HighOf(op) ELSE HighOf(op) = None
           /\ ResultWidth(op) > XLEN <=> HasHigh(op)
<1>1. op.operand_size \in OperandSize /\ op.widening \in BOOLEAN
  BY PreparedFields
<1>2. PICK w \in Nat \ {0}, x \in Nat \ {0, 1} :
          w = Width[op.operand_size] /\ x = XLEN /\ (w = x \/ 2 * w <= x)
  BY <1>1, SizePowers
<1>3. PICK p \in Nat \ {0} : p = 2^XLEN /\ 2^(2 * XLEN) = p * p
  <2>1. PICK b \in Nat \ {0} : 2^XLEN = b * b /\ 2^(2 * XLEN) = (b * b) * (b * b)
    BY RegisterPowers
  <2> QED
    BY <2>1
<1>4. /\ ProductOfRequest(op) \in Word(2 * XLEN)
      /\ FullOf(op) \in Word(2 * Width[op.operand_size])
      /\ Truncate(ProductOfRequest(op), 2 * Width[op.operand_size]) = FullOf(op)
      /\ Truncate(FullOf(op), 2 * Width[op.operand_size]) = FullOf(op)
      /\ Truncate(ProductOfRequest(op), Width[op.operand_size]) =
             Truncate(FullOf(op), Width[op.operand_size])
  BY ProductBits DEF ProductOfRequest
<1>5. ResultWidth(op) > XLEN <=> HasHigh(op)
  BY <1>2 DEF ResultWidth, HasHigh
<1>6. 0 \in Word(XLEN)
  BY <1>3 DEF Word
<1>7. CASE HasHigh(op)
  <2>1. w = x /\ op.widening
    BY <1>2, <1>7 DEF HasHigh
  <2>2. ProductOfRequest(op) = FullOf(op)
    <3>1. FullOf(op) = ProductOf(op) % 2^(2 * XLEN)
      BY <1>2, <2>1 DEF FullOf
    <3> QED
      BY <3>1, SemanticProductIs DEF ProductOfRequest
  <2>3. ProductOfRequest(op) \in Nat /\ ProductOfRequest(op) < p * p
        /\ ProductOfRequest(op) \in Int
    <3>1. p * p \in Nat
      OBVIOUS
    <3> QED
      BY <1>3, <1>4, <3>1 DEF Word
  <2>4. LowRegister(op) = LowOf(op)
    BY <1>7, <2>1, <2>2 DEF LowRegister, LowOf
  <2>5. LowRegister(op) \in Word(XLEN)
    BY <1>3, <1>7, <2>3, TruncateIsWord DEF LowRegister
  <2>6. ProductOfRequest(op) \div p \in 0 .. p - 1
    BY <2>3, QuotientBound
  <2>7. ProductOfRequest(op) \div p \in Word(XLEN) /\ 2^XLEN \in Nat \ {0}
    BY <1>3, <2>6 DEF Word
  <2>8. (ProductOfRequest(op) \div p) % p = ProductOfRequest(op) \div p
    BY <1>3, <2>7, TruncateOfWord DEF Truncate
  <2>9. HighRegister(op) = ProductOfRequest(op) \div p
    BY <1>3, <1>7 DEF HighRegister
  <2>10. HighOf(op) = (ProductOfRequest(op) \div p) % p
    BY <1>3, <1>7, <2>2 DEF HighOf, HasHigh
  <2> QED
    BY <1>5, <1>7, <2>4, <2>5, <2>7, <2>8, <2>9, <2>10
<1>8. CASE ~HasHigh(op)
  <2>1. HighOf(op) = None /\ HighRegister(op) \in Word(XLEN)
    BY <1>6, <1>8 DEF HighOf, HighRegister, HasHigh
  <2>2. CASE op.widening
    <3>1. 2 * w <= x /\ w # x
      BY <1>2, <1>8, <2>2 DEF HasHigh
    <3>2. 2^(2 * Width[op.operand_size]) \in Nat /\ 2^(2 * Width[op.operand_size]) <= 2^XLEN
      <4>1. PICK gap \in Nat \ {0} : 2^XLEN = 2^(2 * Width[op.operand_size]) * gap
        BY <1>1, <1>2, <3>1, NarrowSizes
      <4>2. PICK u \in Nat \ {0} : u = 2^(2 * Width[op.operand_size])
        BY <1>1, ProductDivides
      <4>3. u <= u * gap
        OBVIOUS
      <4> QED
        BY <4>1, <4>2, <4>3
    <3>3. FullOf(op) \in Word(XLEN)
      BY <1>3, <1>4, <3>2, WordIsMonotone
    <3>4. Truncate(FullOf(op), XLEN) = FullOf(op)
      BY <1>3, <3>3, TruncateOfWord
    <3>5. LowRegister(op) = FullOf(op) /\ LowOf(op) = FullOf(op)
      BY <1>4, <1>8, <2>2, <3>4 DEF LowRegister, LowOf, ResultWidth
    <3> QED
      BY <1>5, <1>8, <2>1, <3>3, <3>5
  <2>3. CASE ~op.widening
    <3>1. LowRegister(op) = Truncate(FullOf(op), Width[op.operand_size])
          /\ LowOf(op) = Truncate(FullOf(op), Width[op.operand_size])
      BY <1>4, <1>8, <2>3 DEF LowRegister, LowOf, ResultWidth
    <3>2. FullOf(op) \in Int /\ 2^Width[op.operand_size] \in Nat \ {0}
      <4>1. 2^(2 * Width[op.operand_size]) \in Nat /\ 2^Width[op.operand_size] \in Nat \ {0}
        BY <1>1, ProductDivides
      <4> QED
        BY <1>4, <4>1 DEF Word
    <3>3. LowRegister(op) \in Word(Width[op.operand_size])
      BY <3>1, <3>2, TruncateIsWord
    <3>4. LowRegister(op) \in Word(XLEN)
      BY <1>1, <3>3, SizeFits
    <3> QED
      BY <1>5, <1>8, <2>1, <3>1, <3>4
  <2> QED
    BY <1>1, <2>2, <2>3
<1> QED
  BY <1>7, <1>8

\* The flags of a response.
CalculatedFlags(op) ==
    FlagsOf(ProductOfRequest(op), ResultWidth(op),
            ~op.widening /\ NarrowOverflows(ProductOfRequest(op), Width[op.operand_size],
                                            op.signed_operation))

\* They are the model's.
LEMMA FlagsAreArchitectural ==
    ASSUME NEW op \in PreparedRequest
    PROVE  CalculatedFlags(op) = ProductFlags(op)
<1>1. op.operand_size \in OperandSize /\ op.widening \in BOOLEAN
  BY PreparedFields
<1>2. PICK half \in Nat \ {0}, middle \in Nat \ {0} :
          /\ 2^(Width[op.operand_size] - 1) = half /\ 2^Width[op.operand_size] = 2 * half
          /\ 2^(2 * Width[op.operand_size]) = 2 * middle
          /\ 2^(2 * Width[op.operand_size] - 1) = middle
  <2>1. PICK half \in Nat \ {0} :
            /\ 2^(Width[op.operand_size] - 1) = half /\ 2^Width[op.operand_size] = 2 * half
            /\ 2^(2 * Width[op.operand_size]) = (2 * half) * (2 * half)
            /\ 2^(2 * Width[op.operand_size] - 1) = half * (2 * half)
    BY <1>1, SizePowers
  <2>2. PICK middle \in Nat \ {0} : middle = half * (2 * half)
    OBVIOUS
  <2>3. (2 * half) * (2 * half) = 2 * middle
    BY <2>2
  <2> QED
    BY <2>1, <2>2, <2>3
<1>3. /\ ProductOfRequest(op) \in Int /\ FullOf(op) \in Int
      /\ Truncate(ProductOfRequest(op), 2 * Width[op.operand_size]) = FullOf(op)
      /\ Truncate(FullOf(op), 2 * Width[op.operand_size]) = FullOf(op)
      /\ Truncate(ProductOfRequest(op), Width[op.operand_size]) =
             Truncate(FullOf(op), Width[op.operand_size])
  <2>1. 2^(2 * XLEN) \in Nat /\ 2^(2 * Width[op.operand_size]) \in Nat
    BY <1>2, RegisterPowers
  <2> QED
    BY <2>1, ProductBits DEF ProductOfRequest, Word
<1>4. CASE op.widening
  <2>1. SignSet(ProductOfRequest(op), 2 * Width[op.operand_size]) <=>
            SignSet(FullOf(op), 2 * Width[op.operand_size])
    BY <1>2, <1>3, SameSign
  <2> QED
    BY <1>3, <1>4, <2>1 DEF CalculatedFlags, ProductFlags, FlagsOf, ResultWidth, SignSet
<1>5. CASE ~op.widening
  <2>1. PICK v \in Int : v = FullOf(op)
    BY <1>3
  <2>2. Truncate(v, Width[op.operand_size]) \in Word(Width[op.operand_size])
        /\ 2^Width[op.operand_size] \in Nat \ {0}
    BY <1>2, TruncateIsWord
  <2>3. /\ LowOf(op) = Truncate(v, Width[op.operand_size]) /\ LowOf(op) \in Int
        /\ Truncate(LowOf(op), Width[op.operand_size]) =
               Truncate(ProductOfRequest(op), Width[op.operand_size])
    <3>1. LowOf(op) = Truncate(v, Width[op.operand_size])
      BY <1>5, <2>1 DEF LowOf
    <3>2. Truncate(LowOf(op), Width[op.operand_size]) = LowOf(op)
      BY <2>2, <3>1, TruncateOfWord
    <3>3. LowOf(op) \in Int
      BY <2>2, <3>1 DEF Word
    <3> QED
      BY <1>3, <2>1, <3>1, <3>2, <3>3
  <2>4. SignSet(ProductOfRequest(op), Width[op.operand_size]) <=>
            SignSet(LowOf(op), Width[op.operand_size])
    BY <1>2, <1>3, <2>3, SameSign
  <2>5. NarrowOverflows(ProductOfRequest(op), Width[op.operand_size], op.signed_operation) <=>
            ProductOf(op) \notin Representable(Width[op.operand_size], op.signed_operation)
    BY NarrowOverflowIs DEF ProductOfRequest
  <2>6. CalculatedFlags(op) =
          [negative |-> SignSet(LowOf(op), Width[op.operand_size]),
           zero |-> (Truncate(LowOf(op), Width[op.operand_size]) = 0),
           overflow |-> ProductOf(op) \notin Representable(Width[op.operand_size],
                                                           op.signed_operation),
           carry |-> FALSE]
    <3> DEFINE overflow == NarrowOverflows(ProductOfRequest(op), Width[op.operand_size],
                                           op.signed_operation)
               negative == SignSet(ProductOfRequest(op), Width[op.operand_size])
    <3>1. (~op.widening /\ overflow) =
              (ProductOf(op) \notin Representable(Width[op.operand_size], op.signed_operation))
      BY <1>5, <2>5
    <3>2. negative = SignSet(LowOf(op), Width[op.operand_size])
      BY <2>4 DEF SignSet
    <3> HIDE DEF overflow, negative
    <3>3. CalculatedFlags(op) =
            [negative |-> negative,
             zero |-> (Truncate(ProductOfRequest(op), Width[op.operand_size]) = 0),
             overflow |-> ~op.widening /\ overflow, carry |-> FALSE]
      BY <1>5 DEF CalculatedFlags, FlagsOf, ResultWidth, overflow, negative
    <3> QED
      BY <2>3, <3>1, <3>2, <3>3
  <2> QED
    BY <1>5, <2>6 DEF ProductFlags, FlagsOf
<1> QED
  BY <1>1, <1>4, <1>5

\* The response calculated from the stages is typed, and is the one the model prescribes.
LEMMA ResponseIs ==
    ASSUME NEW op \in PreparedRequest
    PROVE  /\ CalculatedResponse(Reduced(op)) \in MultiplyResponse
           /\ Visible(CalculatedResponse(Reduced(op))) = Architectural(op)
           /\ CalculatedResponse(Reduced(op)).tag = op.tag
<1>1. op.tag \in Tag /\ op.update_flags \in BOOLEAN /\ op.widening \in BOOLEAN
  BY PreparedFields
<1>2. /\ LowRegister(op) = LowOf(op) /\ LowRegister(op) \in Word(XLEN)
      /\ HighRegister(op) \in Word(XLEN)
      /\ IF HasHigh(op) THEN HighRegister(op) = HighOf(op) ELSE HighOf(op) = None
      /\ ResultWidth(op) > XLEN <=> HasHigh(op)
  BY ResultRegisters
<1>3. HasHigh(op) \in BOOLEAN
  BY <1>1 DEF HasHigh
<1>4. PICK rsp : rsp = CalculatedResponse(Reduced(op))
  OBVIOUS
<1>5. rsp = [tag |-> op.tag,
             result_count |-> IF HasHigh(op) THEN 2 ELSE 1,
             results |-> <<Result(TRUE, "LOW", LowRegister(op)),
                           Result(HasHigh(op), "HIGH", HighRegister(op))>>,
             flags_valid |-> op.update_flags,
             negative |-> CalculatedFlags(op).negative,
             zero |-> CalculatedFlags(op).zero,
             overflow |-> CalculatedFlags(op).overflow,
             carry |-> CalculatedFlags(op).carry]
  <2>1. Reduced(op).op = op
    BY ReductionKeepsRequest
  <2>2. (ResultWidth(op) > XLEN) = HasHigh(op)
    BY <1>2, <1>3
  <2>3. CalculatedResponse(Reduced(op)) =
            [tag |-> op.tag,
             result_count |-> IF ResultWidth(op) > XLEN THEN 2 ELSE 1,
             results |->
                <<Result(TRUE, "LOW",
                         Truncate(ProductOfRequest(op),
                                  IF ResultWidth(op) > XLEN THEN XLEN ELSE ResultWidth(op))),
                  Result(ResultWidth(op) > XLEN, "HIGH",
                         IF ResultWidth(op) > XLEN
                         THEN ProductOfRequest(op) \div 2^XLEN ELSE 0)>>,
             flags_valid |-> op.update_flags,
             negative |-> SignSet(ProductOfRequest(op), ResultWidth(op)),
             zero |-> (Truncate(ProductOfRequest(op), ResultWidth(op)) = 0),
             overflow |-> ~op.widening /\ NarrowOverflows(ProductOfRequest(op),
                                                Width[op.operand_size], op.signed_operation),
             carry |-> FALSE]
    BY <2>1, Zenon DEF CalculatedResponse, ProductOfRequest, ResultWidth
  <2> QED
    BY <1>4, <2>2, <2>3 DEF LowRegister, HighRegister, CalculatedFlags, FlagsOf
<1>6. rsp \in MultiplyResponse
  <2>1. /\ CalculatedFlags(op).negative \in BOOLEAN /\ CalculatedFlags(op).zero \in BOOLEAN
        /\ CalculatedFlags(op).overflow \in BOOLEAN /\ CalculatedFlags(op).carry \in BOOLEAN
    BY <1>1 DEF CalculatedFlags, FlagsOf, SignSet, NarrowOverflows
  <2>2. /\ Result(TRUE, "LOW", LowRegister(op)) \in ResultRecord
        /\ Result(HasHigh(op), "HIGH", HighRegister(op)) \in ResultRecord
    BY <1>2, <1>3 DEF Result, ResultRecord, Role
  <2>3. \A a, b \in ResultRecord : <<a, b>> \in [1 .. 2 -> ResultRecord]
    OBVIOUS
  <2>4. <<Result(TRUE, "LOW", LowRegister(op)), Result(HasHigh(op), "HIGH", HighRegister(op))>>
            \in [1 .. 2 -> ResultRecord]
    BY <2>2, <2>3, Zenon
  <2>5. (IF HasHigh(op) THEN 2 ELSE 1) \in 1 .. 2
    OBVIOUS
  <2> QED
    BY <1>1, <1>5, <2>1, <2>4, <2>5 DEF MultiplyResponse
<1>7. VisibleFlags(rsp) = IF op.update_flags THEN ProductFlags(op) ELSE None
  <2>1. VisibleFlags(rsp) = IF op.update_flags THEN CalculatedFlags(op) ELSE None
    BY <1>5 DEF VisibleFlags, CalculatedFlags, FlagsOf
  <2> QED
    BY <2>1, FlagsAreArchitectural
<1>8. VisibleResults(rsp) = Written("LOW", LowOf(op)) \o Written("HIGH", HighOf(op))
  <2>1. LowOf(op) # None
    BY <1>2, NoneAssumption
  <2>2. PICK a, b : /\ a = [role |-> "LOW", value |-> LowRegister(op)]
                    /\ b = [role |-> "HIGH", value |-> HighRegister(op)]
    OBVIOUS
  <2>3. PICK first, second :
            /\ first = Result(TRUE, "LOW", LowRegister(op))
            /\ second = Result(HasHigh(op), "HIGH", HighRegister(op))
            /\ [role |-> first.role, value |-> first.value] = a
            /\ [role |-> second.role, value |-> second.value] = b
    <3>1. PICK first, second :
              /\ first = Result(TRUE, "LOW", LowRegister(op))
              /\ second = Result(HasHigh(op), "HIGH", HighRegister(op))
      OBVIOUS
    <3>2. /\ first.role = "LOW" /\ first.value = LowRegister(op)
          /\ second.role = "HIGH" /\ second.value = HighRegister(op)
      BY <3>1 DEF Result
    <3> QED
      BY <2>2, <3>1, <3>2
  <2>4. rsp.results = <<first, second>>
    BY <1>5, <2>3
  <2>5. CASE HasHigh(op)
    <3>1. HighOf(op) # None
      BY <1>2, <2>5, NoneAssumption
    <3>2. rsp.result_count = 2
      BY <1>5, <2>5
    <3>3. VisibleResults(rsp) = <<a, b>>
      BY <2>3, <2>4, <3>2, TwoAreVisible
    <3>4. Written("LOW", LowOf(op)) = <<a>> /\ Written("HIGH", HighOf(op)) = <<b>>
      BY <1>2, <2>1, <2>2, <2>5, <3>1 DEF Written
    <3> QED
      BY <3>3, <3>4, ShortListsConcatenate
  <2>6. CASE ~HasHigh(op)
    <3>1. rsp.result_count = 1
      BY <1>5, <2>6
    <3>2. VisibleResults(rsp) = <<a>>
      BY <2>3, <2>4, <3>1, OneIsVisible
    <3>3. Written("LOW", LowOf(op)) = <<a>> /\ Written("HIGH", HighOf(op)) = <<>>
      BY <1>2, <2>1, <2>2, <2>6 DEF Written
    <3> QED
      BY <3>2, <3>3, ShortListsConcatenate
  <2> QED
    BY <2>5, <2>6
<1>9. rsp.tag = op.tag
  BY <1>5
<1> QED
  BY <1>4, <1>6, <1>7, <1>8, <1>9, ArchitecturalProduct DEF Visible

-----------------------------------------------------------------------------
(* The invariant.                                                          *)

\* What a stage holds was computed from one prepared request by the stages before it.
StagesAreComputed ==
    /\ operand_stage # None => \E op \in PreparedRequest : operand_stage = [op |-> op]
    /\ partial_product_stage # None =>
          \E op \in PreparedRequest : partial_product_stage = Multiplied(op)
    /\ reduction_stage # None => \E op \in PreparedRequest : reduction_stage = Reduced(op)
    /\ result_stage # None =>
          \E op \in PreparedRequest : result_stage = CalculatedResponse(Reduced(op))

\* The stages of a prepared request are there, and carry it.
LEMMA StagesCarryRequest ==
    ASSUME NEW op \in PreparedRequest
    PROVE  /\ op # None
           /\ [op |-> op] # None /\ [op |-> op].op = op /\ [op |-> op] \in OperandStage
           /\ Multiplied(op) # None /\ Multiplied(op).op = op
           /\ Multiplied(op) \in PartialProductStage
           /\ Reduced(op) # None /\ Reduced(op).op = op /\ Reduced(op) \in ReductionStage
           /\ CalculatedResponse(Reduced(op)) # None
           /\ CalculatedResponse(Reduced(op)) \in MultiplyResponse
<1>1. op \in MultiplyRequest /\ [op |-> op] \in OperandStage
  BY PreparedFields DEF OperandStage
<1>2. Multiplied(op).op = op /\ Multiplied(op) \in PartialProductStage
  <2>1. PICK b \in Nat \ {0} : 2^Half = b /\ 2^XLEN = b * b
    BY RegisterPowers
  <2>2. Multiplied(op) \in PartialProductStage
    <3>1. PICK l0, l1, r0, r1 \in 0 .. b - 1 :
              /\ op.source_left = l1 * b + l0
              /\ op.source_right = r1 * b + r0
              /\ Multiplied(op) = [op |-> op, low_low |-> l0 * r0, low_high |-> l0 * r1,
                                   high_low |-> l1 * r0, high_high |-> l1 * r1]
              /\ Multiplied(op) \in PartialProductStage
      BY <2>1, PartialProducts, ZenonT(30)
    <3> QED
      BY <3>1
  <2> QED
    BY <2>2 DEF Multiplied, CalculatedPartialProducts
<1>3. Reduced(op).op = op /\ Reduced(op) \in ReductionStage
  BY ReductionKeepsRequest
<1>4. CalculatedResponse(Reduced(op)) \in MultiplyResponse
  BY ResponseIs
<1> QED
  BY <1>1, <1>2, <1>3, <1>4, AbsenceAssumption

\* The edge a clock samples is typed.
LEMMA EdgeIsTyped ==
    ASSUME NEW req \in Request \cup {None}, NEW sq \in Tag \cup {None}, NEW rdy \in BOOLEAN
    PROVE  ClockEdge(req, sq, rdy) \in EdgeRecord(Request)
  BY DEF ClockEdge, EdgeRecord

\* The invariant of the multiplier: its stages are computed, and its edge is typed.
MultiplierInvariant == StagesAreComputed /\ edge \in EdgeRecord(Request)

\* At power up and after a reset every stage is empty.
LEMMA ResetIsComputed == (Init => MultiplierInvariant) /\ (Reset => MultiplierInvariant')
<1>1. ResetEdge \in EdgeRecord(Request)
  BY DEF ResetEdge, EdgeRecord
<1>2. Init => MultiplierInvariant
  BY <1>1, Zenon DEF Init, MultiplierInvariant, StagesAreComputed
<1>3. Reset => MultiplierInvariant'
  BY <1>1, Zenon DEF Reset, MultiplierInvariant, StagesAreComputed
<1> QED
  BY <1>2, <1>3

\* A pipeline that advances computes each stage from the one before it.
LEMMA AdvanceIsComputed ==
    ASSUME MultiplierInvariant, NEW req \in Request \cup {None}, NEW sq \in Tag \cup {None},
           NEW rdy \in BOOLEAN, Advance(req, sq, rdy)
    PROVE  MultiplierInvariant'
<1>1. operand_stage' # None => \E op \in PreparedRequest : operand_stage' = [op |-> op]
  <2> SUFFICES ASSUME operand_stage' # None
               PROVE  \E op \in PreparedRequest : operand_stage' = [op |-> op]
    OBVIOUS
  <2>1. req \in MultiplyRequest /\ operand_stage' = PreparedOperands(req)
    BY RequestAssumption DEF Advance
  <2> QED
    BY <2>1, PreparationIsPrepared
<1>2. partial_product_stage' # None =>
          \E op \in PreparedRequest : partial_product_stage' = Multiplied(op)
  BY DEF Advance, Handed, MultiplierInvariant, StagesAreComputed, Multiplied
<1>3. reduction_stage' # None => \E op \in PreparedRequest : reduction_stage' = Reduced(op)
  BY DEF Advance, Handed, MultiplierInvariant, StagesAreComputed, Reduced
<1>4. result_stage' # None =>
          \E op \in PreparedRequest : result_stage' = CalculatedResponse(Reduced(op))
  BY DEF Advance, Handed, MultiplierInvariant, StagesAreComputed
<1>5. edge' \in EdgeRecord(Request)
  BY EdgeIsTyped DEF Advance
<1> QED
  BY <1>1, <1>2, <1>3, <1>4, <1>5 DEF MultiplierInvariant, StagesAreComputed

\* A stalled pipeline keeps or empties each stage.
LEMMA StallIsComputed ==
    ASSUME MultiplierInvariant, NEW sq \in Tag \cup {None}, NEW rdy \in BOOLEAN,
           Stall(sq, rdy)
    PROVE  MultiplierInvariant'
<1>1. /\ operand_stage' # None => operand_stage' = operand_stage
      /\ partial_product_stage' # None => partial_product_stage' = partial_product_stage
      /\ reduction_stage' # None => reduction_stage' = reduction_stage
      /\ result_stage' = result_stage
  BY DEF Stall, Handed, Kept
<1>2. edge' \in EdgeRecord(Request)
  BY EdgeIsTyped DEF Stall
<1> QED
  BY <1>1, <1>2 DEF MultiplierInvariant, StagesAreComputed

\* Every step keeps the invariant.
LEMMA StepIsComputed == MultiplierInvariant /\ [Next]_vars => MultiplierInvariant'
<1> SUFFICES ASSUME MultiplierInvariant, [Next]_vars PROVE MultiplierInvariant'
  OBVIOUS
<1>1. CASE Reset
  BY <1>1, ResetIsComputed
<1>2. ASSUME NEW sq \in Tag \cup {None}, NEW rdy \in BOOLEAN, Clock(sq, rdy)
      PROVE  MultiplierInvariant'
  BY <1>2, AdvanceIsComputed, StallIsComputed DEF Clock
<1>3. CASE UNCHANGED vars
  BY <1>3 DEF vars, stages, MultiplierInvariant, StagesAreComputed
<1> QED
  BY <1>1, <1>2, <1>3 DEF Next

\* The invariant holds in every state.
THEOREM MultiplierInvariantHolds == Spec => []MultiplierInvariant
  BY ResetIsComputed, StepIsComputed, PTL DEF Spec

\* The fields of each stage stay within their declared widths: no partial product, cross
\* sum, correction or narrowed result carries a bit out of its field.
THEOREM MultiplierIsTyped == Spec => []TypeOK
<1>1. MultiplierInvariant => TypeOK
  BY StagesCarryRequest DEF MultiplierInvariant, StagesAreComputed, TypeOK
<1> QED
  BY <1>1, MultiplierInvariantHolds, PTL

\* The reduction stage stands for the product of its prepared operands, as register
\* integers when they fill a register, for every register width and operand size.
THEOREM ReductionsKeepTheProduct == Spec => []ReductionKeepsTheProduct
<1>1. MultiplierInvariant => ReductionKeepsTheProduct
  <2> SUFFICES ASSUME MultiplierInvariant, reduction_stage # None
               PROVE  ReductionKeepsTheProduct
    BY DEF ReductionKeepsTheProduct
  <2>1. PICK op \in PreparedRequest : reduction_stage = Reduced(op)
    BY DEF MultiplierInvariant, StagesAreComputed
  <2>2. reduction_stage.op = op
    BY <2>1, StagesCarryRequest
  <2> QED
    BY <2>1, <2>2, ReductionIsProduct, Zenon DEF ReductionKeepsTheProduct, RegisterOperand
<1> QED
  BY <1>1, MultiplierInvariantHolds, PTL

-----------------------------------------------------------------------------
(* The refinement of ExecutionUnit.                                        *)

Inflight == Held(reduction_stage) \o Held(partial_product_stage) \o Held(operand_stage)
Published == IF response_valid THEN Visible(result_stage) ELSE None
Prepared(req) == IF req = None THEN None ELSE PreparedOperands(req).op
OfferedTo(req) == IF req = None THEN <<>> ELSE <<Prepared(req)>>

\* The queues of at most one operation.
ShortQueue == {<<>>} \cup {<<op>> : op \in PreparedRequest}

\* Short queues, and what a squash leaves of them.
LEMMA ShortQueues ==
    ASSUME NEW held \in ShortQueue, NEW squash
    PROVE  /\ held \in Seq(PreparedRequest) /\ Len(held) <= 1
           /\ Rest(held, squash) \in ShortQueue
           /\ Surviving(held, squash) = Rest(held, squash)
           /\ Rest(held, squash) # <<>> => held[1] \in PreparedRequest
                                           /\ Rest(held, squash) = <<held[1]>>
<1>1. CASE held = <<>>
  BY <1>1, EmptySurvives DEF Rest, ShortQueue
<1>2. CASE held # <<>>
  <2>1. PICK op \in PreparedRequest : held = <<op>> /\ held[1] = op
    BY <1>2 DEF ShortQueue
  <2>2. Surviving(held, squash) = IF op.tag = squash THEN <<>> ELSE <<op>>
    BY <2>1, OneSurvives
  <2>3. Rest(held, squash) = IF op.tag = squash THEN <<>> ELSE <<op>>
    BY <1>2, <2>1 DEF Rest
  <2> QED
    BY <2>1, <2>2, <2>3 DEF ShortQueue
<1> QED
  BY <1>1, <1>2

\* What survives of the operations the three stages hold and of the one offered, oldest
\* first, is what survives of each.
SurvivesEach(r, p, o, q, squash) ==
    Surviving(((r \o p) \o o) \o q, squash) =
        ((Rest(r, squash) \o Rest(p, squash)) \o Rest(o, squash)) \o Rest(q, squash)

\* It is, and the stages hold at most three.
LEMMA StagesSurvive ==
    ASSUME NEW r \in ShortQueue, NEW p \in ShortQueue, NEW o \in ShortQueue,
           NEW q \in ShortQueue, NEW squash
    PROVE  SurvivesEach(r, p, o, q, squash) /\ Len((r \o p) \o o) <= 3
<1> DEFINE S == PreparedRequest
<1>1. \A held \in ShortQueue : held \in Seq(S) /\ held \in {<<>>} \cup {<<op>> : op \in S}
  BY ShortQueues DEF ShortQueue
<1>2. Surviving(r, squash) = Rest(r, squash) /\ Surviving(r, squash) \in Seq(S)
  BY <1>1, ShortQueues
<1>3. /\ r \o p \in Seq(S) /\ Surviving(r \o p, squash) \in Seq(S)
      /\ Surviving(r \o p, squash) = Surviving(r, squash) \o Rest(p, squash)
  <2>1. SurvivesBehind(S, r, p, squash)
    BY <1>1, <1>2, StageSurvives, Zenon
  <2> QED
    BY <2>1, Zenon DEF SurvivesBehind
<1>4. /\ (r \o p) \o o \in Seq(S) /\ Surviving((r \o p) \o o, squash) \in Seq(S)
      /\ Surviving((r \o p) \o o, squash) = Surviving(r \o p, squash) \o Rest(o, squash)
  <2>1. SurvivesBehind(S, r \o p, o, squash)
    BY <1>1, <1>3, StageSurvives, Zenon
  <2> QED
    BY <2>1, Zenon DEF SurvivesBehind
<1>5. Surviving(((r \o p) \o o) \o q, squash) =
          Surviving((r \o p) \o o, squash) \o Rest(q, squash)
  <2>1. SurvivesBehind(S, (r \o p) \o o, q, squash)
    BY <1>1, <1>4, StageSurvives, Zenon
  <2> QED
    BY <2>1, Zenon DEF SurvivesBehind
<1>6. Len((r \o p) \o o) <= 3
  <2>1. /\ r \in Seq(S) /\ p \in Seq(S) /\ o \in Seq(S)
        /\ Len(r) <= 1 /\ Len(p) <= 1 /\ Len(o) <= 1
    BY ShortQueues
  <2>2. Len(r \o p) = Len(r) + Len(p) /\ Len((r \o p) \o o) = Len(r \o p) + Len(o)
    BY <1>3, <2>1, ConcatProperties
  <2> QED
    BY <2>1, <2>2
<1> QED
  BY <1>2, <1>3, <1>4, <1>5, <1>6 DEF SurvivesEach

\* The stages hold prepared operations, and a stage hands on what a squash leaves.
LEMMA HeldByStages ==
    ASSUME StagesAreComputed, NEW squash
    PROVE  /\ Held(operand_stage) \in ShortQueue /\ Held(partial_product_stage) \in ShortQueue
           /\ Held(reduction_stage) \in ShortQueue
           /\ Held(Handed(operand_stage, squash, CalculatedPartialProducts)) =
                 Rest(Held(operand_stage), squash)
           /\ Held(Handed(partial_product_stage, squash, CalculatedReduction)) =
                 Rest(Held(partial_product_stage), squash)
           /\ Held(Handed(operand_stage, squash, Kept)) = Rest(Held(operand_stage), squash)
           /\ Held(Handed(partial_product_stage, squash, Kept)) =
                 Rest(Held(partial_product_stage), squash)
           /\ Held(Handed(reduction_stage, squash, Kept)) = Rest(Held(reduction_stage), squash)
<1>1. \A op \in PreparedRequest : <<op>> \in ShortQueue /\ <<op>> # <<>> /\ <<op>>[1] = op
  BY DEF ShortQueue
<1>2. <<>> \in ShortQueue
  BY DEF ShortQueue
<1>3. /\ Held(operand_stage) \in ShortQueue
      /\ Held(Handed(operand_stage, squash, CalculatedPartialProducts)) =
             Rest(Held(operand_stage), squash)
      /\ Held(Handed(operand_stage, squash, Kept)) = Rest(Held(operand_stage), squash)
  <2>1. CASE operand_stage = None
    BY <1>2, <2>1 DEF Held, Handed, Rest
  <2>2. CASE operand_stage # None
    <3>1. PICK op \in PreparedRequest : operand_stage = [op |-> op]
      BY <2>2 DEF StagesAreComputed
    <3>2. /\ operand_stage.op = op /\ CalculatedPartialProducts(operand_stage) = Multiplied(op)
          /\ Multiplied(op) # None /\ Multiplied(op).op = op
      BY <3>1, StagesCarryRequest DEF Multiplied
    <3> QED
      BY <1>1, <2>2, <3>2, Zenon DEF Held, Handed, Kept, Rest
  <2> QED
    BY <2>1, <2>2
<1>4. /\ Held(partial_product_stage) \in ShortQueue
      /\ Held(Handed(partial_product_stage, squash, CalculatedReduction)) =
             Rest(Held(partial_product_stage), squash)
      /\ Held(Handed(partial_product_stage, squash, Kept)) =
             Rest(Held(partial_product_stage), squash)
  <2>1. CASE partial_product_stage = None
    BY <1>2, <2>1 DEF Held, Handed, Rest
  <2>2. CASE partial_product_stage # None
    <3>1. PICK op \in PreparedRequest : partial_product_stage = Multiplied(op)
      BY <2>2 DEF StagesAreComputed
    <3>2. /\ partial_product_stage.op = op
          /\ CalculatedReduction(partial_product_stage) = Reduced(op)
          /\ Reduced(op) # None /\ Reduced(op).op = op
      BY <3>1, StagesCarryRequest DEF Reduced
    <3> QED
      BY <1>1, <2>2, <3>2, Zenon DEF Held, Handed, Kept, Rest
  <2> QED
    BY <2>1, <2>2
<1>5. /\ Held(reduction_stage) \in ShortQueue
      /\ Held(Handed(reduction_stage, squash, Kept)) = Rest(Held(reduction_stage), squash)
  <2>1. CASE reduction_stage = None
    BY <1>2, <2>1 DEF Held, Handed, Rest
  <2>2. CASE reduction_stage # None
    <3>1. PICK op \in PreparedRequest : reduction_stage = Reduced(op)
      BY <2>2 DEF StagesAreComputed
    <3>2. reduction_stage.op = op
      BY <3>1, StagesCarryRequest
    <3> QED
      BY <1>1, <2>2, <3>2, Zenon DEF Held, Handed, Kept, Rest
  <2> QED
    BY <2>1, <2>2
<1> QED
  BY <1>3, <1>4, <1>5

\* Each stage holds at most one operation.
StagesAreShort ==
    /\ Held(operand_stage) \in ShortQueue
    /\ Held(partial_product_stage) \in ShortQueue
    /\ Held(reduction_stage) \in ShortQueue

\* It does.
LEMMA StagesHoldAtMostOne == StagesAreComputed => StagesAreShort
  BY HeldByStages DEF StagesAreShort

\* A step that keeps what survives, or publishes the oldest of it, is a clock of the unit.
LEMMA ClockImplements ==
    ASSUME StagesAreComputed, StagesAreComputed',
           NEW req \in Request \cup {None}, NEW sq \in Tag \cup {None}, NEW rdy \in BOOLEAN,
           edge' = ClockEdge(req, sq, rdy),
           NEW queue, queue = Surviving(Inflight \o OfferedTo(req), sq),
           \/ /\ Inflight' = queue
              /\ Published' = IF rdy THEN None ELSE Published
           \/ /\ Published = None \/ rdy
              /\ queue # <<>>
              /\ Inflight' = Tail(queue)
              /\ Published' = Architectural(Head(queue))
    PROVE  Unit!Clock
<1> DEFINE sampled == [edge EXCEPT !.request = IF @ = None THEN None
                                               ELSE PreparedOperands(@).op]
<1>1. /\ sampled' \in [reset : BOOLEAN, request : MultiplyRequest \cup {None},
                       squash : Tag \cup {None}, response_ready : BOOLEAN]
      /\ ~sampled'.reset /\ sampled'.request = Prepared(req) /\ sampled'.squash = sq
      /\ sampled'.response_ready = rdy
  <2>1. sampled' = ClockEdge(Prepared(req), sq, rdy)
    <3>1. [ClockEdge(req, sq, rdy) EXCEPT !.request = IF @ = None THEN None
                                                     ELSE PreparedOperands(@).op] =
              ClockEdge(Prepared(req), sq, rdy)
      <4>1. ClockEdge(req, sq, rdy).request = req
        BY DEF ClockEdge
      <4>2. ASSUME NEW x
            PROVE  [ClockEdge(req, sq, rdy) EXCEPT !.request = x] = ClockEdge(x, sq, rdy)
        <5>1. PICK clear, ready : clear = FALSE /\ ready = rdy
          BY Zenon
        <5>2. \A y : ClockEdge(y, sq, rdy) =
                [reset |-> clear, request |-> y, squash |-> sq, response_ready |-> ready]
          BY <5>1, Zenon DEF ClockEdge
        <5>3. [[reset |-> clear, request |-> req, squash |-> sq, response_ready |-> ready]
                    EXCEPT !.request = x] =
                [reset |-> clear, request |-> x, squash |-> sq, response_ready |-> ready]
          OBVIOUS
        <5> QED
          BY <5>2, <5>3, Zenon
      <4> QED
        BY <4>1, <4>2, Zenon DEF Prepared
    <3> QED
      BY <3>1, Zenon
  <2>2. Prepared(req) \in MultiplyRequest \cup {None}
    BY RequestAssumption, PreparationIsPrepared, PreparedFields DEF Prepared
  <2> HIDE DEF sampled
  <2> QED
    BY <2>1, <2>2 DEF ClockEdge
<1>2. Unit!Surviving(Inflight \o Unit!Offered(sampled'), sampled'.squash) = queue
  <2>1. Unit!Offered(sampled') = OfferedTo(req)
    <3>1. req = None <=> Prepared(req) = None
      BY RequestAssumption, PreparationIsPrepared, StagesCarryRequest DEF Prepared
    <3> HIDE DEF sampled
    <3> QED
      BY <1>1, <3>1, Zenon DEF Unit!Offered, OfferedTo
  <2>2. \A held, squash : Unit!Surviving(held, squash) = Surviving(held, squash)
    BY DEF Unit!Surviving, Surviving
  <2> HIDE DEF sampled
  <2> QED
    BY <1>1, <2>1, <2>2, Zenon
<1>3. Unit!Keep(queue) \/ Unit!Publish(queue)
  BY <1>1 DEF Unit!Keep, Unit!Publish, Inflight, Published
<1>4. Len(Inflight') <= 3
  <2>1. /\ Held(operand_stage)' \in ShortQueue /\ Held(partial_product_stage)' \in ShortQueue
        /\ Held(reduction_stage)' \in ShortQueue
    <3>1. StagesAreShort'
      BY StagesHoldAtMostOne, PTL
    <3> QED
      BY <3>1 DEF StagesAreShort
  <2>2. <<>> \in ShortQueue
    BY DEF ShortQueue
  <2> QED
    BY <2>1, <2>2, StagesSurvive DEF Inflight
<1> QED
  BY <1>1, <1>2, <1>3, <1>4 DEF Unit!Clock, Unit!Sample, Inflight

\* Reset and power up are the unit's.
LEMMA ResetImplements == (Init => Unit!Init) /\ (Reset => Unit!Reset)
<1>1. <<>> \o <<>> \o <<>> = <<>>
  BY ShortListsConcatenate
<1>2. [ResetEdge EXCEPT !.request = IF @ = None THEN None ELSE PreparedOperands(@).op] =
          ResetEdge
  BY DEF ResetEdge
<1> QED
  BY <1>1, <1>2, Zenon DEF Init, Unit!Init, Reset, Unit!Reset, Held, response_valid, ResetEdge,
     Unit!ResetEdge

\* What is offered is a short queue, of which the operand stage takes what survives.
LEMMA OfferedIsShort ==
    ASSUME NEW req \in Request \cup {None}, NEW sq
    PROVE  /\ OfferedTo(req) \in ShortQueue
           /\ Held(IF req = None THEN None
                   ELSE IF req.tag = sq THEN None ELSE PreparedOperands(req)) =
                 Rest(OfferedTo(req), sq)
<1>1. CASE req = None
  BY <1>1 DEF OfferedTo, Held, Rest, ShortQueue
<1>2. CASE req # None
  <2>1. PICK op \in PreparedRequest :
            /\ op = PreparedOperands(req).op /\ PreparedOperands(req) = [op |-> op]
            /\ op.tag = req.tag
    BY <1>2, RequestAssumption, PreparationIsPrepared
  <2>2. PreparedOperands(req) # None /\ PreparedOperands(req).op = op
    BY <2>1, StagesCarryRequest
  <2>3. OfferedTo(req) = <<op>> /\ <<op>> # <<>> /\ <<op>>[1] = op /\ <<op>> \in ShortQueue
    BY <1>2, <2>1 DEF OfferedTo, Prepared, ShortQueue
  <2> QED
    BY <1>2, <2>1, <2>2, <2>3, Zenon DEF Held, Rest
<1> QED
  BY <1>1, <1>2

\* The first of four lists, and the rest of them.
Regroups(a, b, c, d) == ((a \o b) \o c) \o d = a \o ((b \o c) \o d)

\* Concatenation may be done from the second list on.
LEMMA ListsRegroup ==
    ASSUME NEW S, NEW a \in Seq(S), NEW b \in Seq(S), NEW c \in Seq(S), NEW d \in Seq(S)
    PROVE  Regroups(a, b, c, d)
<1>1. PICK bc \in Seq(S) : bc = b \o c
  BY ConcatProperties
<1>2. (a \o b) \o c = a \o bc
  BY SMTT(30), <1>1, ConcatAssociative
<1>3. (a \o bc) \o d = a \o (bc \o d)
  BY SMTT(30), ConcatAssociative
<1> QED
  BY <1>1, <1>2, <1>3, Zenon DEF Regroups

\* A pipeline that advances publishes the oldest survivor, if the reduction stage holds it.
LEMMA AdvanceImplements ==
    ASSUME MultiplierInvariant, MultiplierInvariant', NEW req \in Request \cup {None},
           NEW sq \in Tag \cup {None}, NEW rdy \in BOOLEAN, Advance(req, sq, rdy)
    PROVE  Unit!Clock
<1> DEFINE r == Held(reduction_stage)
           p == Held(partial_product_stage)
           o == Held(operand_stage)
           q == OfferedTo(req)
           rr == Rest(r, sq)
           rp == Rest(p, sq)
           ro == Rest(o, sq)
           rq == Rest(q, sq)
           queue == Surviving(Inflight \o q, sq)
<1>1. StagesAreComputed /\ StagesAreComputed'
  BY DEF MultiplierInvariant
<1>2. r \in ShortQueue /\ p \in ShortQueue /\ o \in ShortQueue /\ q \in ShortQueue
  BY <1>1, HeldByStages, OfferedIsShort
<1>3. queue = ((rr \o rp) \o ro) \o rq
  <2>1. SurvivesEach(r, p, o, q, sq)
    BY <1>2, StagesSurvive, Zenon
  <2> QED
    BY <2>1, Zenon DEF SurvivesEach, Inflight
<1>4. edge' = ClockEdge(req, sq, rdy) /\ (Published = None \/ rdy)
  BY DEF Advance, pipeline_advances, Published, response_valid
<1>5. Inflight' = (rp \o ro) \o rq
  <2>1. /\ Held(reduction_stage') = rp /\ Held(partial_product_stage') = ro
        /\ Held(operand_stage') = rq
    BY <1>1, HeldByStages, OfferedIsShort, Zenon DEF Advance
  <2> QED
    BY <2>1, Zenon DEF Inflight
<1>6. PICK qr, qp, qo, qq \in Seq(PreparedRequest) :
          /\ qr = rr /\ qp = rp /\ qo = ro /\ qq = rq
  BY <1>2, ShortQueues
<1>7. CASE rr = <<>>
  <2>1. queue = Inflight'
    <3>1. (<<>> \o qp) = qp
      BY <1>6, ConcatEmptySeq
    <3> QED
      BY <1>3, <1>5, <1>6, <1>7, <3>1, Zenon
  <2>2. result_stage' = None
    <3>1. CASE reduction_stage = None
      BY <3>1 DEF Advance, Handed
    <3>2. CASE reduction_stage # None
      <4>1. reduction_stage.op.tag = sq
        BY <1>7, <3>2 DEF Held, Rest
      <4> QED
        BY <4>1 DEF Advance, Handed
    <3> QED
      BY <3>1, <3>2
  <2>3. Published' = IF rdy THEN None ELSE Published
    BY <1>4, <2>2 DEF Published, response_valid
  <2> HIDE DEF queue
  <2> QED
    BY <1>1, <1>4, <2>1, <2>3, ClockImplements DEF queue
<1>8. CASE rr # <<>>
  <2>1. PICK op \in PreparedRequest :
            reduction_stage = Reduced(op) /\ reduction_stage # None
    BY <1>1, <1>8 DEF StagesAreComputed, Held, Rest
  <2>2. /\ reduction_stage.op = op /\ r = <<op>> /\ rr = <<op>> /\ op.tag # sq
        /\ CalculatedResponse(reduction_stage) # None
    <3>1. reduction_stage.op = op /\ CalculatedResponse(reduction_stage) # None
      BY <2>1, StagesCarryRequest
    <3>2. r = <<op>> /\ <<op>>[1] = op
      BY <2>1, <3>1 DEF Held
    <3> QED
      BY <1>8, <3>1, <3>2 DEF Rest
  <2>3. Published' = Architectural(op)
    <3>1. result_stage' = CalculatedResponse(reduction_stage)
      BY <2>1, <2>2 DEF Advance, Handed
    <3> QED
      BY <2>1, <2>2, <3>1, ResponseIs, Zenon DEF Published, response_valid
  <2>4. queue = <<op>> \o ((rp \o ro) \o rq)
    <3>1. Regroups(qr, qp, qo, qq)
      BY <1>6, ListsRegroup, Zenon
    <3> QED
      BY <1>3, <1>6, <2>2, <3>1, Zenon DEF Regroups
  <2>5. (rp \o ro) \o rq \in Seq(PreparedRequest)
    BY <1>6, ConcatProperties
  <2>6. queue # <<>> /\ Head(queue) = op /\ Tail(queue) = Inflight'
    BY SMTT(30), <1>5, <2>4, <2>5, OldestOfQueue
  <2>7. Published' = Architectural(Head(queue))
    BY <2>3, <2>6
  <2> HIDE DEF queue
  <2> QED
    BY <1>1, <1>4, <2>6, <2>7, ClockImplements DEF queue
<1> QED
  BY <1>7, <1>8

\* A stalled pipeline keeps what survives, and its response.
LEMMA StallImplements ==
    ASSUME MultiplierInvariant, MultiplierInvariant', NEW sq \in Tag \cup {None},
           NEW rdy \in BOOLEAN, Stall(sq, rdy)
    PROVE  Unit!Clock
<1> DEFINE rr == Rest(Held(reduction_stage), sq)
           rp == Rest(Held(partial_product_stage), sq)
           ro == Rest(Held(operand_stage), sq)
           queue == Surviving(Inflight \o OfferedTo(None), sq)
<1>1. StagesAreComputed /\ StagesAreComputed'
  BY DEF MultiplierInvariant
<1>2. /\ Held(reduction_stage) \in ShortQueue /\ Held(partial_product_stage) \in ShortQueue
      /\ Held(operand_stage) \in ShortQueue /\ OfferedTo(None) = <<>> /\ <<>> \in ShortQueue
      /\ Rest(<<>>, sq) = <<>>
  BY <1>1, HeldByStages DEF OfferedTo, ShortQueue, Rest
<1>3. queue = ((rr \o rp) \o ro) \o <<>>
  <2>1. SurvivesEach(Held(reduction_stage), Held(partial_product_stage),
                     Held(operand_stage), <<>>, sq)
    BY <1>2, StagesSurvive, Zenon
  <2> QED
    BY <1>2, <2>1, Zenon DEF SurvivesEach, Inflight
<1>4. Inflight' = (rr \o rp) \o ro
  <2>1. /\ Held(reduction_stage') = rr /\ Held(partial_product_stage') = rp
        /\ Held(operand_stage') = ro
    BY <1>1, HeldByStages, Zenon DEF Stall
  <2> QED
    BY <2>1, Zenon DEF Inflight
<1>5. ((rr \o rp) \o ro) \o <<>> = (rr \o rp) \o ro
  <2>1. rr \in Seq(PreparedRequest) /\ rp \in Seq(PreparedRequest)
        /\ ro \in Seq(PreparedRequest)
    BY <1>2, ShortQueues
  <2>2. (rr \o rp) \o ro \in Seq(PreparedRequest)
    BY <2>1, ConcatProperties
  <2> QED
    BY <2>2, ConcatEmptySeq
<1>6. queue = Inflight'
  BY <1>3, <1>4, <1>5, Zenon
<1>7. /\ edge' = ClockEdge(None, sq, rdy) /\ None \in Request \cup {None}
      /\ Published' = IF rdy THEN None ELSE Published
  BY DEF Stall, pipeline_advances, Published, response_valid
<1> HIDE DEF queue
<1> QED
  BY <1>1, <1>6, <1>7, ClockImplements DEF queue

\* Every step of the multiplier is a step of the unit.
LEMMA StepImplements ==
    MultiplierInvariant /\ MultiplierInvariant' /\ [Next]_vars => [Unit!Next]_Unit!vars
<1> SUFFICES ASSUME MultiplierInvariant, MultiplierInvariant', [Next]_vars
             PROVE  [Unit!Next]_Unit!vars
  OBVIOUS
<1>1. CASE Reset
  BY <1>1, ResetImplements DEF Unit!Next
<1>2. ASSUME NEW sq \in Tag \cup {None}, NEW rdy \in BOOLEAN, Clock(sq, rdy)
      PROVE  Unit!Clock
  BY <1>2, AdvanceImplements, StallImplements DEF Clock
<1>3. CASE UNCHANGED vars
  BY <1>3 DEF vars, stages, Unit!vars, Held, response_valid, Visible, VisibleResults,
     VisibleFlags
<1> QED
  BY <1>1, <1>2, <1>3 DEF Next, Unit!Next

\* The multiplier is a tagged execution unit of capacity three with the executable model
\* as its outcome: it answers in request order, drops exactly the unpublished operations
\* whose tag is squashed, moving or stalled, and never takes back a response.
THEOREM MultiplierImplementsUnit == Spec => ImplementsUnit
<1>1. Init => Unit!Init
  BY ResetImplements
<1> QED
  BY <1>1, MultiplierInvariantHolds, StepImplements, PTL DEF Spec, ImplementsUnit, Unit!Spec
=============================================================================
