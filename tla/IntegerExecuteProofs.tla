------------------------ MODULE IntegerExecuteProofs ------------------------
(***************************************************************************)
(* Theorems about IntegerExecute, for every register width, set of operand *)
(* sizes and set of requests its assumptions allow.                        *)
(***************************************************************************)
EXTENDS IntegerExecute, ExecuteBackendProofs

-----------------------------------------------------------------------------
(* One adder.                                                              *)

\* The number a vector of twice half values stands for.
Signed(v, half) == IF v >= half THEN v - 2 * half ELSE v

\* What an addition of left, right and x leaves in the adder: the sum, its carry, and the
\* overflow the sign bits tell.
AdditionIs(half, left, right, x, value) ==
    LET sum == left + right + x
        signed == Signed(left, half) + Signed(right, half) + x
    IN  /\ value \in 0 .. 2 * half - 1
        /\ sum \in 0 .. 4 * half - 1
        /\ sum = value + (IF sum >= 2 * half THEN 2 * half ELSE 0)
        /\ (signed \in -half .. half - 1) <=>
              ~((left >= half <=> right >= half) /\ ~(value >= half <=> left >= half))

\* An addition is that.
LEMMA Addition ==
    ASSUME NEW half \in Nat \ {0}, NEW left \in 0 .. 2 * half - 1,
           NEW right \in 0 .. 2 * half - 1, NEW x \in {0, 1}
    PROVE  \E value \in 0 .. 2 * half - 1 : AdditionIs(half, left, right, x, value)
<1> DEFINE sum == left + right + x
           value == IF sum >= 2 * half THEN sum - 2 * half ELSE sum
<1>1. value \in 0 .. 2 * half - 1
  OBVIOUS
<1>2. AdditionIs(half, left, right, x, value)
  BY DEF AdditionIs, Signed
<1> QED
  BY <1>1, <1>2

\* What the adder is left with when it adds the complement of right and the complement of
\* the borrow x: the difference, no carry for a borrow, and the overflow the sign bits tell.
SubtractionIs(half, left, right, x, value) ==
    LET difference == left - right - x
        sum == left + (2 * half - 1 - right) + (1 - x)
        signed == Signed(left, half) - Signed(right, half) - x
    IN  /\ value \in 0 .. 2 * half - 1
        /\ sum \in 0 .. 4 * half - 1 /\ sum = difference + 2 * half
        /\ value = difference + (IF difference < 0 THEN 2 * half ELSE 0)
        /\ (difference < 0) <=> ~(sum >= 2 * half)
        /\ (signed \in -half .. half - 1) <=>
              ~(~(left >= half <=> right >= half) /\ ~(value >= half <=> left >= half))
        /\ left = 0 => ((signed \in -half .. half - 1) <=> ~(right >= half /\ value >= half))
        /\ x = 0 => (value = 0 <=> left = right)
        /\ x = 0 => ((Signed(left, half) < Signed(right, half)) <=>
                       ~(value >= half <=> ~(signed \in -half .. half - 1)))

\* A subtraction is that.
LEMMA Subtraction ==
    ASSUME NEW half \in Nat \ {0}, NEW left \in 0 .. 2 * half - 1,
           NEW right \in 0 .. 2 * half - 1, NEW x \in {0, 1}
    PROVE  \E value \in 0 .. 2 * half - 1 : SubtractionIs(half, left, right, x, value)
<1> DEFINE difference == left - right - x
           value == IF difference < 0 THEN difference + 2 * half ELSE difference
<1>1. value \in 0 .. 2 * half - 1
  OBVIOUS
<1>2. SubtractionIs(half, left, right, x, value)
  BY DEF SubtractionIs, Signed
<1> QED
  BY <1>1, <1>2

\* The carry of an adder and what it leaves in the operand, of a sum below twice the vectors.
AdderOutputs(sum, w) ==
    /\ Bit(sum, w) = 1 <=> sum >= 2^w
    /\ Truncate(sum, w) = IF sum >= 2^w THEN sum - 2^w ELSE sum

\* They are the quotient and the remainder.
LEMMA AdderOutputsAre ==
    ASSUME NEW w, 2^w \in Nat \ {0}, NEW sum \in 0 .. 2 * 2^w - 1
    PROVE  AdderOutputs(sum, w)
<1>1. PICK m \in Nat \ {0} : m = 2^w
  OBVIOUS
<1>2. PICK b \in {0, 1}, r \in 0 .. m - 1 :
          b = (IF sum >= m THEN 1 ELSE 0) /\ r = sum - b * m /\ sum = m * b + r
  <2>1. CASE sum >= m
    <3>1. sum - m \in 0 .. m - 1 /\ sum = m * 1 + (sum - m) /\ sum - m = sum - 1 * m
      BY <1>1, <2>1
    <3> QED
      BY <2>1, <3>1
  <2>2. CASE sum < m
    <3>1. sum \in 0 .. m - 1 /\ sum = m * 0 + sum /\ sum = sum - 0 * m
      BY <1>1, <2>2
    <3> QED
      BY <2>2, <3>1
  <2> QED
    BY <1>1, <2>1, <2>2
<1>3. (m * b + r) \div m = b /\ (m * b + r) % m = r
  BY DivisionIsUnique
<1>4. b % 2 = b
  OBVIOUS
<1>5. 0 * m = 0 /\ 1 * m = m
  OBVIOUS
<1>6. Bit(sum, w) = b /\ Truncate(sum, w) = r
  BY <1>1, <1>2, <1>3, <1>4 DEF Bit, Truncate
<1>7. (b = 1 <=> sum >= m) /\ r = IF sum >= m THEN sum - m ELSE sum
  BY <1>2, <1>5
<1> QED
  BY <1>1, <1>6, <1>7, Zenon DEF AdderOutputs

-----------------------------------------------------------------------------
(* A request and its operands.                                             *)

\* The width of an operand size, and its powers of two.
LEMMA SizePowers ==
    ASSUME NEW s \in OperandSize
    PROVE  /\ 2^XLEN \in Nat \ {0} /\ 2^Width[s] <= 2^XLEN
           /\ \E half \in Nat \ {0} : 2^(Width[s] - 1) = half /\ 2^Width[s] = 2 * half
<1>1. PICK w \in Nat, n \in Nat, d \in Nat :
          /\ w = Width[s] /\ n = Width[s] - 1 /\ d = XLEN - Width[s]
          /\ w = n + 1 /\ XLEN = w + d
  <2>1. Width[s] \in Nat \ {0} /\ Width[s] <= XLEN /\ XLEN \in Nat
    BY WidthAssumption
  <2>2. Width[s] - 1 \in Nat /\ XLEN - Width[s] \in Nat /\ Width[s] = (Width[s] - 1) + 1
        /\ XLEN = Width[s] + (XLEN - Width[s])
    BY <2>1
  <2> QED
    BY <2>1, <2>2
<1>2. XLEN \in Nat
  BY WidthAssumption
<1>3. \A m, k \in Nat : m + k <= XLEN => 2^m \in Nat \ {0} /\ 2^(m + k) = 2^m * 2^k
  BY <1>2, PowerAssumption, PowersAdd
<1>4. n + 1 <= XLEN /\ w + d <= XLEN /\ d + w <= XLEN /\ XLEN + 0 <= XLEN /\ 1 \in Nat /\ 0 \in Nat
  BY <1>1, <1>2
<1>5. /\ 2^n \in Nat \ {0} /\ 2^w \in Nat \ {0} /\ 2^d \in Nat \ {0} /\ 2^XLEN \in Nat \ {0}
      /\ 2^(n + 1) = 2^n * 2^1 /\ 2^(w + d) = 2^w * 2^d
  BY <1>2, <1>3, <1>4
<1>6. PICK a \in Nat \ {0}, b \in Nat \ {0} : a = 2^w /\ b = 2^d /\ 2^XLEN = a * b
  BY <1>1, <1>5
<1>7. a <= a * b
  BY <1>6
<1>8. 2^1 = 2
  OBVIOUS
<1>9. PICK half \in Nat \ {0} : half = 2^n /\ 2^w = 2 * half
  BY <1>1, <1>5, <1>8
<1> QED
  BY <1>1, <1>5, <1>6, <1>7, <1>9

\* The fields of a request.
LEMMA RequestFields ==
    ASSUME NEW r \in Request
    PROVE  /\ r \in IntegerRequest /\ r.tag \in Tag /\ r.operand_size \in OperandSize
           /\ r.source_left \in Word(XLEN) /\ r.source_right \in Word(XLEN)
           /\ r.source_left \in Int /\ r.source_right \in Int
           /\ r.operation \in Operation \cup {"RESERVED"} /\ r.extend_in \in {0, 1}
           /\ r.update_flags \in BOOLEAN /\ r # None
<1>1. r \in IntegerRequest /\ r # None
  BY RequestAssumption
<1>2. /\ r.source_left \in Word(XLEN) /\ r.source_right \in Word(XLEN)
  BY <1>1 DEF IntegerRequest
<1>3. 2^XLEN \in Nat \ {0}
  BY <1>1, SizePowers DEF IntegerRequest
<1>4. r.source_left \in Int /\ r.source_right \in Int
  BY <1>2, <1>3 DEF Word
<1> QED
  BY <1>1, <1>2, <1>4 DEF IntegerRequest

\* left and right are the operands of r in its width, whose vectors are twice half.
OperandsAre(r, half, left, right) ==
    /\ 2^(Width[r.operand_size] - 1) = half /\ 2^Width[r.operand_size] = 2 * half
    /\ Truncate(r.source_left, Width[r.operand_size]) = left
    /\ Truncate(r.source_right, Width[r.operand_size]) = right
    /\ SignSet(r.source_left, Width[r.operand_size]) <=> left >= half
    /\ SignSet(r.source_right, Width[r.operand_size]) <=> right >= half
    /\ AsSigned(r.source_left, Width[r.operand_size]) = Signed(left, half)
    /\ AsSigned(r.source_right, Width[r.operand_size]) = Signed(right, half)

\* Every request has operands.
LEMMA RequestOperands ==
    ASSUME NEW r \in Request
    PROVE  \E half \in Nat \ {0} : \E left, right \in 0 .. 2 * half - 1 :
              OperandsAre(r, half, left, right)
<1>1. /\ r.operand_size \in OperandSize /\ r.source_left \in Int /\ r.source_right \in Int
  BY RequestFields
<1>2. PICK w, half \in Nat \ {0} :
          w = Width[r.operand_size] /\ 2^(w - 1) = half /\ 2^w = 2 * half
  BY <1>1, SizePowers, WidthAssumption
<1>3. ASSUME NEW v \in Int
      PROVE  /\ Truncate(v, w) \in 0 .. 2 * half - 1
             /\ SignSet(v, w) <=> Truncate(v, w) >= half
             /\ AsSigned(v, w) = Signed(Truncate(v, w), half)
  <2>1. Truncate(v, w) \in 0 .. 2 * half - 1
    BY <1>2, TruncateIsWord DEF Word
  <2>2. SignSet(v, w) <=> Truncate(v, w) >= half
    BY <1>2, SignIsUpperHalf
  <2> QED
    BY <1>2, <2>1, <2>2 DEF AsSigned, Signed
<1> QED
  BY <1>1, <1>2, <1>3 DEF OperandsAre

-----------------------------------------------------------------------------
(* The ALU and the executable model.                                       *)

\* The flags of a value.
FlagsOf(v, w, overflow, carry) ==
    [negative |-> SignSet(v, w), zero |-> Truncate(v, w) = 0,
     overflow |-> overflow, carry |-> carry]

\* The model's operators on vectors are the units' own.
LEMMA ModelBits ==
    \A v, w, overflow, carry :
        /\ Model!Truncate(v, w) = Truncate(v, w)
        /\ Model!AsSigned(v, w) = AsSigned(v, w)
        /\ Model!Representable(w, TRUE) = Representable(w, TRUE)
        /\ Model!Flags(v, w, overflow, carry) = FlagsOf(v, w, overflow, carry)
  BY DEF Model!Truncate, Model!AsSigned, Model!SignSet, Model!Bit, Model!Representable,
     Model!Flags, Truncate, AsSigned, SignSet, Bit, Representable, FlagsOf

\* Vectors that agree in their low bits have the same flags.
LEMMA FlagsOfLowBits ==
    ASSUME NEW u \in Int, NEW v \in Int, NEW w, NEW half \in Nat \ {0}, NEW overflow, NEW carry,
           2^(w - 1) = half, 2^w = 2 * half, Truncate(u, w) = Truncate(v, w)
    PROVE  FlagsOf(u, w, overflow, carry) = FlagsOf(v, w, overflow, carry)
<1>1. SignSet(u, w) = SignSet(v, w)
  BY SameSign DEF SignSet
<1> QED
  BY <1>1 DEF FlagsOf

\* What the model computes for a request.
Computed(r) ==
    Model!Computed(r.operation, r.source_left, r.source_right, r.extend_in,
                   Width[r.operand_size])

\* The ALU answers a request with value, and the model with value and the ALU's flags.
Agrees(r, value) ==
    /\ value \in Word(Width[r.operand_size])
    /\ ArithmeticResult(r, Width[r.operand_size]) = value
    /\ Computed(r) =
          [value |-> value,
           flags |-> FlagsOf(value, Width[r.operand_size],
                             ArithmeticOverflow(r, Width[r.operand_size]),
                             CarryOrBorrow(r, Width[r.operand_size]))]

\* The carry of an addition, and the borrow a subtraction makes of it.
LEMMA CarryIs ==
    ASSUME NEW r, NEW w, NEW sum, UsesAdder(r.operation), AdderSum(r, w) = sum,
           Bit(sum, w) = 1 <=> sum >= 2^w
    PROVE  /\ CarryOrBorrow(r, w) \in BOOLEAN
           /\ ~Subtracts(r.operation) => (CarryOrBorrow(r, w) <=> sum >= 2^w)
           /\ Subtracts(r.operation) => (CarryOrBorrow(r, w) <=> ~(sum >= 2^w))
<1>1. PICK c, d : c = (Bit(sum, w) = 1) /\ d = Subtracts(r.operation)
  OBVIOUS
<1>2. c \in BOOLEAN
  BY <1>1
<1>3. d \in BOOLEAN
  BY <1>1 DEF Subtracts
<1>4. (c <=> sum >= 2^w) /\ (d <=> Subtracts(r.operation))
  BY <1>1, Zenon
<1>5. CarryOrBorrow(r, w) <=> c # d
  BY <1>1, Zenon DEF CarryOrBorrow
<1>6. CarryOrBorrow(r, w) \in BOOLEAN
  BY DEF CarryOrBorrow
<1> QED
  BY <1>2, <1>3, <1>4, <1>5, <1>6

\* Overflow, from three sign bits.
LEMMA OverflowIs ==
    ASSUME NEW r, NEW w, NEW left, NEW right, NEW value,
           SignSet(r.source_left, w) <=> left, SignSet(r.source_right, w) <=> right,
           SignSet(ArithmeticResult(r, w), w) <=> value
    PROVE  /\ ArithmeticOverflow(r, w) \in BOOLEAN
           /\ r.operation \in {"ADD", "ADCX"} =>
                 (ArithmeticOverflow(r, w) <=> ((left <=> right) /\ ~(value <=> left)))
           /\ r.operation \in {"SUB", "SBCX", "CMP"} =>
                 (ArithmeticOverflow(r, w) <=> (~(left <=> right) /\ ~(value <=> left)))
           /\ r.operation \in {"NEG", "NEGX"} =>
                 (ArithmeticOverflow(r, w) <=> (right /\ value))
           /\ ~UsesAdder(r.operation) => ~ArithmeticOverflow(r, w)
<1>1. PICK a, b, c : a = SignSet(r.source_left, w) /\ b = SignSet(r.source_right, w)
                     /\ c = SignSet(ArithmeticResult(r, w), w)
  OBVIOUS
<1>2. a \in BOOLEAN /\ b \in BOOLEAN /\ c \in BOOLEAN
  BY <1>1 DEF SignSet
<1>3. (a <=> left) /\ (b <=> right) /\ (c <=> value)
  BY <1>1, Zenon
<1>4. ArithmeticOverflow(r, w) <=>
          \/ r.operation \in {"ADD", "ADCX"} /\ a = b /\ c # a
          \/ r.operation \in {"SUB", "SBCX", "CMP"} /\ a # b /\ c # a
          \/ r.operation \in {"NEG", "NEGX"} /\ b /\ c
  BY <1>1, Zenon DEF ArithmeticOverflow
<1>5. ArithmeticOverflow(r, w) \in BOOLEAN
  BY DEF ArithmeticOverflow
<1> HIDE DEF ArithmeticOverflow
<1> QED
  BY <1>2, <1>3, <1>4, <1>5 DEF UsesAdder, Subtracts

\* The flags of a number u that has the bits of value, with a carry and an overflow that
\* are the ALU's, are the ALU's.
LEMMA AgreesFromFlags ==
    ASSUME NEW r \in Request, NEW half \in Nat \ {0}, NEW left, NEW right,
           OperandsAre(r, half, left, right), NEW u \in Int,
           NEW value \in Word(Width[r.operand_size]), NEW overflow, NEW carry,
           ArithmeticResult(r, Width[r.operand_size]) = value,
           Truncate(u, Width[r.operand_size]) = value,
           Computed(r) = [value |-> value,
                          flags |-> FlagsOf(u, Width[r.operand_size], overflow, carry)],
           overflow \in BOOLEAN, ArithmeticOverflow(r, Width[r.operand_size]) \in BOOLEAN,
           overflow <=> ArithmeticOverflow(r, Width[r.operand_size]),
           carry \in BOOLEAN, CarryOrBorrow(r, Width[r.operand_size]) \in BOOLEAN,
           carry <=> CarryOrBorrow(r, Width[r.operand_size])
    PROVE  Agrees(r, value)
<1> DEFINE w == Width[r.operand_size]
<1>1. 2^w = 2 * half /\ 2^(w - 1) = half /\ 2^w \in Nat \ {0}
  BY DEF OperandsAre
<1>2. value \in Int
  BY <1>1 DEF Word
<1>3. Truncate(value, w) = value
  BY <1>1, TruncateOfWord
<1>4. FlagsOf(u, w, overflow, carry) = FlagsOf(value, w, overflow, carry)
  BY <1>1, <1>2, <1>3, FlagsOfLowBits
<1>5. overflow = ArithmeticOverflow(r, w) /\ carry = CarryOrBorrow(r, w)
  OBVIOUS
<1> QED
  BY <1>4, <1>5, Zenon DEF Agrees

\* A value within the vectors of the width, and its sign.
LEMMA ValueInWidth ==
    ASSUME NEW w, NEW half \in Nat \ {0}, 2^(w - 1) = half, 2^w = 2 * half,
           NEW value \in 0 .. 2 * half - 1
    PROVE  /\ value \in Word(w) /\ Truncate(value, w) = value
           /\ SignSet(value, w) <=> value >= half
<1>1. value \in Word(w) /\ value \in Int /\ 2^w \in Nat \ {0}
  BY DEF Word
<1>2. Truncate(value, w) = value
  BY <1>1, TruncateOfWord
<1> QED
  BY <1>1, <1>2, SignIsUpperHalf

\* Zero stands for itself.
LEMMA ZeroInWidth ==
    ASSUME NEW w, NEW half \in Nat \ {0}, 2^(w - 1) = half, 2^w = 2 * half
    PROVE  Truncate(0, w) = 0 /\ AsSigned(0, w) = 0
<1>1. PICK zero \in 0 .. 2 * half - 1 : zero = 0
  OBVIOUS
<1>2. Truncate(zero, w) = zero /\ (SignSet(zero, w) <=> zero >= half)
  BY <1>1, ValueInWidth
<1> QED
  BY <1>1, <1>2 DEF AsSigned

\* The ALU and the model agree about additions.
LEMMA AdditionAgrees ==
    ASSUME NEW r \in Request, r.operation \in {"ADD", "ADCX"}
    PROVE  \E value : Agrees(r, value)
<1> DEFINE w == Width[r.operand_size]
<1>1. r.extend_in \in {0, 1}
  BY RequestFields
<1>2. PICK half \in Nat \ {0} :
          \E left, right \in 0 .. 2 * half - 1 : OperandsAre(r, half, left, right)
  BY RequestOperands
<1>3. PICK left, right \in 0 .. 2 * half - 1 : OperandsAre(r, half, left, right)
  BY <1>2
<1>4. PICK x \in {0, 1} : x = IF r.operation = "ADD" THEN 0 ELSE r.extend_in
  BY <1>1
<1>5. PICK value \in 0 .. 2 * half - 1 : AdditionIs(half, left, right, x, value)
  BY Addition
<1>6. PICK sum \in Int, signed \in Int :
          /\ sum = left + right + x
          /\ signed = Signed(left, half) + Signed(right, half) + x
  BY DEF Signed
<1>7. /\ sum \in 0 .. 4 * half - 1
      /\ sum = value + (IF sum >= 2 * half THEN 2 * half ELSE 0)
      /\ (signed \in -half .. half - 1) <=>
              ~((left >= half <=> right >= half) /\ ~(value >= half <=> left >= half))
  BY <1>5, <1>6 DEF AdditionIs
<1>8. 2^w = 2 * half /\ 2^w \in Nat \ {0} /\ 2^(w - 1) = half
  BY <1>3 DEF OperandsAre
<1>9. Truncate(sum, w) = value /\ (Bit(sum, w) = 1 <=> sum >= 2^w)
  <2>1. sum \in 0 .. 2 * 2^w - 1
    BY <1>7, <1>8
  <2>2. AdderOutputs(sum, w)
    BY <1>8, <2>1, AdderOutputsAre
  <2> QED
    BY <1>7, <1>8, <2>2 DEF AdderOutputs
<1>10. value \in Word(w) /\ (SignSet(value, w) <=> value >= half)
  <2> HIDE DEF w
  <2> QED
    BY SMTT(30), <1>8, ValueInWidth
<1>11. UsesAdder(r.operation) /\ ~Subtracts(r.operation)
       /\ r.operation \notin {"NEG", "NEGX", "SUB", "SBCX", "CMP"}
  BY DEF UsesAdder, Subtracts
<1>12. AdderSum(r, w) = sum
  BY <1>3, <1>4, <1>6, <1>11 DEF AdderSum, OperandsAre
<1>13. ArithmeticResult(r, w) = value
  BY <1>9, <1>11, <1>12 DEF ArithmeticResult
<1>14. CarryOrBorrow(r, w) \in BOOLEAN /\ (CarryOrBorrow(r, w) <=> sum >= 2^w)
  BY <1>9, <1>11, <1>12, CarryIs
<1>15. PICK overflow, carry :
          overflow = (signed \notin Representable(w, TRUE)) /\ carry = (sum >= 2^w)
  OBVIOUS
<1>16. /\ overflow \in BOOLEAN /\ carry \in BOOLEAN
       /\ (overflow <=> signed \notin Representable(w, TRUE)) /\ (carry <=> sum >= 2^w)
  <2>1. overflow \in BOOLEAN /\ carry \in BOOLEAN
    BY <1>15
  <2> QED
    BY <1>15, <2>1, Zenon
<1>17. ArithmeticOverflow(r, w) \in BOOLEAN /\ (ArithmeticOverflow(r, w) <=> overflow)
  <2>1. Representable(w, TRUE) = -half .. half - 1
    BY <1>8 DEF Representable
  <2>2. /\ ArithmeticOverflow(r, w) \in BOOLEAN
        /\ ArithmeticOverflow(r, w) <=>
              ((left >= half <=> right >= half) /\ ~(value >= half <=> left >= half))
    <3>1. /\ SignSet(r.source_left, w) <=> left >= half
          /\ SignSet(r.source_right, w) <=> right >= half
          /\ SignSet(ArithmeticResult(r, w), w) <=> value >= half
      BY <1>3, <1>10, <1>13, Zenon DEF OperandsAre
    <3> QED
      BY <3>1, OverflowIs
  <2> QED
    BY <1>7, <1>16, <2>1, <2>2
<1>18. Computed(r) = [value |-> value, flags |-> FlagsOf(sum, w, overflow, carry)]
  <2>1. Computed(r) = Model!Add(r.source_left, r.source_right, x, w)
    BY <1>4 DEF Computed, Model!Computed
  <2>2. Computed(r) = [value |-> sum % 2^w,
                       flags |-> FlagsOf(sum, w, signed \notin Representable(w, TRUE),
                                         sum >= 2^w)]
    BY <1>3, <1>6, <2>1, ModelBits DEF Model!Add, OperandsAre
  <2> QED
    BY <1>9, <1>15, <2>2, Zenon DEF Truncate
<1>19. Agrees(r, value)
  BY <1>3, <1>9, <1>10, <1>13, <1>14, <1>16, <1>17, <1>18, AgreesFromFlags
<1> QED
  BY <1>19

\* And about subtractions, comparisons and negations, which are subtractions from zero.
LEMMA SubtractionAgrees ==
    ASSUME NEW r \in Request, r.operation \in {"SUB", "SBCX", "CMP", "NEG", "NEGX"}
    PROVE  \E value : Agrees(r, value)
<1> DEFINE w == Width[r.operand_size]
           negates == r.operation \in {"NEG", "NEGX"}
<1>1. r.extend_in \in {0, 1}
  BY RequestFields
<1>2. PICK half \in Nat \ {0} :
          \E left, right \in 0 .. 2 * half - 1 : OperandsAre(r, half, left, right)
  BY RequestOperands
<1>3. PICK minuend, right \in 0 .. 2 * half - 1 : OperandsAre(r, half, minuend, right)
  BY <1>2
<1>4. PICK x \in {0, 1}, left \in 0 .. 2 * half - 1 :
          /\ x = IF r.operation \in {"SBCX", "NEGX"} THEN r.extend_in ELSE 0
          /\ left = IF negates THEN 0 ELSE minuend
  BY <1>1
<1>5. PICK value \in 0 .. 2 * half - 1 : SubtractionIs(half, left, right, x, value)
  BY Subtraction
<1>6. PICK difference \in Int, sum \in Int, signed \in Int :
          /\ difference = left - right - x
          /\ sum = left + (2 * half - 1 - right) + (1 - x)
          /\ signed = Signed(left, half) - Signed(right, half) - x
  BY DEF Signed
<1>7. /\ sum \in 0 .. 4 * half - 1 /\ sum = difference + 2 * half
      /\ value = difference + (IF difference < 0 THEN 2 * half ELSE 0)
      /\ (difference < 0) <=> ~(sum >= 2 * half)
      /\ (signed \in -half .. half - 1) <=>
              ~(~(left >= half <=> right >= half) /\ ~(value >= half <=> left >= half))
      /\ left = 0 => ((signed \in -half .. half - 1) <=> ~(right >= half /\ value >= half))
  BY <1>5, <1>6 DEF SubtractionIs
<1>8. 2^w = 2 * half /\ 2^w \in Nat \ {0} /\ 2^(w - 1) = half
  BY <1>3 DEF OperandsAre
<1>9. Truncate(sum, w) = value /\ (Bit(sum, w) = 1 <=> sum >= 2^w)
  <2>1. sum \in 0 .. 2 * 2^w - 1
    BY <1>7, <1>8
  <2>2. AdderOutputs(sum, w)
    BY <1>8, <2>1, AdderOutputsAre
  <2> QED
    BY <1>7, <1>8, <2>2 DEF AdderOutputs
<1>10. value \in Word(w) /\ Truncate(value, w) = value /\ (SignSet(value, w) <=> value >= half)
  BY <1>8, ValueInWidth
<1>11. /\ UsesAdder(r.operation) /\ Subtracts(r.operation)
       /\ r.operation \notin {"ADD", "ADCX"}
       /\ r.operation \notin {"SUB", "SBCX", "CMP"} <=> negates
  BY DEF UsesAdder, Subtracts
<1>12. AdderSum(r, w) = sum
  BY <1>3, <1>4, <1>6, <1>8, <1>11 DEF AdderSum, OperandsAre
<1>13. ArithmeticResult(r, w) = value
  BY <1>9, <1>11, <1>12 DEF ArithmeticResult
<1>14. CarryOrBorrow(r, w) \in BOOLEAN /\ (CarryOrBorrow(r, w) <=> difference < 0)
  <2>1. CarryOrBorrow(r, w) \in BOOLEAN /\ (CarryOrBorrow(r, w) <=> ~(sum >= 2^w))
    BY <1>9, <1>11, <1>12, CarryIs
  <2> QED
    BY <1>7, <1>8, <2>1
<1>15. PICK overflow, carry :
          overflow = (signed \notin Representable(w, TRUE)) /\ carry = (difference < 0)
  OBVIOUS
<1>16. /\ overflow \in BOOLEAN /\ carry \in BOOLEAN
       /\ (overflow <=> signed \notin Representable(w, TRUE)) /\ (carry <=> difference < 0)
  <2>1. overflow \in BOOLEAN /\ carry \in BOOLEAN
    BY <1>15
  <2> QED
    BY <1>15, <2>1, Zenon
<1>17. ArithmeticOverflow(r, w) \in BOOLEAN /\ (ArithmeticOverflow(r, w) <=> overflow)
  <2>1. Representable(w, TRUE) = -half .. half - 1
    BY <1>8 DEF Representable
  <2>2. /\ SignSet(r.source_left, w) <=> minuend >= half
        /\ SignSet(r.source_right, w) <=> right >= half
        /\ SignSet(ArithmeticResult(r, w), w) <=> value >= half
    BY <1>3, <1>10, <1>13, Zenon DEF OperandsAre
  <2>3. ArithmeticOverflow(r, w) \in BOOLEAN
    BY DEF ArithmeticOverflow
  <2>4. CASE negates
    <3>1. ArithmeticOverflow(r, w) <=> (right >= half /\ value >= half)
      BY <2>2, <2>4, OverflowIs
    <3> QED
      BY <1>4, <1>7, <1>16, <2>1, <2>3, <2>4, <3>1
  <2>5. CASE ~negates
    <3>1. ArithmeticOverflow(r, w) <=>
              (~(minuend >= half <=> right >= half) /\ ~(value >= half <=> minuend >= half))
      BY <1>11, <2>2, <2>5, OverflowIs
    <3> QED
      BY <1>4, <1>7, <1>16, <2>1, <2>3, <2>5, <3>1
  <2> QED
    BY <2>4, <2>5
<1>18. difference % 2^w = value
  <2>1. PICK m \in Nat \ {0}, k \in Int : m = 2^w /\ k = 1 /\ sum = difference + m * k
    BY <1>7, <1>8
  <2>2. (difference + m * k) % m = difference % m
    BY RemainderOfSum
  <2> QED
    BY <1>9, <2>1, <2>2 DEF Truncate
<1>19. Computed(r) = [value |-> value, flags |-> FlagsOf(value, w, overflow, carry)]
  <2> DEFINE first == IF negates THEN 0 ELSE r.source_left
  <2>1. Computed(r) = Model!Subtract(first, r.source_right, x, w)
    BY <1>4 DEF Computed, Model!Computed
  <2>2. Truncate(first, w) = left /\ AsSigned(first, w) = Signed(left, half)
    <3>1. Truncate(0, w) = 0 /\ AsSigned(0, w) = 0 /\ Signed(0, half) = 0
      BY <1>8, ZeroInWidth DEF Signed
    <3> QED
      BY <1>3, <1>4, <3>1 DEF OperandsAre
  <2>3. Truncate(r.source_right, w) = right /\ AsSigned(r.source_right, w) = Signed(right, half)
    BY <1>3 DEF OperandsAre
  <2> HIDE DEF first
  <2>4. Truncate(first, w) - (Truncate(r.source_right, w) + x) = difference
        /\ AsSigned(first, w) - AsSigned(r.source_right, w) - x = signed
    BY <1>6, <2>2, <2>3
  <2>5. Computed(r) = [value |-> difference % 2^w,
                       flags |-> FlagsOf(difference % 2^w, w,
                                         signed \notin Representable(w, TRUE), difference < 0)]
    <3>1. /\ Model!Truncate(first, w) - (Model!Truncate(r.source_right, w) + x) = difference
          /\ Model!AsSigned(first, w) - Model!AsSigned(r.source_right, w) - x = signed
      BY <2>4, ModelBits
    <3>2. Computed(r) = [value |-> difference % 2^w,
                         flags |-> Model!Flags(difference % 2^w, w,
                                       signed \notin Model!Representable(w, TRUE),
                                       difference < 0)]
      BY <2>1, <3>1, Zenon DEF Model!Subtract
    <3> QED
      BY <3>2, ModelBits, Zenon
  <2> QED
    BY <1>15, <1>18, <2>5, Zenon
<1>20. Agrees(r, value)
  <2>1. value \in Int
    OBVIOUS
  <2> QED
    BY <1>3, <1>10, <1>13, <1>14, <1>16, <1>17, <1>19, <2>1, AgreesFromFlags
<1> QED
  BY <1>20

\* And about the bitwise operations, whose results are those of the low bits.
LEMMA LogicalAgrees ==
    ASSUME NEW r \in Request, r.operation \in {"AND", "OR", "XOR", "NOT", "TST"}
    PROVE  \E value : Agrees(r, value)
<1> DEFINE w == Width[r.operand_size]
<1>1. /\ r.source_left \in Word(XLEN) /\ r.source_right \in Word(XLEN)
      /\ r.source_right \in Int /\ r.operand_size \in OperandSize
  BY RequestFields
<1>2. PICK half \in Nat \ {0} :
          \E left, right \in 0 .. 2 * half - 1 : OperandsAre(r, half, left, right)
  BY RequestOperands
<1>3. PICK left, right \in 0 .. 2 * half - 1 : OperandsAre(r, half, left, right)
  BY <1>2
<1>4. 2^w = 2 * half /\ 2^w \in Nat \ {0} /\ 2^(w - 1) = half /\ 2^XLEN \in Nat \ {0}
  BY <1>1, <1>3, SizePowers DEF OperandsAre
<1>5. PICK u \in Int :
          u = CASE r.operation = "AND" -> BitAnd(r.source_left, r.source_right)
                [] r.operation = "OR" -> BitOr(r.source_left, r.source_right)
                [] r.operation = "XOR" -> BitXor(r.source_left, r.source_right)
                [] r.operation = "NOT" -> -r.source_right - 1
                [] r.operation = "TST" -> r.source_right
  <2>1. {BitAnd(r.source_left, r.source_right), BitOr(r.source_left, r.source_right),
         BitXor(r.source_left, r.source_right)} \subseteq Word(XLEN)
    BY <1>1, BitwiseAssumption
  <2>2. Word(XLEN) \subseteq Int
    BY <1>4 DEF Word
  <2>3. /\ BitAnd(r.source_left, r.source_right) \in Int
        /\ BitOr(r.source_left, r.source_right) \in Int
        /\ BitXor(r.source_left, r.source_right) \in Int
        /\ -r.source_right - 1 \in Int
    BY <1>1, <2>1, <2>2
  <2> QED
    BY <1>1, <2>3
<1>6. PICK value : value = Truncate(u, w)
  OBVIOUS
<1>7. value \in Word(w) /\ value \in Int
  BY <1>4, <1>6, TruncateIsWord DEF Word
<1>8. ~UsesAdder(r.operation)
  BY DEF UsesAdder, Subtracts
<1>9. 2^w - 1 - right = Truncate(-r.source_right - 1, w)
  <2>1. PICK m \in Nat \ {0}, v \in Int : m = 2^w /\ v = r.source_right
    BY <1>1, <1>4
  <2>2. PICK q \in Int, e \in 0 .. m - 1 : q = v \div m /\ e = v % m /\ v = m * q + e
    BY Division, Zenon
  <2>3. e = right
    BY <1>3, <2>1, <2>2 DEF OperandsAre, Truncate
  <2>4. PICK k \in Int, d \in 0 .. m - 1 : k = -q - 1 /\ d = m - 1 - e
    BY <2>2
  <2>5. m * k = -(m * q) - m
    BY <2>4
  <2>6. -v - 1 = m * k + d
    BY <2>2, <2>4, <2>5
  <2>7. (m * k + d) % m = d
    BY DivisionIsUnique
  <2> QED
    BY <2>1, <2>3, <2>4, <2>6, <2>7 DEF Truncate
<1>10. ArithmeticResult(r, w) = value
  <2>1. /\ BitAnd(left, right) = Truncate(BitAnd(r.source_left, r.source_right), w)
        /\ BitOr(left, right) = Truncate(BitOr(r.source_left, r.source_right), w)
        /\ BitXor(left, right) = Truncate(BitXor(r.source_left, r.source_right), w)
    <3>1. /\ Truncate(r.source_left, w) = left /\ Truncate(r.source_right, w) = right
      BY <1>3 DEF OperandsAre
    <3> QED
      BY <1>1, <3>1, BitwiseAssumption
  <2>2. Truncate(r.source_left, w) = left /\ Truncate(r.source_right, w) = right
    BY <1>3 DEF OperandsAre
  <2> QED
    BY <1>5, <1>6, <1>8, <1>9, <2>1, <2>2 DEF ArithmeticResult
<1>11. Computed(r) = [value |-> value, flags |-> FlagsOf(u, w, FALSE, FALSE)]
  <2>1. Computed(r) = Model!Logical(u, w)
    BY <1>5 DEF Computed, Model!Computed
  <2> QED
    BY <1>6, <2>1, ModelBits DEF Model!Logical
<1>12. CarryOrBorrow(r, w) = FALSE
  BY <1>8 DEF CarryOrBorrow
<1>13. ArithmeticOverflow(r, w) \in BOOLEAN /\ ~ArithmeticOverflow(r, w)
  <2>1. PICK a, b, c : a = SignSet(r.source_left, w) /\ b = SignSet(r.source_right, w)
                       /\ c = SignSet(ArithmeticResult(r, w), w)
    OBVIOUS
  <2>2. (SignSet(r.source_left, w) <=> a) /\ (SignSet(r.source_right, w) <=> b)
        /\ (SignSet(ArithmeticResult(r, w), w) <=> c)
    BY <2>1, Zenon
  <2> QED
    BY <1>8, <2>2, OverflowIs
<1>14. Agrees(r, value)
  BY <1>3, <1>6, <1>7, <1>10, <1>11, <1>12, <1>13, AgreesFromFlags
<1> QED
  BY <1>14

\* The ALU and the model agree about every request the pipe accepts.
LEMMA EveryOperationAgrees ==
    ASSUME NEW r \in Request, Legal(r.operation)
    PROVE  \E value : Agrees(r, value)
<1>1. \/ r.operation \in {"ADD", "ADCX"}
      \/ r.operation \in {"SUB", "SBCX", "CMP", "NEG", "NEGX"}
      \/ r.operation \in {"AND", "OR", "XOR", "NOT", "TST"}
  BY DEF Legal, Operation
<1> QED
  BY <1>1, AdditionAgrees, SubtractionAgrees, LogicalAgrees

-----------------------------------------------------------------------------
(* The response.                                                           *)

\* The flags of every request are Boolean.
LEMMA FlagsAreBoolean ==
    ASSUME NEW r, NEW w
    PROVE  /\ CarryOrBorrow(r, w) \in BOOLEAN /\ ArithmeticOverflow(r, w) \in BOOLEAN
           /\ \A v : SignSet(v, w) \in BOOLEAN
  BY DEF CarryOrBorrow, ArithmeticOverflow, SignSet

\* The response to a request is typed, and is the one the model prescribes.
LEMMA ResponseIs ==
    ASSUME NEW r \in Request, Legal(r.operation)
    PROVE  /\ CalculatedResponse(r) \in IntegerResponse
           /\ CalculatedResponse(r).tag = r.tag
           /\ Visible(CalculatedResponse(r)) = Architectural(r)
<1> DEFINE w == Width[r.operand_size]
           op == r.operation
<1>1. /\ r.tag \in Tag /\ r.operand_size \in OperandSize /\ r.update_flags \in BOOLEAN
      /\ r.operation \in Operation
  BY RequestFields DEF Legal
<1>2. PICK value : Agrees(r, value)
  BY EveryOperationAgrees
<1>3. PICK negative, zero, overflow, carry :
          /\ negative = SignSet(value, w) /\ zero = (value = 0)
          /\ overflow = ArithmeticOverflow(r, w) /\ carry = CarryOrBorrow(r, w)
  OBVIOUS
<1>4. negative \in BOOLEAN /\ zero \in BOOLEAN /\ overflow \in BOOLEAN /\ carry \in BOOLEAN
  <2>1. zero \in BOOLEAN
    BY <1>3
  <2> QED
    BY <1>3, <2>1, FlagsAreBoolean, Zenon
<1>5. PICK compares, updates, extends :
          /\ compares = AlwaysWritesFlags(op)
          /\ updates = (r.update_flags \/ AlwaysWritesFlags(op))
          /\ extends = (op \in {"ADCX", "SBCX", "NEGX"})
  OBVIOUS
<1>6. compares \in BOOLEAN /\ updates \in BOOLEAN /\ extends \in BOOLEAN
  <2>1. updates \in BOOLEAN
    BY <1>5
  <2> QED
    BY <1>5, <2>1 DEF AlwaysWritesFlags
<1>7. PICK rsp :
          /\ rsp = CalculatedResponse(r)
          /\ rsp = [tag |-> r.tag, result_valid |-> ~compares,
                    result |-> Result(~compares, "LOW", value), flags_valid |-> updates,
                    negative |-> negative, zero |-> zero, overflow |-> overflow,
                    carry |-> carry, extend_valid |-> extends, extend |-> carry]
  BY <1>2, <1>3, <1>5, Zenon DEF CalculatedResponse, Agrees
<1>8. value \in Word(XLEN)
  <2>1. 2^w \in Nat /\ 2^XLEN \in Nat /\ 2^w <= 2^XLEN
    BY <1>1, SizePowers
  <2> QED
    BY <1>2, <2>1, WordIsMonotone DEF Agrees
<1>9. rsp \in IntegerResponse
  <2>1. Result(~compares, "LOW", value) \in ResultRecord
    BY <1>6, <1>8 DEF Result, ResultRecord, Role
  <2> QED
    BY <1>1, <1>4, <1>6, <1>7, <2>1 DEF IntegerResponse
<1>10. FlagsOf(value, w, overflow, carry) =
          [negative |-> negative, zero |-> zero, overflow |-> overflow, carry |-> carry]
  <2>1. Truncate(value, w) = value
    BY <1>1, <1>2, SizePowers, TruncateOfWord DEF Agrees
  <2> QED
    BY <1>3, <2>1, Zenon DEF FlagsOf
<1>11. Architectural(r) =
          [tag |-> r.tag, value |-> IF compares THEN None ELSE value,
           flags |-> IF updates THEN FlagsOf(value, w, overflow, carry) ELSE None,
           extend |-> IF extends THEN carry ELSE None]
  <2>1. Computed(r) = [value |-> value, flags |-> FlagsOf(value, w, overflow, carry)]
    BY <1>2, <1>3, Zenon DEF Agrees
  <2>2. /\ Computed(r).value = value /\ Computed(r).flags = FlagsOf(value, w, overflow, carry)
        /\ Computed(r).flags.carry = carry
    BY <1>10, <2>1
  <2>3. compares <=> op \in {"CMP", "TST"}
    BY <1>5 DEF AlwaysWritesFlags
  <2>4. updates <=> op \in {"CMP", "TST"} \/ r.update_flags
    BY <1>5 DEF AlwaysWritesFlags
  <2>5. extends <=> op \in {"ADCX", "SBCX", "NEGX"}
    BY <1>5
  <2>6. Architectural(r) =
          [tag |-> r.tag, value |-> IF op \in {"CMP", "TST"} THEN None ELSE Computed(r).value,
           flags |-> IF op \in {"CMP", "TST"} \/ r.update_flags
                     THEN Computed(r).flags ELSE None,
           extend |-> IF op \in {"ADCX", "SBCX", "NEGX"}
                      THEN Computed(r).flags.carry ELSE None]
    BY DEF Architectural, Model!Integer, Computed
  <2> QED
    BY <1>6, <2>2, <2>3, <2>4, <2>5, <2>6
<1>12. Visible(rsp) = Architectural(r)
  <2>1. /\ rsp.tag = r.tag /\ rsp.result_valid = ~compares /\ rsp.flags_valid = updates
        /\ rsp.extend_valid = extends /\ rsp.extend = carry
        /\ rsp.result = Result(~compares, "LOW", value)
        /\ rsp.negative = negative /\ rsp.zero = zero /\ rsp.overflow = overflow
        /\ rsp.carry = carry
    BY <1>7
  <2>2. rsp.result.value = value
    BY <2>1 DEF Result
  <2>3. VisibleFlags(rsp) = IF updates THEN FlagsOf(value, w, overflow, carry) ELSE None
    BY <1>10, <2>1 DEF VisibleFlags
  <2> QED
    BY <1>6, <1>11, <2>1, <2>2, <2>3 DEF Visible
<1>13. rsp.tag = r.tag
  BY <1>7
<1> QED
  BY <1>7, <1>9, <1>12, <1>13

-----------------------------------------------------------------------------
(* The invariant.                                                          *)

\* A response that appeared at the last edge is of the request that edge accepted.
ResponseIsOfRequest ==
    (response_valid /\ edge.request # None) =>
        /\ edge.request \in Request
        /\ Legal(edge.request.operation)
        /\ response_register = CalculatedResponse(edge.request)

PipeInvariant == TypeOK /\ ResponseIsOfRequest

\* What a clock edge samples is a record of it.
LEMMA EdgeIsTyped ==
    ASSUME NEW req \in Request \cup {None}, NEW sq \in Tag \cup {None}, NEW rdy \in BOOLEAN
    PROVE  ClockEdge(req, sq, rdy) \in EdgeRecord(Request)
  BY DEF ClockEdge, EdgeRecord

\* The request an edge accepts, if any.
LEMMA AcceptedRequest ==
    ASSUME NEW req \in Request \cup {None}, NEW sq \in Tag \cup {None}, NEW rdy \in BOOLEAN,
           Observe(req, sq, rdy)
    PROVE  \E taken \in Request \cup {None} :
              /\ edge' = ClockEdge(taken, sq, rdy)
              /\ edge' \in EdgeRecord(Request) /\ edge'.request = taken
              /\ integrity_error' \in BOOLEAN
              /\ taken # None => /\ taken = req /\ taken \in Request /\ Legal(taken.operation)
                                 /\ response_slot_available(rdy)
              /\ taken = None <=> ~(LegalRequest(req) /\ response_slot_available(rdy))
<1>1. None \notin Request
  BY RequestAssumption
<1>2. LegalRequest(req) => req \in Request /\ req # None /\ Legal(req.operation)
  BY DEF LegalRequest
<1>3. PICK taken \in Request \cup {None} :
          taken = IF LegalRequest(req) /\ response_slot_available(rdy) THEN req ELSE None
  OBVIOUS
<1>4. edge' = ClockEdge(taken, sq, rdy)
  BY <1>3, Zenon DEF Observe
<1>5. edge' \in EdgeRecord(Request) /\ edge'.request = taken
  BY <1>4, EdgeIsTyped DEF ClockEdge
<1>6. integrity_error' \in BOOLEAN
  BY DEF Observe
<1> QED
  BY <1>1, <1>2, <1>3, <1>4, <1>5, <1>6

\* Every step keeps it.
LEMMA NextKeepsInvariant == PipeInvariant /\ [Next]_vars => PipeInvariant'
<1> SUFFICES ASSUME PipeInvariant, [Next]_vars PROVE PipeInvariant'
  OBVIOUS
<1> USE DEF PipeInvariant, TypeOK, ResponseIsOfRequest, response_valid
<1>1. CASE Reset
  BY <1>1 DEF Reset, ResetEdge, EdgeRecord
<1>2. CASE UNCHANGED vars
  BY <1>2 DEF vars
<1>3. ASSUME NEW req \in Request \cup {None}, NEW sq \in Tag \cup {None}, NEW rdy \in BOOLEAN,
             Clock(req, sq, rdy)
      PROVE  PipeInvariant'
  <2>1. Observe(req, sq, rdy)
    BY <1>3 DEF Clock, Load, Drain, Hold
  <2>2. PICK taken \in Request \cup {None} :
            /\ edge' \in EdgeRecord(Request) /\ edge'.request = taken
            /\ integrity_error' \in BOOLEAN
            /\ taken # None => /\ taken = req /\ taken \in Request /\ Legal(taken.operation)
                               /\ response_slot_available(rdy)
            /\ taken = None <=> ~(LegalRequest(req) /\ response_slot_available(rdy))
    BY <2>1, AcceptedRequest
  <2>3. CASE Load(req, sq, rdy)
    <3>1. /\ LegalRequest(req) /\ response_slot_available(rdy)
          /\ response_register_valid' = TRUE /\ response_register' = CalculatedResponse(req)
      BY <2>3 DEF Load, Accepts
    <3>2. taken = req /\ taken # None
      BY <2>2, <3>1
    <3>3. CalculatedResponse(req) \in IntegerResponse
      BY <2>2, <3>2, ResponseIs
    <3> QED
      BY <2>2, <3>1, <3>2, <3>3
  <2>4. CASE Drain(req, sq, rdy)
    BY <2>2, <2>4 DEF Drain
  <2>5. CASE Hold(req, sq, rdy)
    BY <2>2, <2>5 DEF Hold
  <2> QED
    BY <1>3, <2>3, <2>4, <2>5 DEF Clock
<1> QED
  BY <1>1, <1>2, <1>3 DEF Next

\* The pipe's responses are those of the requests it accepted, for every width, request and
\* interleaving of squashes, stalls and resets.
THEOREM PipeInvariantHolds == Spec => []PipeInvariant
<1>1. Init => PipeInvariant
  <2> SUFFICES ASSUME Init PROVE PipeInvariant
    OBVIOUS
  <2>1. ResetEdge \in EdgeRecord(Request)
    BY DEF ResetEdge, EdgeRecord
  <2>2. /\ response_register_valid = FALSE /\ response_register = None
        /\ edge \in EdgeRecord(Request) /\ integrity_error = FALSE
    BY <2>1 DEF Init
  <2> QED
    BY <2>2 DEF PipeInvariant, TypeOK, ResponseIsOfRequest, response_valid
<1> QED
  BY <1>1, NextKeepsInvariant, PTL DEF Spec

\* No result of any operation, size or operand exceeds the response register.
THEOREM PipeIsTyped == Spec => []TypeOK
<1>1. PipeInvariant => TypeOK
  BY DEF PipeInvariant
<1> QED
  BY <1>1, PipeInvariantHolds, PTL

-----------------------------------------------------------------------------
(* Comparisons.                                                            *)

\* The flags of a comparison, in terms of the integers compared.
ComparisonIs(f, left, right, leftSigned, rightSigned) ==
    /\ f.carry \in BOOLEAN /\ f.zero \in BOOLEAN
    /\ f.negative \in BOOLEAN /\ f.overflow \in BOOLEAN
    /\ f.carry <=> left < right
    /\ f.zero <=> left = right
    /\ f.zero <=> leftSigned = rightSigned
    /\ ~(f.negative <=> f.overflow) <=> leftSigned < rightSigned

\* The flags a comparison publishes are those.
LEMMA ComparisonFlags ==
    ASSUME NEW r \in Request, r.operation = "CMP"
    PROVE  LET w == Width[r.operand_size]
           IN  ComparisonIs(VisibleFlags(CalculatedResponse(r)),
                            Truncate(r.source_left, w), Truncate(r.source_right, w),
                            AsSigned(r.source_left, w), AsSigned(r.source_right, w))
<1> DEFINE w == Width[r.operand_size]
<1>1. PICK half \in Nat \ {0} :
          \E left, right \in 0 .. 2 * half - 1 : OperandsAre(r, half, left, right)
  BY RequestOperands
<1>2. PICK left, right \in 0 .. 2 * half - 1 : OperandsAre(r, half, left, right)
  BY <1>1
<1>3. PICK x \in {0, 1} : x = 0
  OBVIOUS
<1>4. PICK value \in 0 .. 2 * half - 1 : SubtractionIs(half, left, right, x, value)
  BY Subtraction
<1>5. PICK sum \in Int, signed \in Int :
          /\ sum = left + (2 * half - 1 - right) + 1
          /\ signed = Signed(left, half) - Signed(right, half)
  <2>1. Signed(left, half) \in Int /\ Signed(right, half) \in Int
    BY DEF Signed
  <2>2. left + (2 * half - 1 - right) + 1 \in Int
    OBVIOUS
  <2> QED
    BY <2>1, <2>2
<1>6. /\ sum \in 0 .. 4 * half - 1 /\ sum = left - right + 2 * half
      /\ value = left - right + (IF left - right < 0 THEN 2 * half ELSE 0)
      /\ (signed \in -half .. half - 1) <=>
              ~(~(left >= half <=> right >= half) /\ ~(value >= half <=> left >= half))
      /\ (Signed(left, half) < Signed(right, half)) <=>
              ~(value >= half <=> ~(signed \in -half .. half - 1))
      /\ Signed(left, half) = Signed(right, half) <=> left = right
      /\ value = 0 <=> left = right
  BY <1>3, <1>4, <1>5 DEF SubtractionIs, Signed
<1>7. 2^w = 2 * half /\ 2^w \in Nat \ {0} /\ 2^(w - 1) = half
  BY <1>2 DEF OperandsAre
<1>8. Truncate(sum, w) = value /\ (Bit(sum, w) = 1 <=> sum >= 2^w)
  <2>1. sum \in 0 .. 2 * 2^w - 1
    BY <1>6, <1>7
  <2>2. AdderOutputs(sum, w)
    BY <1>7, <2>1, AdderOutputsAre
  <2> QED
    BY <1>6, <1>7, <2>2 DEF AdderOutputs
<1>9. SignSet(value, w) <=> value >= half
  BY <1>7, ValueInWidth
<1>10. UsesAdder(r.operation) /\ Subtracts(r.operation)
  BY DEF UsesAdder, Subtracts
<1>11. AdderSum(r, w) = sum
  BY <1>2, <1>5, <1>7, <1>10 DEF AdderSum, OperandsAre
<1>12. ArithmeticResult(r, w) = value
  BY <1>8, <1>10, <1>11 DEF ArithmeticResult
<1>13. CarryOrBorrow(r, w) <=> left < right
  <2>1. CarryOrBorrow(r, w) <=> ~(sum >= 2^w)
    BY <1>8, <1>10, <1>11, CarryIs
  <2> QED
    BY <1>6, <1>7, <2>1
<1>14. ArithmeticOverflow(r, w) <=> ~(signed \in -half .. half - 1)
  <2>1. /\ SignSet(r.source_left, w) <=> left >= half
        /\ SignSet(r.source_right, w) <=> right >= half
        /\ SignSet(ArithmeticResult(r, w), w) <=> value >= half
    BY <1>2, <1>9, <1>12, Zenon DEF OperandsAre
  <2>2. ArithmeticOverflow(r, w) <=>
            (~(left >= half <=> right >= half) /\ ~(value >= half <=> left >= half))
    BY <2>1, OverflowIs
  <2> QED
    BY <1>6, <2>2
<1>15. PICK f : /\ f = VisibleFlags(CalculatedResponse(r))
                /\ f = [negative |-> SignSet(value, w), zero |-> (value = 0),
                        overflow |-> ArithmeticOverflow(r, w), carry |-> CarryOrBorrow(r, w)]
  <2>1. PICK negative, zero, overflow, carry :
            /\ negative = SignSet(value, w) /\ zero = (value = 0)
            /\ overflow = ArithmeticOverflow(r, w) /\ carry = CarryOrBorrow(r, w)
    OBVIOUS
  <2>2. PICK result_valid, result, flags_valid, extend_valid :
            /\ result_valid = ~AlwaysWritesFlags(r.operation)
            /\ result = Result(result_valid, "LOW", value)
            /\ flags_valid = (r.update_flags \/ AlwaysWritesFlags(r.operation))
            /\ extend_valid = (r.operation \in {"ADCX", "SBCX", "NEGX"})
    OBVIOUS
  <2>3. flags_valid
    BY <2>2, Zenon DEF AlwaysWritesFlags
  <2>4. PICK rsp : /\ rsp = CalculatedResponse(r)
                   /\ rsp.flags_valid = flags_valid
                   /\ rsp.negative = negative /\ rsp.zero = zero
                   /\ rsp.overflow = overflow /\ rsp.carry = carry
    <3>1. PICK rsp : /\ rsp = CalculatedResponse(r)
                     /\ rsp = [tag |-> r.tag, result_valid |-> result_valid,
                               result |-> result, flags_valid |-> flags_valid,
                               negative |-> negative, zero |-> zero, overflow |-> overflow,
                               carry |-> carry, extend_valid |-> extend_valid,
                               extend |-> carry]
      BY <1>12, <2>1, <2>2, Zenon DEF CalculatedResponse
    <3> QED
      BY <3>1
  <2>5. VisibleFlags(rsp) = [negative |-> negative, zero |-> zero, overflow |-> overflow,
                             carry |-> carry]
    BY <2>3, <2>4 DEF VisibleFlags
  <2> QED
    BY <2>1, <2>4, <2>5, Zenon
<1>16. /\ f.negative = SignSet(value, w) /\ f.zero = (value = 0)
       /\ f.overflow = ArithmeticOverflow(r, w) /\ f.carry = CarryOrBorrow(r, w)
  BY <1>15
<1>17. /\ f.negative <=> value >= half
       /\ f.zero <=> left = right
       /\ f.overflow <=> ~(signed \in -half .. half - 1)
       /\ f.carry <=> left < right
  <2>1. f.negative <=> value >= half
    BY <1>9, <1>16, Zenon
  <2>2. f.zero <=> left = right
    BY <1>6, <1>16, Zenon
  <2>3. f.overflow <=> ~(signed \in -half .. half - 1)
    BY <1>14, <1>16, Zenon
  <2>4. f.carry <=> left < right
    BY <1>13, <1>16, Zenon
  <2> QED
    BY <2>1, <2>2, <2>3, <2>4, Zenon
<1>18. ComparisonIs(f, left, right, Signed(left, half), Signed(right, half))
  <2>1. (value = 0) \in BOOLEAN
    OBVIOUS
  <2>2. /\ f.carry \in BOOLEAN /\ f.zero \in BOOLEAN
        /\ f.negative \in BOOLEAN /\ f.overflow \in BOOLEAN
    BY <1>16, <2>1, FlagsAreBoolean, Zenon
  <2> QED
    BY <1>6, <1>17, <2>2 DEF ComparisonIs
<1>19. /\ Truncate(r.source_left, w) = left /\ Truncate(r.source_right, w) = right
       /\ AsSigned(r.source_left, w) = Signed(left, half)
       /\ AsSigned(r.source_right, w) = Signed(right, half)
  BY <1>2 DEF OperandsAre
<1> QED
  BY <1>15, <1>18, <1>19, Zenon

\* What the flags of a comparison say of each condition.
LEMMA ConditionsHold ==
    ASSUME NEW f, NEW left \in Int, NEW right \in Int, NEW leftSigned \in Int,
           NEW rightSigned \in Int, ComparisonIs(f, left, right, leftSigned, rightSigned)
    PROVE  /\ Model!Holds("HIGH", f) <=> left > right
           /\ Model!Holds("LOW_OR_SAME", f) <=> left <= right
           /\ Model!Holds("CARRY_SET", f) <=> left < right
           /\ Model!Holds("EQUAL", f) <=> leftSigned = rightSigned
           /\ Model!Holds("LESS_THAN", f) <=> leftSigned < rightSigned
           /\ Model!Holds("GREATER_OR_EQUAL", f) <=> leftSigned >= rightSigned
           /\ Model!Holds("GREATER_THAN", f) <=> leftSigned > rightSigned
           /\ Model!Holds("LESS_OR_EQUAL", f) <=> leftSigned <= rightSigned
<1>1. PICK carry \in BOOLEAN, zero \in BOOLEAN, negative \in BOOLEAN, overflow \in BOOLEAN :
          carry = f.carry /\ zero = f.zero /\ negative = f.negative /\ overflow = f.overflow
  BY DEF ComparisonIs
<1>2. /\ carry <=> left < right
      /\ zero <=> left = right
      /\ zero <=> leftSigned = rightSigned
      /\ ~(negative <=> overflow) <=> leftSigned < rightSigned
  BY <1>1, Zenon DEF ComparisonIs
<1>3. /\ Model!Holds("HIGH", f) <=> ~carry /\ ~zero
      /\ Model!Holds("LOW_OR_SAME", f) <=> carry \/ zero
      /\ Model!Holds("CARRY_SET", f) <=> carry
      /\ Model!Holds("EQUAL", f) <=> zero
      /\ Model!Holds("LESS_THAN", f) <=> negative # overflow
      /\ Model!Holds("GREATER_OR_EQUAL", f) <=> negative = overflow
      /\ Model!Holds("GREATER_THAN", f) <=> ~zero /\ negative = overflow
      /\ Model!Holds("LESS_OR_EQUAL", f) <=> zero \/ negative # overflow
  BY <1>1 DEF Model!Holds
<1> QED
  BY <1>1, <1>2, <1>3

\* The flags a comparison publishes decide every ordering condition, signed and unsigned,
\* the way the integers its operands stand for are ordered, whatever their width.
THEOREM ComparisonsOrderOperands == Spec => []ConditionsOrderComparedOperands
<1>1. PipeInvariant => ConditionsOrderComparedOperands
  <2> SUFFICES ASSUME PipeInvariant, response_valid, edge.request # None,
                      edge.request.operation = "CMP"
               PROVE  ConditionsOrderComparedOperands
    BY DEF ConditionsOrderComparedOperands
  <2>1. PICK r \in Request :
            r = edge.request /\ r.operation = "CMP" /\ response_register = CalculatedResponse(r)
    BY DEF PipeInvariant, ResponseIsOfRequest
  <2> DEFINE w == Width[r.operand_size]
             left(signed) == AsOperand(r.source_left, w, signed)
             right(signed) == AsOperand(r.source_right, w, signed)
  <2>2. PICK f, ul, ur, sl, sr :
            /\ f = VisibleFlags(CalculatedResponse(r))
            /\ ul = Truncate(r.source_left, w) /\ sl = AsSigned(r.source_left, w)
            /\ ur = Truncate(r.source_right, w) /\ sr = AsSigned(r.source_right, w)
    OBVIOUS
  <2>3. left(FALSE) = ul /\ left(TRUE) = sl /\ right(FALSE) = ur /\ right(TRUE) = sr
    BY <2>2 DEF AsOperand
  <2>4. ComparisonIs(f, ul, ur, sl, sr)
    BY <2>1, <2>2, ComparisonFlags
  <2>5. ul \in Int /\ ur \in Int /\ sl \in Int /\ sr \in Int
    <3>1. PICK half \in Nat \ {0} :
              \E a, b \in 0 .. 2 * half - 1 : OperandsAre(r, half, a, b)
      BY RequestOperands
    <3>2. PICK a, b \in 0 .. 2 * half - 1 : OperandsAre(r, half, a, b)
      BY <3>1
    <3>3. ul = a /\ ur = b /\ sl = Signed(a, half) /\ sr = Signed(b, half)
      BY <2>2, <3>2 DEF OperandsAre
    <3>4. a \in Int /\ b \in Int /\ Signed(a, half) \in Int /\ Signed(b, half) \in Int
      BY <3>2 DEF Signed
    <3> QED
      BY <3>3, <3>4
  <2>6. /\ Model!Holds("HIGH", f) <=> ul > ur
        /\ Model!Holds("LOW_OR_SAME", f) <=> ul <= ur
        /\ Model!Holds("CARRY_SET", f) <=> ul < ur
        /\ Model!Holds("EQUAL", f) <=> sl = sr
        /\ Model!Holds("LESS_THAN", f) <=> sl < sr
        /\ Model!Holds("GREATER_OR_EQUAL", f) <=> sl >= sr
        /\ Model!Holds("GREATER_THAN", f) <=> sl > sr
        /\ Model!Holds("LESS_OR_EQUAL", f) <=> sl <= sr
    BY <2>4, <2>5, ConditionsHold
  <2> QED
    BY <2>1, <2>2, <2>3, <2>6, Zenon DEF ConditionsOrderComparedOperands
<1> QED
  BY <1>1, PipeInvariantHolds, PTL

-----------------------------------------------------------------------------
(* The pipe implements the tagged execution unit.                          *)

Published == IF response_valid THEN Visible(response_register) ELSE None

\* A step that samples an edge and publishes what it accepted, or leaves nothing, is a
\* step of the unit.
LEMMA ClockImplements ==
    ASSUME NEW taken \in Request \cup {None}, NEW sq \in Tag \cup {None}, NEW rdy \in BOOLEAN,
           edge' = ClockEdge(taken, sq, rdy),
           \/ /\ taken = None \/ taken.tag = sq
              /\ Published' = IF rdy THEN None ELSE Published
           \/ /\ taken # None /\ taken.tag # sq
              /\ Published = None \/ rdy
              /\ Published' = Architectural(taken)
    PROVE  Unit!Clock
<1> DEFINE queue == IF taken = None \/ taken.tag = sq THEN <<>> ELSE <<taken>>
<1>1. /\ edge' \in Unit!Sample /\ ~edge'.reset
      /\ edge'.request = taken /\ edge'.squash = sq /\ edge'.response_ready = rdy
  BY EdgeIsTyped DEF Unit!Sample, EdgeRecord, ClockEdge
<1>2. Unit!Surviving(<<>> \o Unit!Offered(edge'), edge'.squash) = queue
  <2>1. Unit!Offered(edge') = IF taken = None THEN <<>> ELSE <<taken>>
    BY <1>1 DEF Unit!Offered
  <2>2. \A held, squash : Unit!Surviving(held, squash) = Surviving(held, squash)
    BY DEF Unit!Surviving, Surviving
  <2>3. <<>> \o <<>> = <<>> /\ <<>> \o <<taken>> = <<taken>>
    BY ShortListsConcatenate
  <2>4. /\ Surviving(<<>>, sq) = <<>>
        /\ Surviving(<<taken>>, sq) = IF taken.tag = sq THEN <<>> ELSE <<taken>>
    BY EmptySurvives, OneSurvives
  <2> QED
    BY <1>1, <2>1, <2>2, <2>3, <2>4
<1>3. Unit!Keep(queue) \/ Unit!Publish(queue)
  <2>1. CASE taken = None \/ taken.tag = sq
    BY <1>1, <2>1 DEF Unit!Keep, Published
  <2>2. CASE taken # None /\ taken.tag # sq
    <3>1. queue = <<taken>> /\ Head(<<taken>>) = taken /\ Tail(<<taken>>) = <<>>
          /\ <<taken>> # <<>>
      BY <2>2
    <3> QED
      BY <1>1, <2>2, <3>1 DEF Unit!Publish, Published
  <2> QED
    BY <2>1, <2>2
<1>4. Len(<<>>) <= 0
  OBVIOUS
<1> QED
  BY <1>1, <1>2, <1>3, <1>4 DEF Unit!Clock

\* Every step of the pipe is a step of the unit.
LEMMA StepImplements == [Next]_vars => [Unit!Next]_Unit!vars
<1> SUFFICES ASSUME [Next]_vars PROVE [Unit!Next]_Unit!vars
  OBVIOUS
<1>1. CASE Reset
  BY <1>1 DEF Reset, Unit!Next, Unit!Reset, response_valid, ResetEdge, Unit!ResetEdge
<1>2. CASE UNCHANGED vars
  BY <1>2 DEF vars, Unit!vars, response_valid, Visible, VisibleFlags
<1>3. ASSUME NEW req \in Request \cup {None}, NEW sq \in Tag \cup {None}, NEW rdy \in BOOLEAN,
             Clock(req, sq, rdy)
      PROVE  Unit!Clock
  <2>1. Observe(req, sq, rdy)
    BY <1>3 DEF Clock, Load, Drain, Hold
  <2>2. PICK taken \in Request \cup {None} :
            /\ edge' = ClockEdge(taken, sq, rdy)
            /\ taken # None => /\ taken = req /\ taken \in Request /\ Legal(taken.operation)
                               /\ response_slot_available(rdy)
            /\ taken = None <=> ~(LegalRequest(req) /\ response_slot_available(rdy))
    BY <2>1, AcceptedRequest
  <2>3. CASE Load(req, sq, rdy)
    <3>1. /\ LegalRequest(req) /\ req.tag # sq /\ response_slot_available(rdy)
          /\ response_valid' /\ response_register' = CalculatedResponse(req)
      BY <2>3 DEF Load, Accepts, response_valid
    <3>2. taken = req /\ taken # None /\ Legal(req.operation) /\ req \in Request
      BY <2>2, <3>1
    <3>3. Visible(CalculatedResponse(req)) = Architectural(req)
      BY <3>2, ResponseIs
    <3>4. Published' = Architectural(taken)
      <4>1. Published' = Visible(CalculatedResponse(req))
        BY <3>1 DEF Published, Visible, VisibleFlags
      <4> QED
        BY <3>2, <3>3, <4>1
    <3>5. Published = None \/ rdy
      BY <3>1 DEF Published, response_slot_available, response_valid
    <3> QED
      BY <2>2, <3>1, <3>2, <3>4, <3>5, ClockImplements
  <2>4. CASE Drain(req, sq, rdy)
    <3>1. taken = None \/ taken.tag = sq
      BY <2>2, <2>4 DEF Drain, Accepts
    <3>2. Published' = IF rdy THEN None ELSE Published
      BY <2>4 DEF Drain, Published, response_valid, response_slot_available
    <3> QED
      BY <2>2, <3>1, <3>2, ClockImplements
  <2>5. CASE Hold(req, sq, rdy)
    <3>1. taken = None
      BY <2>2, <2>5 DEF Hold
    <3>2. Published' = IF rdy THEN None ELSE Published
      BY <2>5 DEF Hold, Published, response_valid, response_slot_available, Visible,
                  VisibleFlags
    <3> QED
      BY <2>2, <3>1, <3>2, ClockImplements
  <2> QED
    BY <1>3, <2>3, <2>4, <2>5 DEF Clock
<1> QED
  BY <1>1, <1>2, <1>3 DEF Next, Unit!Next

\* The pipe is a tagged execution unit that holds nothing unpublished, with the executable
\* model as its outcome: carry, borrow, overflow and extend of every operation are integer
\* arithmetic's, for every width and operand, and no response is dropped or overwritten.
THEOREM PipeImplementsUnit == Spec => ImplementsUnit
<1>1. Init => Unit!Init
  BY DEF Init, Unit!Init, response_valid, ResetEdge, Unit!ResetEdge
<1> QED
  BY <1>1, StepImplements, PTL DEF Spec, ImplementsUnit, Unit!Spec
=============================================================================
