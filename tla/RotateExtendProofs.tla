------------------------- MODULE RotateExtendProofs -------------------------
(***************************************************************************)
(* Theorems about RotateExtendIterative, for every register width, set of  *)
(* operand sizes and set of requests its assumptions allow: the stages     *)
(* compose to the rotation of the executable model, and a rotation to the  *)
(* right is one to the left of the reversed ring.                          *)
(***************************************************************************)
EXTENDS RotateExtendIterative, ExecuteBackendProofs

-----------------------------------------------------------------------------
(* The powers of two the ring is measured by.                              *)

\* The powers of two up to those of a ring and its count are powers.
LEMMA RingPowersAdd ==
    \A m, n \in Nat : m + n <= XLEN + Stages + 1 =>
        2^m \in Nat \ {0} /\ 2^(m + n) = 2^m * 2^n
<1>1. XLEN + Stages \in Nat
  BY WidthAssumption
<1>2. PICK last \in Nat : last = XLEN + Stages
  BY <1>1
<1>3. \A n \in 0 .. last : 2^(n + 1) = 2 * 2^n
  BY <1>2, PowerAssumption
<1>4. last + 1 \in Nat /\ \A n \in 0 .. (last + 1) - 1 : n \in 0 .. last
  BY <1>2
<1>5. \A m, n \in Nat : m + n <= last + 1 => 2^m \in Nat \ {0} /\ 2^(m + n) = 2^m * 2^n
  BY <1>3, <1>4, PowersAdd
<1> QED
  BY <1>2, <1>5

-----------------------------------------------------------------------------
(* The ring and the count of a request.                                    *)

\* A ring is one bit longer than an operand, which fits the register.
LEMMA RingLength ==
    ASSUME NEW s \in OperandSize
    PROVE  /\ Width[s] \in 1 .. XLEN /\ Width[s] \in Length
           /\ Width[s] + 1 \in Length /\ XLEN \in Nat /\ XLEN \in Length /\ XLEN + 1 \in Length
           /\ 2^Width[s] \in Nat \ {0} /\ 2^(Width[s] + 1) = 2 * 2^Width[s]
           /\ Word(Width[s]) \subseteq Word(XLEN)
           /\ Word(Width[s] + 1) \subseteq Word(XLEN + 1)
<1>1. Width[s] \in 1 .. XLEN /\ XLEN \in Nat
  BY WidthAssumption
<1>2. PICK w \in Nat, n \in Nat, rest \in Nat :
          /\ w = Width[s] /\ n = w + 1 /\ XLEN = w + rest /\ XLEN + 1 = n + rest
          /\ XLEN \in Length /\ XLEN + 1 \in Length /\ n \in Length /\ w \in Length
  <2>1. XLEN - Width[s] \in Nat /\ XLEN = Width[s] + (XLEN - Width[s])
        /\ XLEN + 1 = (Width[s] + 1) + (XLEN - Width[s]) /\ Width[s] \in Nat
        /\ Width[s] + 1 \in Nat
    BY <1>1
  <2> QED
    BY <1>1, <2>1 DEF Length
<1>3. ASSUME NEW a \in Nat \ {0}, NEW b \in Nat \ {0} PROVE a <= a * b
  OBVIOUS
<1>4. 2^w \in Nat \ {0} /\ 2^rest \in Nat \ {0} /\ 2^XLEN = 2^w * 2^rest
  BY <1>2, PartPowers
<1>5. 2^n \in Nat \ {0} /\ 2^(XLEN + 1) = 2^n * 2^rest
  BY <1>2, PartPowers
<1>6. Word(w) \subseteq Word(XLEN)
  <2>1. 2^w <= 2^XLEN /\ 2^XLEN \in Nat
    BY <1>3, <1>4, LengthPower, <1>2
  <2> QED
    BY <1>4, <2>1, WordIsMonotone
<1>7. Word(n) \subseteq Word(XLEN + 1)
  <2>1. 2^n <= 2^(XLEN + 1) /\ 2^(XLEN + 1) \in Nat
    BY <1>3, <1>4, <1>5, LengthPower, <1>2
  <2> QED
    BY <1>5, <2>1, WordIsMonotone
<1>8. 2^(w + 1) = 2 * 2^w
  <2>1. w \in 0 .. XLEN + Stages
    BY <1>1, <1>2, WidthAssumption
  <2> QED
    BY <2>1, PowerAssumption
<1> QED
  BY <1>1, <1>2, <1>4, <1>6, <1>7, <1>8

\* A count indexes a register.
LEMMA CountRange == Word(Stages) = 0 .. XLEN - 1
  BY WidthAssumption DEF Word

\* The conditional subtractions reduce every count to its remainder by the ring's length.
LEMMA CountIsReduced ==
    ASSUME NEW count \in Word(Stages), NEW s \in OperandSize
    PROVE  /\ ReducedCount(count, Width[s]) = count % (Width[s] + 1)
           /\ count % (Width[s] + 1) \in 0 .. Width[s]
           /\ count % (Width[s] + 1) \in Word(Stages)
<1>1. PICK n \in Nat \ {0} : n = Width[s] + 1 /\ 8 * n > XLEN
  BY WidthAssumption
<1>2. count \in 0 .. XLEN - 1 /\ XLEN \in Nat
  BY CountRange, WidthAssumption
<1>3. PICK one \in Int : one = Reduced(count, 4 * n) /\ one \in 0 .. 4 * n - 1
                         /\ (one = count \/ one = count - 4 * n)
  BY <1>1, <1>2 DEF Reduced
<1>4. PICK two \in Int : two = Reduced(one, 2 * n) /\ two \in 0 .. 2 * n - 1
                         /\ (two = one \/ two = one - 2 * n)
  BY <1>1, <1>3 DEF Reduced
<1>5. PICK three \in Int : three = Reduced(two, n) /\ three \in 0 .. n - 1
                           /\ (three = two \/ three = two - n)
  BY <1>1, <1>4 DEF Reduced
<1>6. PICK k \in 0 .. 7 : count = n * k + three
  <2>1. PICK a \in {0, 4}, b \in {0, 2}, c \in {0, 1} :
            count = n * a + one /\ one = n * b + two /\ two = n * c + three
    <3>1. \E a \in {0, 4} : count = n * a + one
      BY <1>1, <1>2, <1>3
    <3>2. \E b \in {0, 2} : one = n * b + two
      BY <1>1, <1>3, <1>4
    <3>3. \E c \in {0, 1} : two = n * c + three
      BY <1>1, <1>4, <1>5
    <3> QED
      BY <3>1, <3>2, <3>3
  <2>2. a + b + c \in 0 .. 7 /\ n * (a + b + c) = n * a + n * b + n * c
    <3>1. a \in 0 .. 4 /\ b \in 0 .. 2 /\ c \in 0 .. 1
      OBVIOUS
    <3>2. a + b + c \in 0 .. 7
      BY <3>1
    <3>3. n * (a + b + c) = n * a + n * b + n * c
      <4>1. \A x, y, z \in Int : n * (x + y + z) = n * x + n * y + n * z
        BY <1>1
      <4>2. a \in Int /\ b \in Int /\ c \in Int
        BY <3>1
      <4> QED
        BY <4>1, <4>2
    <3> QED
      BY <3>2, <3>3
  <2>3. count = n * (a + b + c) + three
    BY <1>1, <1>3, <1>4, <1>5, <2>1, <2>2
  <2> QED
    BY <2>2, <2>3
<1>7. count % n = three
  <2>1. (n * k + three) % n = three
    <3>1. n \in Nat \ {0} /\ k \in Int /\ three \in 0 .. n - 1
      BY <1>1, <1>5, <1>6
    <3> QED
      BY <3>1, DivisionIsUnique, Zenon
  <2> QED
    BY <1>6, <2>1
<1>8. ReducedCount(count, Width[s]) = three
  BY <1>1, <1>3, <1>4, <1>5 DEF ReducedCount
<1>9. three \in 0 .. Width[s] /\ Width[s] \in Int
  BY <1>1, <1>5, WidthAssumption
<1>10. three \in 0 .. XLEN - 1
  BY <1>1, <1>2, <1>5, <1>6
<1> QED
  BY <1>1, <1>7, <1>8, <1>9, <1>10, CountRange

\* A count's lower bits, one bit more at a time.
LEMMA NextLowBits ==
    ASSUME NEW count \in Nat, NEW stage \in 0 .. Stages - 1
    PROVE  /\ 2^stage \in Nat \ {0}
           /\ count % 2^stage \in Nat /\ Bit(count, stage) \in {0, 1}
           /\ count % 2^(stage + 1) = (count % 2^stage) + Bit(count, stage) * 2^stage
           /\ count % 2^(stage + 1) <= count
<1>1. stage \in Nat /\ stage \in 0 .. XLEN + Stages /\ stage + 0 <= XLEN + Stages + 1
  BY WidthAssumption
<1>2. 2^stage \in Nat \ {0} /\ 2^(stage + 1) = 2 * 2^stage
  BY <1>1, RingPowersAdd, PowerAssumption
<1> QED
  BY <1>1, <1>2, LowBitsGrow

\* The fields of a request the dispatcher may present have their types.
LEMMA RequestFields ==
    ASSUME NEW r \in Request
    PROVE  /\ r # None /\ r.tag \in Tag /\ r.operand_size \in OperandSize
           /\ r.direction \in Direction /\ r.update_flags \in BOOLEAN
           /\ r.count \in Word(Stages) /\ r.count \in Nat
           /\ r.source \in Int /\ r.extend_in \in {0, 1}
<1>1. r \in RotateRequest /\ r # None
  BY RequestAssumption
<1>2. Word(Stages) \subseteq Nat
  BY CountRange
<1>3. Word(XLEN) \subseteq Int
  <2>1. XLEN \in Length
    BY WidthAssumption DEF Length
  <2> QED
    BY <2>1, LengthPower DEF Word
<1> QED
  BY <1>1, <1>2, <1>3 DEF RotateRequest

\* The ring of a request, and its reversal, are as long as the operand and one bit.
LEMMA RingIsWord ==
    ASSUME NEW r \in Request, NEW n, n = Width[r.operand_size] + 1
    PROVE  /\ n \in Length /\ Ring(r) \in Word(n) /\ Ring(r) \in Int
           /\ Reversed(Ring(r), n) \in Word(n)
           /\ Oriented(Ring(r), r.direction, Width[r.operand_size]) \in Word(n)
<1>1. r.operand_size \in OperandSize /\ r.source \in Int /\ r.extend_in \in {0, 1}
  BY RequestFields
<1>2. PICK w \in Nat, one \in Nat : w = Width[r.operand_size] /\ one = 1 /\ n = one + w
  BY <1>1, RingLength
<1>3. n \in Length /\ 2^w \in Nat \ {0} /\ 2^n \in Nat \ {0}
  BY <1>1, <1>2, RingLength, LengthPower
<1>4. 2^one = 2
  BY <1>2
<1>5. Truncate(r.source, w) \in Word(w) /\ r.extend_in \in Word(one)
  BY <1>1, <1>3, <1>4, TruncateIsWord DEF Word
<1>6. Truncate(r.source, w) * 2^one + r.extend_in \in Word(n)
  BY <1>2, <1>3, <1>5, JoinIsWord
<1>7. Ring(r) \in Word(n)
  BY <1>2, <1>4, <1>6 DEF Ring
<1>8. Ring(r) \in Int
  BY <1>3, <1>7 DEF Word
<1>9. Reversed(Ring(r), n) \in Word(n)
  BY <1>3, <1>8, ReversedIsWord
<1> QED
  BY <1>1, <1>2, <1>3, <1>7, <1>8, <1>9 DEF Oriented

\* There is a smallest operand size.
LEMMA ZeroSizeIsSize == ZeroSize \in OperandSize
<1> DEFINE R == OpToRel(<, Nat)
           T == {Width[s] : s \in OperandSize}
<1>1. T \subseteq Nat /\ T # {}
  BY WidthAssumption
<1>2. PICK x \in T : \A y \in T : <<y, x>> \notin R
  <2>1. IsWellFoundedOn(R, Nat)
    BY NatLessThanWellFounded
  <2> HIDE DEF R, T
  <2> QED
    BY <1>1, <2>1, WFMin
<1>3. \A y \in T : x <= y
  <2> TAKE y \in T
  <2>1. x \in Nat /\ y \in Nat
    BY <1>1
  <2>2. ASSUME y < x PROVE FALSE
    <3>1. <<y, x>> \in R
      BY <2>1, <2>2 DEF OpToRel
    <3> QED
      BY <1>2, <3>1
  <2> QED
    BY <2>1, <2>2
<1>4. \E s \in OperandSize : \A z \in OperandSize : Width[s] <= Width[z]
  BY <1>3
<1> QED
  BY <1>4 DEF ZeroSize

-----------------------------------------------------------------------------
(* The response.                                                           *)

\* How far to the left the executable model rotates the ring of a request.
Turn(r) ==
    LET n == Width[r.operand_size] + 1
        k == r.count % n
    IN  IF r.direction = "LEFT" THEN k ELSE (n - k) % n

ArchitecturalRing(r) == RotatedLeft(Ring(r), Turn(r), Width[r.operand_size] + 1)

\* The ring that the stages leave, turned back, is the executable model's.
LEMMA StagesReachRing ==
    ASSUME NEW r \in Request, NEW n, n = Width[r.operand_size] + 1, NEW ring,
           ring = RotatedLeft(Oriented(Ring(r), r.direction, Width[r.operand_size]),
                              r.count % n, n)
    PROVE  /\ Oriented(ring, r.direction, Width[r.operand_size]) = ArchitecturalRing(r)
           /\ ArchitecturalRing(r) \in Word(n)
<1>1. /\ r.operand_size \in OperandSize /\ r.direction \in {"LEFT", "RIGHT"}
      /\ r.count \in Word(Stages)
  BY RequestFields DEF Direction
<1>2. /\ n \in Length /\ n \in Nat \ {0} /\ Ring(r) \in Word(n)
      /\ Reversed(Ring(r), n) \in Word(n)
  BY <1>1, RingIsWord, RingLength
<1>3. PICK k \in 0 .. n - 1 : k = r.count % n
  BY <1>1, <1>2, CountIsReduced, RingLength
<1>4. CASE r.direction = "LEFT"
  <2>1. Oriented(ring, r.direction, Width[r.operand_size]) = RotatedLeft(Ring(r), k, n)
        /\ ArchitecturalRing(r) = RotatedLeft(Ring(r), k, n)
    BY <1>3, <1>4 DEF Oriented, ArchitecturalRing, Turn
  <2> QED
    BY <1>2, <1>3, <2>1, RotationIsWord
<1>5. CASE r.direction = "RIGHT"
  <2>1. Oriented(ring, r.direction, Width[r.operand_size]) =
            Reversed(RotatedLeft(Reversed(Ring(r), n), k, n), n)
    BY <1>3, <1>5 DEF Oriented
  <2>2. Reversed(RotatedLeft(Reversed(Ring(r), n), k, n), n) = RotatedLeft(Ring(r), n - k, n)
    BY <1>2, <1>3, ReversedRotation
  <2>3. ArchitecturalRing(r) = RotatedLeft(Ring(r), (n - k) % n, n)
    BY <1>3, <1>5 DEF ArchitecturalRing, Turn
  <2>4. RotatedLeft(Ring(r), (n - k) % n, n) = RotatedLeft(Ring(r), n - k, n)
    <3>1. CASE k = 0
      <4>1. n - k = n /\ (n - k) % n = 0
        BY <1>2, <3>1
      <4> QED
        BY <1>2, <4>1, WholeTurn
    <3>2. CASE k # 0
      <4>1. (n - k) % n = n - k
        BY <1>2, <1>3, <3>2
      <4> QED
        BY <4>1
    <3> QED
      BY <3>1, <3>2
  <2>5. n - k \in 0 .. n
    BY <1>2, <1>3
  <2> QED
    BY <1>2, <2>1, <2>2, <2>3, <2>4, <2>5, RotationIsWord
<1> QED
  BY <1>1, <1>4, <1>5

\* The executable model's rotation of a request.
LEMMA ModelRotates ==
    ASSUME NEW r \in Request, NEW op, op = (IF r.direction = "LEFT" THEN "ROXL" ELSE "ROXR")
    PROVE  Model!RotatedRing(op, r.source, r.count % XLEN, Width[r.operand_size],
                             r.extend_in) = ArchitecturalRing(r)
<1>1. r.count % XLEN = r.count
  <2>1. r.count \in 0 .. XLEN - 1 /\ XLEN \in Nat
    BY RequestFields, CountRange, WidthAssumption
  <2> QED
    BY <2>1
<1>2. PICK w \in Nat, n \in Nat, k \in Nat :
          w = Width[r.operand_size] /\ n = w + 1 /\ k = r.count % n
  BY RequestFields, RingLength, CountIsReduced
<1>3. \A v, i, x : Model!RotatedLeft(v, i, x) = RotatedLeft(v, i, x)
  BY DEF Model!RotatedLeft, Model!Truncate, RotatedLeft, Truncate
<1>4. Model!Truncate(r.source, w) = Truncate(r.source, w)
  BY DEF Model!Truncate, Truncate
<1>5. PICK ring : ring = Model!Truncate(r.source, w) * 2 + r.extend_in
  OBVIOUS
<1>6. Ring(r) = ring
  BY <1>2, <1>4, <1>5 DEF Ring
<1>7. w + 1 - k = n - k
  BY <1>2
<1>8. Model!RotatedRing(op, r.source, r.count, w, r.extend_in) =
        Model!RotatedLeft(ring, IF op = "ROXL" THEN k ELSE (n - k) % n, n)
  BY <1>2, <1>5, <1>7 DEF Model!RotatedRing
<1>9. ArchitecturalRing(r) =
        RotatedLeft(ring, IF op = "ROXL" THEN k ELSE (n - k) % n, n)
  <2>1. Turn(r) = IF r.direction = "LEFT" THEN k ELSE (n - k) % n
    <3>1. /\ Width[r.operand_size] + 1 = n /\ r.count % (Width[r.operand_size] + 1) = k
      BY <1>2
    <3> QED
      BY <3>1 DEF Turn
  <2>2. Turn(r) = IF op = "ROXL" THEN k ELSE (n - k) % n
    BY <2>1
  <2> QED
    BY <1>2, <1>6, <2>2 DEF ArchitecturalRing
<1> QED
  BY <1>1, <1>2, <1>3, <1>8, <1>9, Zenon

\* The bit of the ring above the operand is the sign of the operand.
LEMMA RingSign ==
    ASSUME NEW r \in Request, NEW v \in Int, NEW w, w = Width[r.operand_size]
    PROVE  Bit(v, w) = 1 <=> SignSet(v \div 2, w)
<1>1. PICK low \in Nat : w = 1 + low /\ low = w - 1 /\ 1 + low <= XLEN + Stages + 1
  <2>1. w \in 1 .. XLEN /\ XLEN \in Nat /\ Stages \in Nat
    BY RequestFields, RingLength, WidthAssumption
  <2>2. w - 1 \in Nat /\ w = 1 + (w - 1) /\ 1 + (w - 1) <= XLEN + Stages + 1
    BY <2>1
  <2> QED
    BY <2>2
<1>2. PICK half \in Nat \ {0} : half = 2^low /\ 2^w = 2 * half
  <2>1. 1 \in Nat /\ 2^1 = 2 /\ 0 \in Nat /\ low + 0 <= XLEN + Stages + 1
    BY <1>1, WidthAssumption
  <2>2. 2^(1 + low) = 2^1 * 2^low
    BY <1>1, <2>1, RingPowersAdd
  <2>3. 2^low \in Nat \ {0}
    BY <1>1, <2>1, RingPowersAdd
  <2> QED
    BY <1>1, <2>1, <2>2, <2>3
<1>3. v \div (2 * half) = (v \div 2) \div half
  BY QuotientOfQuotient
<1> QED
  BY <1>1, <1>2, <1>3 DEF Bit, SignSet

\* The answer made of the executable model's ring is the executable model's answer.
LEMMA AnswerIsArchitectural ==
    ASSUME NEW r \in Request, NEW w, w = Width[r.operand_size]
    PROVE  Visible(RotateResponse(r.tag, ArchitecturalRing(r), w, r.update_flags)) =
              Architectural(r)
<1>1. PICK op : op = IF r.direction = "LEFT" THEN "ROXL" ELSE "ROXR"
  OBVIOUS
<1>2. PICK n : n = r.count % XLEN
  OBVIOUS
<1>3. PICK ring \in Int : /\ ring = ArchitecturalRing(r)
                          /\ Model!RotatedRing(op, r.source, n, w, r.extend_in) = ring
  <2>1. ArchitecturalRing(r) \in Int
    <3>1. PICK whole \in Length : whole = w + 1
      BY RequestFields, RingLength
    <3>2. ArchitecturalRing(r) \in Word(whole)
      BY <3>1, StagesReachRing
    <3> QED
      BY <3>1, <3>2, LengthPower DEF Word
  <2> QED
    BY <1>1, <1>2, <2>1, ModelRotates
<1>4. op \in {"ROXL", "ROXR"} /\ Model!RotateExtends(op)
  BY <1>1 DEF Model!RotateExtends
<1>5. Model!ShiftedValue(op, r.source, n, w, r.extend_in) = ring \div 2
  BY <1>3, <1>4 DEF Model!ShiftedValue
<1>6. Model!ShiftedCarry(op, r.source, n, w, r.extend_in) <=> Bit(ring, 0) = 1
  BY <1>3, <1>4 DEF Model!ShiftedCarry, Model!Bit, Bit
<1>7. Model!ShiftedCarry(op, r.source, n, w, r.extend_in) \in BOOLEAN
  BY <1>3, <1>4 DEF Model!ShiftedCarry
<1>8. Model!SignSet(ring \div 2, w) = (Bit(ring, w) = 1)
  BY RingSign DEF Model!SignSet, Model!Bit, SignSet, Bit
<1> DEFINE flags == [negative |-> Bit(ring, w) = 1, zero |-> ring \div 2 = 0,
                     overflow |-> FALSE, carry |-> Bit(ring, 0) = 1]
<1>9. Architectural(r) =
        [tag |-> r.tag, value |-> ring \div 2,
         flags |-> IF r.update_flags THEN flags ELSE None, extend |-> Bit(ring, 0) = 1]
  <2>1. op # "ASL"
    BY <1>4
  <2>2. Model!ShiftRotate(op, r.source, r.count, w, r.extend_in, r.update_flags) =
          [value |-> ring \div 2, flags |-> IF r.update_flags THEN flags ELSE None,
           extend |-> Bit(ring, 0) = 1]
    BY <1>2, <1>4, <1>5, <1>6, <1>7, <1>8, <2>1 DEF Model!ShiftRotate
  <2>3. PICK value : value = ring \div 2
    OBVIOUS
  <2>4. PICK set : set = IF r.update_flags THEN flags ELSE None
    OBVIOUS
  <2>5. PICK extend : extend = (Bit(ring, 0) = 1)
    OBVIOUS
  <2> HIDE DEF flags
  <2>6. PICK m : /\ m = Model!ShiftRotate(op, r.source, r.count, w, r.extend_in, r.update_flags)
                 /\ m = [value |-> value, flags |-> set, extend |-> extend]
    BY <2>2, <2>3, <2>4, <2>5, Zenon
  <2>7. \A x, v, s, e : x = [value |-> v, flags |-> s, extend |-> e] =>
                        x.value = v /\ x.flags = s /\ x.extend = e
    OBVIOUS
  <2>8. m.value = value /\ m.flags = set /\ m.extend = extend
    BY <2>6, <2>7, Zenon
  <2>9. Architectural(r) =
          [tag |-> r.tag, value |-> m.value, flags |-> m.flags, extend |-> m.extend]
    BY <1>1, <2>6, Zenon DEF Architectural
  <2> QED
    BY <2>3, <2>4, <2>5, <2>8, <2>9, Zenon
<1>10. Visible(RotateResponse(r.tag, ring, w, r.update_flags)) =
        [tag |-> r.tag, value |-> ring \div 2,
         flags |-> IF r.update_flags THEN flags ELSE None, extend |-> Bit(ring, 0) = 1]
  BY DEF Visible, VisibleFlags, RotateResponse
<1> QED
  BY <1>3, <1>9, <1>10

-----------------------------------------------------------------------------
(* The inductive invariant.                                                *)

\* The registers of an operation under way are its request's.
RotationUnderWay ==
    state = "ITERATE" =>
        /\ request \in Request
        /\ operation = [tag |-> request.tag, operand_size |-> request.operand_size,
                        direction |-> request.direction,
                        update_flags |-> request.update_flags]

\* The published response answers the last accepted request.
ResponseIsOfRequest == response_valid => Visible(response) = Architectural(request)

RotateInvariant ==
    TypeOK /\ RotationUnderWay /\ RingIsPartlyRotated /\ ResponseIsOfRequest

\* The registers of an operation under way, by their names in the lemmas above.
LEMMA UnderWay ==
    ASSUME RotateInvariant, state = "ITERATE"
    PROVE  \E w \in 1 .. XLEN, n \in Length, k \in Word(Stages) :
              /\ request \in Request /\ w = Width[request.operand_size]
              /\ w = Width[operation.operand_size] /\ n = w + 1
              /\ k = effective_count /\ k \in Nat /\ k <= w /\ k = request.count % n
              /\ operation.direction = request.direction /\ operation.tag = request.tag
              /\ operation.update_flags = request.update_flags
              /\ stage_index \in 0 .. Stages - 1
              /\ Oriented(Ring(request), request.direction, w) \in Word(n)
              /\ ring_state = RotatedLeft(Oriented(Ring(request), request.direction, w),
                                          k % 2^stage_index, n)
<1>1. /\ request \in Request /\ operation.operand_size = request.operand_size
      /\ operation.direction = request.direction /\ operation.tag = request.tag
      /\ operation.update_flags = request.update_flags
  BY DEF RotateInvariant, RotationUnderWay
<1>2. PICK w \in 1 .. XLEN, n \in Length : w = Width[request.operand_size] /\ n = w + 1
  BY <1>1, RequestFields, RingLength
<1>3. /\ effective_count = request.count % n /\ stage_index \in 0 .. Stages - 1
      /\ ring_state = RotatedLeft(Oriented(Ring(request), request.direction, w),
                                  effective_count % 2^stage_index, n)
  BY <1>1, <1>2 DEF RotateInvariant, TypeOK, RingIsPartlyRotated
<1>4. /\ effective_count \in Word(Stages) /\ effective_count \in Nat
      /\ effective_count <= w
  <2>1. /\ request.count % (Width[request.operand_size] + 1) \in 0 .. Width[request.operand_size]
        /\ request.count % (Width[request.operand_size] + 1) \in Word(Stages)
    BY <1>1, RequestFields, CountIsReduced
  <2>2. request.count % n \in 0 .. w /\ request.count % n \in Word(Stages)
    BY <1>2, <2>1
  <2> QED
    BY <1>2, <1>3, <2>2
<1>5. Oriented(Ring(request), request.direction, w) \in Word(n)
  BY <1>1, <1>2, RingIsWord
<1> QED
  BY <1>1, <1>2, <1>3, <1>4, <1>5

\* One stage rotates the ring by the next bit of the reduced count; a stage wider than the
\* operand is never wanted.
LEMMA StageRotates ==
    ASSUME RotateInvariant, state = "ITERATE", NEW w, w = Width[request.operand_size]
    PROVE  /\ RotatedRing = RotatedLeft(Oriented(Ring(request), request.direction, w),
                                        effective_count % 2^(stage_index + 1), w + 1)
           /\ RotatedRing \in Word(w + 1)
           /\ 2^Stages \in Nat \ {0} /\ effective_count % 2^Stages = effective_count
<1>1. PICK n, k, ring, stage :
          /\ n \in Length /\ k \in Nat /\ stage \in 0 .. Stages - 1
          /\ ring \in Word(n) /\ n = w + 1 /\ w = Width[operation.operand_size] /\ w \in Nat
          /\ k = effective_count /\ k <= w /\ k \in Word(Stages)
          /\ ring = Oriented(Ring(request), request.direction, w)
          /\ stage = stage_index
          /\ ring_state = RotatedLeft(ring, k % 2^stage, n)
  <2>1. PICK x \in 1 .. XLEN, n \in Length, k \in Word(Stages) :
            /\ x = Width[request.operand_size] /\ x = Width[operation.operand_size]
            /\ n = x + 1 /\ k = effective_count /\ k \in Nat /\ k <= x
            /\ stage_index \in 0 .. Stages - 1
            /\ Oriented(Ring(request), request.direction, x) \in Word(n)
            /\ ring_state = RotatedLeft(Oriented(Ring(request), request.direction, x),
                                        k % 2^stage_index, n)
    BY UnderWay
  <2>2. x = w /\ w \in Nat
    BY <2>1
  <2>3. PICK ring, stage : stage = stage_index
                           /\ ring = Oriented(Ring(request), request.direction, w)
    OBVIOUS
  <2>4. /\ ring \in Word(n) /\ n = w + 1 /\ w = Width[operation.operand_size]
        /\ k <= w /\ stage \in 0 .. Stages - 1
        /\ ring_state = RotatedLeft(ring, k % 2^stage, n)
    BY <2>1, <2>2, <2>3
  <2> QED
    BY <2>1, <2>2, <2>3, <2>4
<1>2. PICK p \in Nat \ {0}, low \in Nat, b \in {0, 1} :
          /\ p = 2^stage /\ low = k % 2^stage /\ b = Bit(k, stage)
          /\ k % 2^(stage + 1) = low + b * p /\ low + b * p <= k
          /\ low + b * p \in Nat
  <2>1. PICK p \in Nat \ {0}, low \in Nat, b \in {0, 1} :
            /\ p = 2^stage /\ low = k % 2^stage /\ b = Bit(k, stage)
            /\ k % 2^(stage + 1) = low + b * p /\ low + b * p <= k
    <3>1. k \in Nat /\ stage \in 0 .. Stages - 1
      BY <1>1
    <3>2. /\ 2^stage \in Nat \ {0} /\ k % 2^stage \in Nat /\ Bit(k, stage) \in {0, 1}
          /\ k % 2^(stage + 1) = (k % 2^stage) + Bit(k, stage) * 2^stage
          /\ k % 2^(stage + 1) <= k
      BY <3>1, NextLowBits
    <3>3. PICK p, low, b : p = 2^stage /\ low = k % 2^stage /\ b = Bit(k, stage)
      OBVIOUS
    <3>4. /\ p \in Nat \ {0} /\ low \in Nat /\ b \in {0, 1}
          /\ k % 2^(stage + 1) = low + b * p /\ low + b * p <= k
      BY <3>2, <3>3
    <3> QED
      BY <3>3, <3>4
  <2>2. low + b * p \in Nat
    <3>1. b = 0 \/ b = 1
      OBVIOUS
    <3>2. 0 * p = 0 /\ 1 * p = p
      OBVIOUS
    <3> QED
      BY <2>1, <3>1, <3>2
  <2> QED
    BY <2>1, <2>2
<1>3. RotatedRing = RotatedLeft(ring, low + b * p, n)
  <2>1. CASE b = 1
    <3>1. low + p <= k /\ p <= w /\ low + p <= n /\ low + b * p = low + p
      BY <1>1, <1>2, <2>1
    <3>2. RotatedRing = RotatedLeft(ring_state, p, n)
      BY <1>1, <1>2, <2>1, <3>1 DEF RotatedRing
    <3>3. RotatedLeft(RotatedLeft(ring, low, n), p, n) = RotatedLeft(ring, low + p, n)
        <4>1. n \in Length /\ low \in Nat /\ p \in Nat /\ low + p <= n /\ ring \in Word(n)
        BY <1>1, <1>2, <3>1
      <4> QED
        BY <4>1, RotationsAdd
    <3> QED
      BY <1>1, <1>2, <3>1, <3>2, <3>3
  <2>2. CASE b = 0
    <3>1. RotatedRing = ring_state /\ low + b * p = low
      BY <1>1, <1>2, <2>2 DEF RotatedRing
    <3> QED
      BY <1>1, <1>2, <3>1
  <2> QED
    BY <2>1, <2>2
<1>4. low + b * p \in 0 .. n
  <2>1. PICK turn \in Nat : turn = low + b * p /\ turn <= k
    BY <1>2
  <2> QED
    BY <1>1, <2>1
<1>5. RotatedLeft(ring, low + b * p, n) \in Word(n)
  BY <1>1, <1>4, RotationIsWord
<1>6. 2^Stages \in Nat \ {0} /\ effective_count % 2^Stages = effective_count
  <2>1. k \in 0 .. XLEN - 1 /\ XLEN \in Nat /\ XLEN = 2^Stages
    BY <1>1, CountRange, WidthAssumption
  <2>2. XLEN # 0 /\ k % XLEN = k
    BY <2>1
  <2> QED
    BY <1>1, <2>1, <2>2
<1> QED
  BY <1>1, <1>2, <1>3, <1>5, <1>6

\* What a response made of a ring holds is typed.
LEMMA ResponseIsTyped ==
    ASSUME NEW tag \in Tag, NEW s \in OperandSize, NEW ring \in Word(Width[s] + 1),
           NEW update_flags \in BOOLEAN
    PROVE  RotateResponse(tag, ring, Width[s], update_flags) \in RotateExtendResponse
<1>1. PICK half \in Nat \ {0} : 2^Width[s] = half /\ 2^(Width[s] + 1) = 2 * half
  BY RingLength
<1>2. ring \in 0 .. 2 * half - 1
  BY <1>1 DEF Word
<1>3. ring \div 2 \in 0 .. half - 1
  BY <1>1, <1>2
<1>4. ring \div 2 \in Word(XLEN)
  <2>1. Word(Width[s]) \subseteq Word(XLEN)
    BY RingLength
  <2> QED
    BY <1>1, <1>3, <2>1 DEF Word
<1> QED
  BY <1>4 DEF RotateResponse, RotateExtendResponse

\* The last stage answers the request: the ring turned back is the executable model's.
LEMMA LastStageAnswers ==
    ASSUME RotateInvariant, state = "ITERATE", stage_index = Stages - 1,
           NEW w, w = Width[operation.operand_size], NEW answer,
           answer = RotateResponse(operation.tag,
                        Oriented(RotatedRing, operation.direction, w), w,
                        operation.update_flags)
    PROVE  answer \in RotateExtendResponse /\ Visible(answer) = Architectural(request)
<1>1. /\ request \in Request /\ operation.direction = request.direction
      /\ operation.tag = request.tag /\ operation.update_flags = request.update_flags
      /\ w = Width[request.operand_size] /\ effective_count = request.count % (w + 1)
  BY UnderWay
<1>2. stage_index + 1 = Stages
  BY WidthAssumption
<1>3. RotatedRing = RotatedLeft(Oriented(Ring(request), request.direction, w),
                                request.count % (w + 1), w + 1)
  BY <1>1, <1>2, StageRotates
<1>4. Oriented(RotatedRing, request.direction, w) = ArchitecturalRing(request)
      /\ ArchitecturalRing(request) \in Word(w + 1)
  BY <1>1, <1>3, StagesReachRing
<1>5. answer = RotateResponse(request.tag, ArchitecturalRing(request), w,
                              request.update_flags)
  BY <1>1, <1>4
<1> QED
  BY <1>1, <1>4, <1>5, RequestFields, ResponseIsTyped, AnswerIsArchitectural

-----------------------------------------------------------------------------
(* Every step keeps it.                                                    *)

\* What an edge samples is typed.
LEMMA EdgeIsTyped ==
    /\ ResetEdge \in EdgeRecord(Request)
    /\ \A req \in Request \cup {None}, sq \in Tag \cup {None}, rdy \in BOOLEAN :
          ClockEdge(req, sq, rdy) \in EdgeRecord(Request)
  BY DEF ResetEdge, ClockEdge, EdgeRecord

\* What a cleared unit holds is typed.
LEMMA ClearedIsTyped ==
    /\ 0 \in Word(Stages) /\ 0 \in Word(XLEN + 1) /\ 0 \in 0 .. Stages - 1
    /\ ClearedOperation \in [tag : Tag, operand_size : OperandSize,
                             direction : Direction, update_flags : BOOLEAN]
    /\ ClearedResponse \in RotateExtendResponse
<1>1. 0 \in Word(Stages) /\ 0 \in Word(XLEN + 1) /\ 0 \in Word(XLEN) /\ 0 \in 0 .. Stages - 1
  <2>1. XLEN \in Length /\ XLEN + 1 \in Length
    BY WidthAssumption DEF Length
  <2>2. 2^XLEN \in Nat \ {0} /\ 2^(XLEN + 1) \in Nat \ {0}
    BY <2>1, LengthPower
  <2>3. 2^Stages \in Nat \ {0}
    <3>1. Stages + 0 <= XLEN + Stages + 1 /\ Stages \in Nat /\ 0 \in Nat
      BY WidthAssumption
    <3> QED
      BY <3>1, RingPowersAdd
  <2> QED
    BY <2>2, <2>3, WidthAssumption DEF Word
<1>2. ZeroTag \in Tag /\ ZeroSize \in OperandSize
  BY TagAssumption, ZeroSizeIsSize
<1> QED
  BY <1>1, <1>2 DEF ClearedOperation, ClearedResponse, Direction, RotateExtendResponse

\* A unit just reset holds the invariant.
LEMMA InitIsInvariant == Init => RotateInvariant
  BY ClearedIsTyped, EdgeIsTyped
  DEF Init, RotateInvariant, TypeOK, RotationUnderWay, RingIsPartlyRotated,
      ResponseIsOfRequest, response_valid

\* Reset clears every register.
LEMMA ResetKeepsInvariant == Reset => RotateInvariant'
<1> SUFFICES ASSUME Reset PROVE RotateInvariant'
  OBVIOUS
<1>1. /\ state' = "IDLE" /\ operation' = ClearedOperation /\ effective_count' = 0
      /\ stage_index' = 0 /\ ring_state' = 0 /\ response' = ClearedResponse
      /\ request' = None /\ edge' = ResetEdge
  BY DEF Reset
<1>2. TypeOK'
  BY <1>1, ClearedIsTyped, EdgeIsTyped DEF TypeOK
<1> QED
  BY <1>1, <1>2
  DEF RotateInvariant, RotationUnderWay, RingIsPartlyRotated, ResponseIsOfRequest,
      response_valid

\* An accepted request starts a rotation by none of its stages.
LEMMA AcceptKeepsInvariant ==
    ASSUME RotateInvariant, NEW r \in Request, NEW sq \in Tag \cup {None},
           NEW rdy \in BOOLEAN, Accept(r, sq, rdy)
    PROVE  RotateInvariant'
<1>1. PICK w, n, ring : /\ w \in Nat /\ w = Width[r.operand_size]
                        /\ n \in Length /\ n = w + 1
                        /\ ring = Oriented(Ring(r), r.direction, w)
  BY RequestFields, RingLength
<1>2. /\ state' = "ITERATE" /\ request' = r /\ edge' = ClockEdge(r, sq, rdy)
      /\ operation' = [tag |-> r.tag, operand_size |-> r.operand_size,
                       direction |-> r.direction, update_flags |-> r.update_flags]
      /\ effective_count' = ReducedCount(r.count, w) /\ stage_index' = 0
      /\ ring_state' = ring /\ response' = response
  BY <1>1 DEF Accept
<1>3. /\ operation' \in [tag : Tag, operand_size : OperandSize,
                         direction : Direction, update_flags : BOOLEAN]
      /\ operation'.operand_size = r.operand_size
  BY <1>2, RequestFields
<1>4. effective_count' \in Word(Stages) /\ effective_count' = r.count % (w + 1)
      /\ effective_count' \in Nat
  <2>1. /\ ReducedCount(r.count, Width[r.operand_size]) = r.count % (Width[r.operand_size] + 1)
        /\ r.count % (Width[r.operand_size] + 1) \in Word(Stages)
    BY RequestFields, CountIsReduced
  <2>2. Word(Stages) \subseteq Nat
    BY CountRange
  <2> QED
    BY <1>1, <1>2, <2>1, <2>2
<1>5. ring \in Word(n) /\ ring \in Word(XLEN + 1)
  BY <1>1, RequestFields, RingLength, RingIsWord
<1>6. TypeOK'
  <2>1. edge' \in EdgeRecord(Request)
    BY <1>2, EdgeIsTyped
  <2>2. 0 \in 0 .. Stages - 1 /\ response \in RotateExtendResponse
    BY ClearedIsTyped DEF RotateInvariant, TypeOK
  <2> QED
    BY <1>2, <1>3, <1>4, <1>5, <2>1, <2>2 DEF TypeOK
<1>7. RingIsPartlyRotated'
  <2>1. effective_count' % 2^0 = 0
    <3>1. 2^0 = 1
      OBVIOUS
    <3> QED
      BY <1>4, <3>1
  <2>2. RotatedLeft(ring, 0, n) = ring
    BY <1>1, <1>5, WholeTurn
  <2>3. RotatedLeft(ring, effective_count' % 2^0, n) = ring
    BY <2>1, <2>2
  <2>4. ring_state' = RotatedLeft(ring, effective_count' % 2^stage_index', n)
    BY <1>2, <2>3
  <2> QED
    BY <1>1, <1>2, <1>3, <1>4, <2>4 DEF RingIsPartlyRotated, Oriented, Ring
<1>8. RotationUnderWay' /\ ResponseIsOfRequest'
  BY <1>2 DEF RotationUnderWay, ResponseIsOfRequest, response_valid
<1> QED
  BY <1>6, <1>7, <1>8 DEF RotateInvariant

\* A stage that is not the last leaves the rotation one bit further.
LEMMA IterateKeepsInvariant ==
    ASSUME RotateInvariant, NEW sq \in Tag \cup {None}, NEW rdy \in BOOLEAN,
           Iterate(sq, rdy)
    PROVE  RotateInvariant'
<1>1. /\ state = "ITERATE" /\ state' = "ITERATE" /\ stage_index # Stages - 1
      /\ edge' = ClockEdge(None, sq, rdy) /\ ring_state' = RotatedRing
      /\ stage_index' = stage_index + 1 /\ operation' = operation
      /\ effective_count' = effective_count /\ response' = response /\ request' = request
  BY DEF Iterate
<1>2. PICK w, ring : /\ w = Width[operation.operand_size] /\ w = Width[request.operand_size]
                     /\ ring = Oriented(Ring(request), request.direction, w)
                     /\ request \in Request
  BY <1>1, UnderWay
<1>3. /\ ring_state' = RotatedLeft(ring, effective_count % 2^(stage_index + 1), w + 1)
      /\ ring_state' \in Word(w + 1)
  BY <1>1, <1>2, StageRotates
<1>4. TypeOK'
  <2>1. edge' \in EdgeRecord(Request)
    BY <1>1, EdgeIsTyped
  <2>2. stage_index + 1 \in 0 .. Stages - 1
    BY <1>1, WidthAssumption DEF RotateInvariant, TypeOK
  <2>3. ring_state' \in Word(XLEN + 1)
    BY <1>2, <1>3, RequestFields, RingLength
  <2> QED
    BY <1>1, <2>1, <2>2, <2>3 DEF RotateInvariant, TypeOK
<1>5. RingIsPartlyRotated'
  <2>1. effective_count = request.count % (w + 1)
    BY <1>1, <1>2 DEF RotateInvariant, RingIsPartlyRotated
  <2> QED
    BY <1>1, <1>2, <1>3, <2>1 DEF RingIsPartlyRotated
<1>6. RotationUnderWay' /\ ResponseIsOfRequest'
  BY <1>1 DEF RotateInvariant, RotationUnderWay, ResponseIsOfRequest, response_valid
<1> QED
  BY <1>4, <1>5, <1>6 DEF RotateInvariant

\* The last stage publishes the answer.
LEMMA FinishKeepsInvariant ==
    ASSUME RotateInvariant, NEW sq \in Tag \cup {None}, NEW rdy \in BOOLEAN,
           Finish(sq, rdy)
    PROVE  RotateInvariant'
<1>1. PICK w : w = Width[operation.operand_size]
  OBVIOUS
<1>2. /\ state = "ITERATE" /\ state' = "RESPONSE" /\ stage_index = Stages - 1
      /\ edge' = ClockEdge(None, sq, rdy) /\ ring_state' = RotatedRing
      /\ stage_index' = stage_index /\ operation' = operation
      /\ effective_count' = effective_count /\ request' = request
      /\ response' = RotateResponse(operation.tag,
                          Oriented(RotatedRing, operation.direction, w), w,
                          operation.update_flags)
  BY <1>1 DEF Finish
<1>3. response' \in RotateExtendResponse /\ Visible(response') = Architectural(request)
  BY <1>1, <1>2, LastStageAnswers
<1>4. ring_state' \in Word(XLEN + 1)
  <2>1. w = Width[request.operand_size] /\ request \in Request
    BY <1>1, <1>2, UnderWay
  <2>2. RotatedRing \in Word(w + 1)
    BY <1>2, <2>1, StageRotates
  <2> QED
    BY <1>2, <2>1, <2>2, RequestFields, RingLength
<1>5. TypeOK'
  <2>1. edge' \in EdgeRecord(Request)
    BY <1>2, EdgeIsTyped
  <2> QED
    BY <1>2, <1>3, <1>4, <2>1 DEF RotateInvariant, TypeOK
<1>6. Visible(response') = Architectural(request')
  BY <1>2, <1>3
<1> QED
  BY <1>2, <1>5, <1>6
  DEF RotateInvariant, RotationUnderWay, RingIsPartlyRotated, ResponseIsOfRequest

\* A step that leaves the datapath, and at most leaves its state, keeps it.
LEMMA QuietStepKeepsInvariant ==
    ASSUME RotateInvariant, edge' \in EdgeRecord(Request),
           state' = state \/ state' = "IDLE",
           UNCHANGED <<operation, effective_count, stage_index, ring_state, response,
                       request>>
    PROVE  RotateInvariant'
<1>1. TypeOK'
  BY DEF RotateInvariant, TypeOK
<1>2. CASE state' = state
  BY <1>1, <1>2
  DEF RotateInvariant, RotationUnderWay, RingIsPartlyRotated, ResponseIsOfRequest,
      response_valid
<1>3. CASE state' = "IDLE"
  BY <1>1, <1>3
  DEF RotateInvariant, RotationUnderWay, RingIsPartlyRotated, ResponseIsOfRequest,
      response_valid
<1> QED
  BY <1>2, <1>3

\* Every step keeps the invariant.
LEMMA StepKeepsInvariant == RotateInvariant /\ [Next]_vars => RotateInvariant'
<1> SUFFICES ASSUME RotateInvariant, [Next]_vars PROVE RotateInvariant'
  OBVIOUS
<1>1. CASE Reset
  BY <1>1, ResetKeepsInvariant
<1>2. CASE UNCHANGED vars
  <2>1. edge' \in EdgeRecord(Request)
    BY <1>2 DEF vars, RotateInvariant, TypeOK
  <2> QED
    BY <1>2, <2>1, QuietStepKeepsInvariant DEF vars
<1>3. ASSUME NEW sq \in Tag \cup {None}, NEW rdy \in BOOLEAN, Clock(sq, rdy)
      PROVE  RotateInvariant'
  <2>0. \A req \in Request \cup {None} : ClockEdge(req, sq, rdy) \in EdgeRecord(Request)
    BY EdgeIsTyped
  <2>1. ASSUME NEW r \in Request, Accept(r, sq, rdy) PROVE RotateInvariant'
    BY <2>1, AcceptKeepsInvariant
  <2>2. ASSUME NEW req \in Request \cup {None}, AcceptNothing(req, sq, rdy)
        PROVE  RotateInvariant'
    BY <2>0, <2>2, QuietStepKeepsInvariant DEF AcceptNothing
  <2>3. CASE Cancel(sq, rdy)
    BY <2>0, <2>3, QuietStepKeepsInvariant DEF Cancel
  <2>4. CASE Iterate(sq, rdy)
    BY <2>4, IterateKeepsInvariant
  <2>5. CASE Finish(sq, rdy)
    BY <2>5, FinishKeepsInvariant
  <2>6. CASE Respond(sq, rdy)
    BY <2>0, <2>6, QuietStepKeepsInvariant DEF Respond
  <2> QED
    BY <1>3, <2>1, <2>2, <2>3, <2>4, <2>5, <2>6 DEF Clock
<1> QED
  BY <1>1, <1>2, <1>3 DEF Next

\* The invariant holds.
LEMMA RotateInvariantHolds == Spec => []RotateInvariant
<1>1. Init => RotateInvariant
  BY InitIsInvariant
<1>2. RotateInvariant /\ [Next]_vars => RotateInvariant'
  BY StepKeepsInvariant
<1> QED
  BY <1>1, <1>2, PTL DEF Spec

\* The registers of m64k_rotate_extend_iterative keep their declared widths, whatever is
\* accepted, squashed, stalled or reset: no stage spills a bit over the ring's register.
THEOREM RotateIsTyped == Spec => []TypeOK
<1>1. RotateInvariant => TypeOK
  BY DEF RotateInvariant
<1> QED
  BY <1>1, RotateInvariantHolds, PTL

\* Before each stage the ring is the request's, rotated by the bits of its reduced count
\* the earlier stages have seen: the stages compose, and the one that is skipped because
\* the operand is too narrow is never wanted.
THEOREM StagesRotate == Spec => []RingIsPartlyRotated
<1>1. RotateInvariant => RingIsPartlyRotated
  BY DEF RotateInvariant
<1> QED
  BY <1>1, RotateInvariantHolds, PTL

-----------------------------------------------------------------------------
(* The unit it implements.                                                 *)

Inflight == IF state = "ITERATE" THEN <<request>> ELSE <<>>
Published == IF response_valid THEN Visible(response) ELSE None

\* A step that samples an edge and leaves what the unit's squash leaves of the operations
\* it owns is a step of the unit.
LEMMA ClockImplements ==
    ASSUME NEW req \in Request \cup {None}, NEW sq \in Tag \cup {None}, NEW rdy \in BOOLEAN,
           edge' = ClockEdge(req, sq, rdy),
           NEW queue,
           queue = Surviving(Inflight \o (IF req = None THEN <<>> ELSE <<req>>), sq),
           \/ /\ Inflight' = queue
              /\ Published' = IF rdy THEN None ELSE Published
           \/ /\ Published = None \/ rdy
              /\ queue # <<>>
              /\ Inflight' = Tail(queue)
              /\ Published' = Architectural(Head(queue))
    PROVE  Unit!Clock
<1>1. /\ edge' \in Unit!Sample /\ ~edge'.reset
      /\ edge'.request = req /\ edge'.squash = sq /\ edge'.response_ready = rdy
  BY EdgeIsTyped DEF Unit!Sample, EdgeRecord, ClockEdge
<1>2. Unit!Surviving(Inflight \o Unit!Offered(edge'), edge'.squash) = queue
  <2>1. Unit!Offered(edge') = IF req = None THEN <<>> ELSE <<req>>
    BY <1>1 DEF Unit!Offered
  <2>2. \A held, squash : Unit!Surviving(held, squash) = Surviving(held, squash)
    BY DEF Unit!Surviving, Surviving
  <2> QED
    BY <1>1, <2>1, <2>2, Zenon
<1>3. Unit!Keep(queue) \/ Unit!Publish(queue)
  BY <1>1 DEF Unit!Keep, Unit!Publish, Inflight, Published
<1>4. Len(Inflight') <= 1
  BY DEF Inflight
<1> QED
  BY <1>1, <1>2, <1>3, <1>4 DEF Unit!Clock, Inflight

\* What survives of the one operation under way and of the one offered.
LEMMA RotateSurvivors ==
    ASSUME NEW op, NEW squash
    PROVE  /\ Surviving(<<>> \o <<>>, squash) = <<>>
           /\ Surviving(<<>> \o <<op>>, squash) = IF op.tag = squash THEN <<>> ELSE <<op>>
           /\ Surviving(<<op>> \o <<>>, squash) = IF op.tag = squash THEN <<>> ELSE <<op>>
  BY ShortListsConcatenate, EmptySurvives, OneSurvives, Zenon

\* Reset and power up are the unit's.
LEMMA ResetImplements == (Init => Unit!Init) /\ (Reset => Unit!Reset)
  BY DEF Init, Unit!Init, Reset, Unit!Reset, response_valid, ResetEdge, Unit!ResetEdge

\* Every step of the rotate unit is a step of the unit it promises to be.
LEMMA StepImplements ==
    RotateInvariant /\ RotateInvariant' /\ [Next]_vars => [Unit!Next]_Unit!vars
<1> SUFFICES ASSUME RotateInvariant, RotateInvariant', [Next]_vars
             PROVE  [Unit!Next]_Unit!vars
  OBVIOUS
<1>1. CASE Reset
  BY <1>1, ResetImplements DEF Unit!Next
<1>2. CASE UNCHANGED vars
  BY <1>2 DEF vars, Unit!vars, response_valid, Visible, VisibleFlags
<1>3. response_valid' => Published' = Architectural(request')
  BY DEF RotateInvariant, ResponseIsOfRequest, Published
<1>4. ASSUME state = "ITERATE"
      PROVE  /\ request \in Request /\ operation.tag = request.tag
             /\ Inflight = <<request>> /\ Published = None
  BY <1>4 DEF RotateInvariant, RotationUnderWay, Inflight, Published, response_valid
<1>5. ASSUME NEW sq \in Tag \cup {None}, NEW rdy \in BOOLEAN, Clock(sq, rdy)
      PROVE  Unit!Clock
  <2> DEFINE Left(req) == Surviving(Inflight \o (IF req = None THEN <<>> ELSE <<req>>), sq)
  <2>0. None \in Request \cup {None}
    OBVIOUS
  <2>1. ASSUME request_ready, NEW r \in Request, Accept(r, sq, rdy) PROVE Unit!Clock
    <3>1. /\ Inflight = <<>> /\ Published = None /\ r # None /\ r.tag # sq
          /\ edge' = ClockEdge(r, sq, rdy) /\ request' = r /\ state' = "ITERATE"
      BY <2>1, RequestAssumption
      DEF Accept, request_ready, Inflight, Published, response_valid
    <3>2. Left(r) = <<r>>
      BY <3>1, RotateSurvivors
    <3>3. Inflight' = <<r>> /\ Published' = None
      BY <3>1 DEF Inflight, Published, response_valid
    <3> QED
      BY <3>1, <3>2, <3>3, ClockImplements
  <2>2. ASSUME request_ready, NEW req \in Request \cup {None}, AcceptNothing(req, sq, rdy)
        PROVE  Unit!Clock
    <3>1. /\ Inflight = <<>> /\ Published = None /\ Inflight' = <<>> /\ Published' = None
          /\ edge' = ClockEdge(req, sq, rdy) /\ (req # None => req.tag = sq)
      BY <2>2 DEF AcceptNothing, request_ready, Inflight, Published, response_valid
    <3>2. Left(req) = <<>>
      BY <3>1, RotateSurvivors
    <3> QED
      BY <3>1, <3>2, ClockImplements
  <2>3. CASE Cancel(sq, rdy)
    <3>1. /\ state = "ITERATE" /\ sq = operation.tag /\ edge' = ClockEdge(None, sq, rdy)
          /\ Inflight' = <<>> /\ Published' = None
      BY <2>3 DEF Cancel, Inflight, Published, response_valid
    <3>2. Left(None) = <<>>
      BY <1>4, <3>1, RotateSurvivors
    <3> QED
      BY <1>4, <2>0, <3>1, <3>2, ClockImplements
  <2>4. CASE Iterate(sq, rdy)
    <3>1. /\ state = "ITERATE" /\ sq # operation.tag /\ edge' = ClockEdge(None, sq, rdy)
          /\ Inflight' = <<request>> /\ Published' = None
      BY <2>4 DEF Iterate, Inflight, Published, response_valid
    <3>2. Left(None) = <<request>>
      BY <1>4, <3>1, RotateSurvivors
    <3> QED
      BY <1>4, <2>0, <3>1, <3>2, ClockImplements
  <2>5. CASE Finish(sq, rdy)
    <3>1. /\ state = "ITERATE" /\ sq # operation.tag /\ edge' = ClockEdge(None, sq, rdy)
          /\ Inflight' = <<>> /\ request' = request /\ response_valid'
      BY <2>5 DEF Finish, Inflight, response_valid
    <3>2. Left(None) = <<request>>
      BY <1>4, <3>1, RotateSurvivors
    <3>3. Head(<<request>>) = request /\ Tail(<<request>>) = <<>> /\ <<request>> # <<>>
      OBVIOUS
    <3>4. Published' = Architectural(request)
      BY <1>3, <3>1
    <3> QED
      BY <1>4, <2>0, <3>1, <3>2, <3>3, <3>4, ClockImplements
  <2>6. CASE Respond(sq, rdy)
    <3>1. /\ edge' = ClockEdge(None, sq, rdy)
          /\ Inflight = <<>> /\ Inflight' = <<>>
          /\ Published' = IF rdy THEN None ELSE Published
      BY <2>6 DEF Respond, Inflight, Published, response_valid
    <3>2. Left(None) = <<>>
      BY <3>1, RotateSurvivors
    <3> QED
      BY <2>0, <3>1, <3>2, ClockImplements
  <2> QED
    BY <1>5, <2>1, <2>2, <2>3, <2>4, <2>5, <2>6 DEF Clock
<1> QED
  BY <1>1, <1>2, <1>5 DEF Next, Unit!Next

\* m64k_rotate_extend_iterative is a tagged execution unit of capacity one with the
\* executable model as its outcome: it answers each request it accepted at most once, drops
\* exactly the unpublished operation whose tag is squashed, and never takes back a response.
THEOREM RotateImplementsUnit == Spec => ImplementsUnit
<1>1. Init => Unit!Init
  BY ResetImplements
<1> QED
  BY <1>1, RotateInvariantHolds, StepImplements, PTL DEF Spec, ImplementsUnit, Unit!Spec
=============================================================================
