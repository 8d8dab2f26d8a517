-------------------------- MODULE ShiftRotateProofs -------------------------
(***************************************************************************)
(* Theorems about ShiftRotateShared, for every register width, set of      *)
(* operand sizes and set of requests its assumptions allow: the stages of  *)
(* the network and of the reference's barrels compose to one move, and two *)
(* complementary shifts make a rotation through extend.                    *)
(***************************************************************************)
EXTENDS ShiftRotateShared, ExecuteBackendProofs

-----------------------------------------------------------------------------
(* Widths and counts.                                                      *)

\* The powers of two up to those of a ring and its count are powers.
LEMMA StagePowersAdd ==
    \A m, n \in Nat : m + n <= XLEN + Stages + 1 =>
        2^m \in Nat \ {0} /\ 2^(m + n) = 2^m * 2^n
<1>1. PICK last \in Nat : last = XLEN + Stages
  BY WidthAssumption, LengthAssumption
<1>2. \A n \in 0 .. last : 2^(n + 1) = 2 * 2^n
  BY <1>1, PowerAssumption
<1>3. last + 1 \in Nat /\ \A n \in 0 .. (last + 1) - 1 : n \in 0 .. last
  BY <1>1
<1>4. \A m, n \in Nat : m + n <= last + 1 => 2^m \in Nat \ {0} /\ 2^(m + n) = 2^m * 2^n
  BY <1>2, <1>3, PowersAdd
<1> QED
  BY <1>1, <1>4

\* An operand is at most as long as a register, and a ring one bit longer.
LEMMA WidthPowers ==
    ASSUME NEW w \in 1 .. XLEN
    PROVE  /\ w \in Nat \ {0} /\ XLEN \in Nat
           /\ w - 1 \in Length /\ w \in Length /\ w + 1 \in Length /\ XLEN \in Length
           /\ 2^(w - 1) \in Nat \ {0} /\ 2^w = 2 * 2^(w - 1) /\ 2^(w + 1) = 2 * 2^w
           /\ 2^w \in Nat \ {0} /\ 2^XLEN \in Nat \ {0} /\ Word(w) \subseteq Word(XLEN)
<1>1. PICK m \in Nat, n \in Nat, rest \in Nat :
          /\ m = w - 1 /\ n = w + 1 /\ w = m + 1 /\ XLEN = w + rest /\ XLEN \in Nat /\ w \in Nat
          /\ m \in 0 .. XLEN + 1 /\ w \in 0 .. XLEN + 1 /\ n \in 0 .. XLEN + 1
          /\ m \in 0 .. XLEN /\ w \in 0 .. XLEN /\ XLEN \in 0 .. XLEN + 1
  <2>1. XLEN - w \in Nat /\ XLEN = w + (XLEN - w) /\ w - 1 \in Nat /\ w + 1 \in Nat
    BY LengthAssumption
  <2> QED
    BY <2>1, LengthAssumption
<1>2. m \in Length /\ w \in Length /\ n \in Length /\ XLEN \in Length
  BY <1>1 DEF Length
<1>3. 2^w = 2 * 2^m /\ 2^n = 2 * 2^w
  BY <1>1, LengthAssumption
<1>4. 2^m \in Nat \ {0} /\ 2^w \in Nat \ {0} /\ 2^rest \in Nat \ {0} /\ 2^XLEN = 2^w * 2^rest
  BY <1>1, <1>2, PartPowers, LengthPower
<1>5. 2^w <= 2^XLEN /\ 2^XLEN \in Nat \ {0}
  <2>1. \A a, b \in Nat \ {0} : a <= a * b /\ a * b \in Nat \ {0}
    OBVIOUS
  <2> QED
    BY <1>4, <2>1
<1>6. Word(w) \subseteq Word(XLEN)
  BY <1>4, <1>5, WordIsMonotone
<1> QED
  BY <1>1, <1>2, <1>3, <1>4, <1>5, <1>6

\* A count indexes a register.
LEMMA CountRange == Word(Stages) = 0 .. XLEN - 1
  BY WidthAssumption DEF Word

\* The lower bits of a count, stage by stage: each set bit adds what its stage moves.
LEMMA CountStages ==
    ASSUME NEW n \in 0 .. XLEN - 1
    PROVE  /\ n % 2^0 = 0 /\ n % 2^Stages = n
           /\ \A s \in 0 .. Stages - 1 :
                 /\ 2^s \in Nat \ {0} /\ n % 2^s \in Nat
                 /\ Bit(n, s) = 1 => n % 2^(s + 1) = (n % 2^s) + 2^s /\ (n % 2^s) + 2^s <= n
                 /\ Bit(n, s) # 1 => n % 2^(s + 1) = n % 2^s
<1>1. n \in Nat /\ XLEN \in Nat /\ XLEN = 2^Stages /\ 2^0 = 1
  BY WidthAssumption, LengthAssumption
<1>2. n % 2^0 = 0 /\ n % 2^Stages = n
  BY <1>1
<1>3. ASSUME NEW s \in 0 .. Stages - 1
      PROVE  /\ 2^s \in Nat \ {0} /\ n % 2^s \in Nat
             /\ Bit(n, s) = 1 => n % 2^(s + 1) = (n % 2^s) + 2^s /\ (n % 2^s) + 2^s <= n
             /\ Bit(n, s) # 1 => n % 2^(s + 1) = n % 2^s
  <2>1. s \in Nat /\ s \in 0 .. XLEN + Stages /\ s + 0 <= XLEN + Stages + 1
    BY <1>1, WidthAssumption
  <2>2. 2^s \in Nat \ {0} /\ 2^(s + 1) = 2 * 2^s
    BY <2>1, StagePowersAdd, PowerAssumption
  <2>3. /\ n % 2^s \in Nat /\ Bit(n, s) \in {0, 1}
        /\ n % 2^(s + 1) = (n % 2^s) + Bit(n, s) * 2^s
        /\ n % 2^(s + 1) <= n
    BY <1>1, <2>1, <2>2, LowBitsGrow
  <2> QED
    BY <2>2, <2>3
<1> QED
  BY <1>2, <1>3

\* Sequences that agree at first and step alike agree.
LEMMA StepsAgree ==
    ASSUME NEW m \in Nat, NEW f, NEW c, f[0] = c[0],
           \A s \in 0 .. m - 1 : f[s] = c[s] => f[s + 1] = c[s + 1]
    PROVE  \A s \in 0 .. m : f[s] = c[s]
<1> DEFINE S == {s \in Nat : s \in 0 .. m => f[s] = c[s]}
<1>1. 0 \in S
  OBVIOUS
<1>2. ASSUME NEW s \in Nat, s \in S PROVE s + 1 \in S
  BY <1>2
<1>3. \A s \in Nat : s \in S
  <2> HIDE DEF S
  <2> QED
    BY <1>1, <1>2, NaturalInduction
<1> QED
  BY <1>3

\* What agrees at the first stage, and at the next one whenever at one, agrees.
LEMMA StagesAgree ==
    ASSUME NEW f, NEW c, f[0] = c[0],
           \A s \in 0 .. Stages - 1 : f[s] = c[s] => f[s + 1] = c[s + 1]
    PROVE  \A s \in 0 .. Stages : f[s] = c[s]
  BY StepsAgree, WidthAssumption

-----------------------------------------------------------------------------
(* Moves that stages make and that add up.                                 *)

\* A shift to the left of a register that shifts in copies of a bit.
Filled(v, k, fill) == Truncate(v, XLEN - k) * 2^k + fill * (2^k - 1)

\* A shift to the right that does.
FilledRight(v, k, fill) == v \div 2^k + fill * (2^k - 1) * 2^(XLEN - k)

\* A vector in three parts, the lower and the upper two of which make a vector each.
InThreeParts(v, low, middle, high, m, b, mb, ab) ==
    /\ v = (high * 2^b + middle) * 2^m + low
    /\ v = high * 2^mb + (middle * 2^m + low)
    /\ middle * 2^m + low \in Word(mb) /\ high * 2^b + middle \in Word(ab)
    /\ low \in Int /\ middle \in Int /\ high \in Int

\* Every vector has three such parts.
LEMMA ThreeParts ==
    ASSUME NEW whole \in Length, NEW a \in Nat, NEW b \in Nat, NEW m \in Nat,
           NEW mb \in Nat, NEW ab \in Nat, mb = m + b, ab = a + b,
           whole = mb + a, whole = m + ab, NEW v \in Word(whole)
    PROVE  \E low \in Word(m), middle \in Word(b), high \in Word(a) :
              InThreeParts(v, low, middle, high, m, b, mb, ab)
<1>1. mb \in Length /\ ab \in Length /\ ab = b + a
  <2>1. mb \in Length
    BY PartPowers
  <2>2. ab \in Length
    BY PartPowers
  <2> QED
    BY <2>1, <2>2
<1>2. PICK rest \in Word(mb), high \in Word(a) : v = high * 2^mb + rest
  <2>1. whole \in Length /\ mb \in Nat /\ a \in Nat /\ whole = mb + a /\ v \in Word(whole)
    OBVIOUS
  <2> QED
    BY <2>1, WordSplits, ZenonT(60)
<1>3. PICK low \in Word(m), middle \in Word(b) : rest = middle * 2^m + low
  BY <1>1, <1>2, WordSplits
<1>4. PICK pa \in Nat \ {0}, pb \in Nat \ {0}, pm \in Nat \ {0} :
          pa = 2^a /\ pb = 2^b /\ pm = 2^m /\ 2^mb = pm * pb
  BY <1>1, PartPowers
<1>5. low \in Int /\ middle \in Int /\ high \in Int
  BY <1>2, <1>3, <1>4 DEF Word
<1>6. high * (pm * pb) + (middle * pm + low) = (high * pb + middle) * pm + low
  BY <1>4, <1>5
<1>7. high * 2^b + middle \in Word(ab)
  BY <1>1, <1>2, <1>3, JoinIsWord
<1>8. InThreeParts(v, low, middle, high, m, b, mb, ab)
  BY <1>2, <1>3, <1>4, <1>5, <1>6, <1>7 DEF InThreeParts
<1> QED
  BY <1>2, <1>3, <1>8

\* Copies of a bit.
LEMMA CopiesAreWord ==
    ASSUME NEW k \in Length, NEW fill \in {0, 1}
    PROVE  fill * (2^k - 1) \in Word(k)
  BY LengthPower DEF Word

\* Shifts to the left that fill add up.
LEMMA FilledAdds ==
    ASSUME NEW v \in Word(XLEN), NEW fill \in {0, 1}, NEW a \in Nat, NEW b \in Nat,
           a + b <= XLEN
    PROVE  Filled(Filled(v, a, fill), b, fill) = Filled(v, a + b, fill)
<1>1. XLEN \in Nat /\ XLEN \in Length
  BY LengthAssumption DEF Length
<1>2. PICK m \in Nat : XLEN = m + b + a
  <2>1. XLEN - (a + b) \in Nat /\ XLEN = (XLEN - (a + b)) + b + a
    BY <1>1
  <2> QED
    BY <2>1
<1>3. PICK am \in Nat, bm \in Nat, ab \in Nat :
          /\ am = a + m /\ bm = m + b /\ ab = a + b
          /\ XLEN = bm + a /\ XLEN = am + b /\ XLEN = m + ab
          /\ XLEN - a = bm /\ XLEN - b = am /\ XLEN - ab = m
  BY <1>1, <1>2
<1>4. am \in Length /\ bm \in Length /\ ab \in Length /\ a \in Length /\ m \in Length
  <2>1. am \in Length /\ bm \in Length /\ ab \in Length
    BY <1>1, <1>3, PartPowers
  <2> QED
    BY <1>3, <2>1, PartPowers
<1>5. PICK low \in Word(m), middle \in Word(b), high \in Word(a) :
          InThreeParts(v, low, middle, high, m, b, bm, ab)
  BY <1>1, <1>2, <1>3, ThreeParts
<1> USE DEF InThreeParts
<1>6. PICK pa \in Nat \ {0}, pb \in Nat \ {0}, pm \in Nat \ {0} :
          pa = 2^a /\ pb = 2^b /\ pm = 2^m /\ 2^am = pa * pm /\ 2^ab = pa * pb
  BY <1>3, <1>4, PartPowers
<1>7. PICK ones \in Int : ones = fill * (pa - 1)
  BY <1>6
<1>8. Filled(v, a, fill) = (middle * pm + low) * pa + ones
  <2>1. Truncate(v, bm) = middle * 2^m + low
    <3>1. (high * 2^bm + (middle * 2^m + low)) % 2^bm = middle * 2^m + low
      BY <1>4, <1>5, PartsOfJoin
    <3> QED
      BY <1>5, <3>1 DEF Truncate
  <2> QED
    BY <1>3, <1>6, <1>7, <2>1 DEF Filled
<1>9. Truncate(Filled(v, a, fill), am) = low * pa + ones
  <2>1. low * 2^a + ones \in Word(am)
    <3>1. ones \in Word(a)
      BY <1>4, <1>6, <1>7, CopiesAreWord
    <3> QED
      BY <1>3, <1>4, <3>1, JoinIsWord
  <2>2. (middle * pm + low) * pa + ones = middle * (pa * pm) + (low * pa + ones)
    BY <1>5, <1>6, <1>7
  <2>3. (middle * 2^am + (low * 2^a + ones)) % 2^am = low * 2^a + ones
    BY <1>4, <1>5, <2>1, PartsOfJoin
  <2> QED
    BY <1>6, <1>8, <2>2, <2>3 DEF Truncate
<1>10. Filled(Filled(v, a, fill), b, fill) = (low * pa + ones) * pb + fill * (pb - 1)
  BY <1>3, <1>6, <1>9 DEF Filled
<1>11. Filled(v, ab, fill) = low * (pa * pb) + fill * (pa * pb - 1)
  <2>1. high * 2^b + middle \in Int
    BY <1>5, <1>6
  <2>2. Truncate(v, m) = low
    BY <1>4, <1>5, <2>1, PartsOfJoin DEF Truncate
  <2> QED
    BY <1>3, <1>6, <2>2 DEF Filled
<1>12. (low * pa + fill * (pa - 1)) * pb + fill * (pb - 1)
           = low * (pa * pb) + fill * (pa * pb - 1)
  <2>1. CASE fill = 0
    BY <1>5, <1>6, <2>1
  <2>2. CASE fill = 1
    BY <1>5, <1>6, <2>2
  <2> QED
    BY <2>1, <2>2
<1> QED
  BY <1>3, <1>7, <1>10, <1>11, <1>12

\* Shifts to the right that fill add up.
LEMMA FilledRightAdds ==
    ASSUME NEW v \in Word(XLEN), NEW fill \in {0, 1}, NEW a \in Nat, NEW b \in Nat,
           a + b <= XLEN
    PROVE  FilledRight(FilledRight(v, a, fill), b, fill) = FilledRight(v, a + b, fill)
<1>1. XLEN \in Nat /\ XLEN \in Length
  BY LengthAssumption DEF Length
<1>2. PICK m \in Nat : XLEN = m + b + a
  <2>1. XLEN - (a + b) \in Nat /\ XLEN = (XLEN - (a + b)) + b + a
    BY <1>1
  <2> QED
    BY <2>1
<1>3. PICK am \in Nat, bm \in Nat, ab \in Nat :
          /\ am = a + m /\ bm = b + m /\ ab = a + b /\ ab = b + a
          /\ XLEN = a + bm /\ XLEN = ab + m /\ XLEN = am + b
          /\ XLEN - a = bm /\ XLEN - b = am /\ XLEN - ab = m
  BY <1>1, <1>2
<1>4. am \in Length /\ bm \in Length /\ ab \in Length /\ a \in Length
  <2>1. am \in Length /\ bm \in Length /\ ab \in Length
    BY <1>1, <1>3, PartPowers
  <2> QED
    BY <1>3, <2>1, PartPowers
<1>5. PICK pa \in Nat \ {0}, pb \in Nat \ {0}, pm \in Nat \ {0} :
          /\ pa = 2^a /\ pb = 2^b /\ pm = 2^m
          /\ 2^am = pa * pm /\ 2^bm = pb * pm /\ 2^ab = pa * pb
  BY <1>3, <1>4, PartPowers
<1>6. v \in Int
  BY <1>1, LengthPower DEF Word
<1>7. PICK q \in Int, u \in Int : q = v \div pa /\ u = q \div pb /\ v \div (pa * pb) = u
  <2>1. v \div pa \in Int
    BY <1>5, <1>6, Division
  <2>2. (v \div pa) \div pb \in Int
    BY <1>5, <2>1, Division
  <2>3. v \div (pa * pb) = (v \div pa) \div pb
    <3>1. pa \in Nat \ {0} /\ pb \in Nat \ {0} /\ v \in Int
      BY <1>5, <1>6
    <3> QED
      BY <3>1, QuotientOfQuotient, ZenonT(60)
  <2> QED
    BY <2>1, <2>2, <2>3
<1>8. FilledRight(v, a, fill) = q + fill * (pa - 1) * (pb * pm)
  BY <1>3, <1>5, <1>7 DEF FilledRight
<1>9. PICK k \in Int : k = fill * (pa - 1) * pm
  BY <1>5
<1>10. fill * (pa - 1) * (pb * pm) = pb * k
  <2>1. CASE fill = 0
    BY <1>5, <1>9, <2>1
  <2>2. CASE fill = 1
    BY <1>5, <1>9, <2>2
  <2> QED
    BY <2>1, <2>2
<1>11. (pb * k + q) \div pb = k + u
  BY <1>5, <1>7, <1>9, QuotientOfSum
<1>12. FilledRight(v, a, fill) = pb * k + q
  BY <1>5, <1>7, <1>8, <1>9, <1>10
<1>13. FilledRight(FilledRight(v, a, fill), b, fill) = (k + u) + fill * (pb - 1) * (pa * pm)
  BY <1>3, <1>5, <1>11, <1>12 DEF FilledRight
<1>14. FilledRight(v, ab, fill) = u + fill * (pa * pb - 1) * pm
  BY <1>3, <1>5, <1>7 DEF FilledRight
<1>15. (k + u) + fill * (pb - 1) * (pa * pm) = u + fill * (pa * pb - 1) * pm
  <2>1. CASE fill = 0
    BY <1>5, <1>7, <1>9, <2>1
  <2>2. CASE fill = 1
    BY <1>5, <1>7, <1>9, <2>2
  <2> QED
    BY <2>1, <2>2
<1> QED
  BY <1>3, <1>13, <1>14, <1>15

\* The remainder of a product is that of the product with a remainder.
ProductRemainder(v, b, m) == ((v % m) * b) % m = (v * b) % m
LEMMA RemainderOfProduct ==
    ASSUME NEW v \in Int, NEW b \in Int, NEW m \in Nat \ {0}
    PROVE  ProductRemainder(v, b, m)
<1>1. PICK q \in Int, r \in 0 .. m - 1 : r = v % m /\ v = m * q + r
  BY Division, ZenonT(60)
<1>2. PICK k \in Int, x \in Int : k = q * b /\ x = r * b
  BY <1>1
<1>3. (m * q + r) * b = x + m * k
  BY <1>1, <1>2
<1>4. (x + m * k) % m = x % m
  BY <1>2, RemainderOfSum
<1> QED
  BY <1>1, <1>2, <1>3, <1>4 DEF ProductRemainder

\* Shifts to the left that drop what leaves the operand add up.
LEMMA DroppedAdds ==
    ASSUME NEW v \in Int, NEW w \in Length, NEW a \in Nat, NEW b \in Nat, a + b <= XLEN
    PROVE  Truncate(Truncate(v * 2^a, w) * 2^b, w) = Truncate(v * 2^(a + b), w)
<1>1. 2^a \in Nat \ {0} /\ 2^b \in Nat \ {0} /\ 2^(a + b) = 2^a * 2^b
  <2>1. a + b <= XLEN + 1 /\ b + 0 <= XLEN + 1
    BY LengthAssumption
  <2> QED
    BY <2>1, LengthPowersAdd
<1>2. PICK pa \in Nat, pb \in Nat, m \in Nat \ {0}, x \in Int :
          pa = 2^a /\ pb = 2^b /\ m = 2^w /\ x = v * pa
  BY <1>1, LengthPower
<1>3. ProductRemainder(x, pb, m)
  BY <1>2, RemainderOfProduct
<1>4. (v * pa) * pb = v * (pa * pb)
  BY <1>2
<1> QED
  BY <1>1, <1>2, <1>3, <1>4 DEF Truncate, ProductRemainder

-----------------------------------------------------------------------------
(* The network and the reference's barrels.                                *)

\* What the network's stages do to its value by k bits.
Moved(op, v, k, fill) ==
    IF op \in Datapath!Rotate THEN RotatedLeft(v, k, XLEN)
    ELSE Truncate(v, XLEN - k) * 2^k + fill * (2^k - 1)

\* f is the network's value before each stage.
NetworkStages(f, op, in, n, fill) ==
    f = [s \in 0 .. Stages |->
            IF s = 0 THEN in
            ELSE IF Bit(n, s - 1) = 1 THEN Moved(op, f[s - 1], 2^(s - 1), fill)
            ELSE f[s - 1]]

\* No move leaves a register as it is.
LEMMA NoMove ==
    ASSUME NEW op, NEW v \in Word(XLEN), NEW fill \in {0, 1}
    PROVE  Moved(op, v, 0, fill) = v
<1>1. XLEN \in Nat /\ XLEN \in Length /\ 2^XLEN \in Nat \ {0} /\ 2^0 = 1
  BY LengthAssumption, LengthPower DEF Length
<1>2. RotatedLeft(v, 0, XLEN) = v
  BY <1>1, WholeTurn
<1>3. Filled(v, 0, fill) = v
  <2>1. XLEN - 0 = XLEN /\ Truncate(v, XLEN) = v /\ v \in Int
    BY <1>1, TruncateOfWord DEF Word
  <2> QED
    BY <1>1, <2>1 DEF Filled
<1> QED
  BY <1>2, <1>3 DEF Moved, Filled

\* The network's moves add up.
LEMMA MovesAdd ==
    ASSUME NEW op, NEW v \in Word(XLEN), NEW fill \in {0, 1}, NEW a \in Nat, NEW b \in Nat,
           NEW k, k = a + b, k <= XLEN
    PROVE  Moved(op, Moved(op, v, a, fill), b, fill) = Moved(op, v, k, fill)
<1>1. CASE op \in Datapath!Rotate
  <2>1. XLEN \in Length
    BY LengthAssumption DEF Length
  <2> QED
    BY <1>1, <2>1, RotationsAdd DEF Moved
<1>2. CASE op \notin Datapath!Rotate
  <2>1. \A x, n : Moved(op, x, n, fill) = Filled(x, n, fill)
    BY <1>2 DEF Moved, Filled
  <2> QED
    BY <2>1, FilledAdds
<1> QED
  BY <1>1, <1>2

\* Before each stage the network has moved its input by the lower bits of the count.
LEMMA NetworkMoves ==
    ASSUME NEW op, NEW source, NEW count, NEW w, NEW in \in Word(XLEN),
           NEW n \in 0 .. XLEN - 1, NEW fill \in {0, 1},
           in = Datapath!NetworkInput(op, source, w), n = Datapath!NetworkCount(op, count, w),
           fill = IF op = "ASR" /\ SignSet(source, w) THEN 1 ELSE 0
    PROVE  \A s \in 0 .. Stages :
              Datapath!Network(op, source, count, w)[s] = Moved(op, in, n % 2^s, fill)
<1> DEFINE c == [s \in 0 .. Stages |-> Moved(op, in, n % 2^s, fill)]
           f == CHOOSE f : NetworkStages(f, op, in, n, fill)
<1>1. Stages \in Nat /\ XLEN \in Nat
  BY WidthAssumption, LengthAssumption
<1>2. c[0] = in
  BY <1>1, CountStages, NoMove
<1>3. ASSUME NEW s \in 0 .. Stages - 1
      PROVE  c[s + 1] = IF Bit(n, s) = 1 THEN Moved(op, c[s], 2^s, fill) ELSE c[s]
  <2>1. s \in 0 .. Stages /\ s + 1 \in 0 .. Stages
    BY <1>1
  <2>2. c[s] = Moved(op, in, n % 2^s, fill) /\ c[s + 1] = Moved(op, in, n % 2^(s + 1), fill)
    BY <2>1
  <2>3. CASE Bit(n, s) = 1
    <3>1. PICK a \in Nat, b \in Nat, k \in Nat :
              a = n % 2^s /\ b = 2^s /\ n % 2^(s + 1) = k /\ k = a + b /\ k <= XLEN
      BY <1>1, <2>3, CountStages
    <3>2. Moved(op, Moved(op, in, a, fill), b, fill) = Moved(op, in, k, fill)
      BY <3>1, MovesAdd
    <3> HIDE DEF c
    <3> QED
      BY <2>2, <2>3, <3>1, <3>2
  <2>4. CASE Bit(n, s) # 1
    <3>1. n % 2^(s + 1) = n % 2^s
      BY <2>4, CountStages
    <3> HIDE DEF c
    <3> QED
      BY <2>2, <2>4, <3>1
  <2> QED
    BY <2>3, <2>4
<1>4. NetworkStages(c, op, in, n, fill)
  <2>1. ASSUME NEW s \in 0 .. Stages
        PROVE  c[s] = IF s = 0 THEN in
                      ELSE IF Bit(n, s - 1) = 1 THEN Moved(op, c[s - 1], 2^(s - 1), fill)
                      ELSE c[s - 1]
    <3> HIDE DEF c
    <3>1. CASE s = 0
      BY <1>2, <3>1
    <3>2. CASE s # 0
      <4>1. PICK t \in 0 .. Stages - 1 : t = s - 1 /\ s = t + 1
        BY <1>1, <3>2
      <4> QED
        BY <1>3, <3>2, <4>1
    <3> QED
      BY <3>1, <3>2
  <2>2. c = [s \in 0 .. Stages |-> c[s]]
    OBVIOUS
  <2> HIDE DEF c
  <2> QED
    BY <2>1, <2>2 DEF NetworkStages
<1>5. NetworkStages(f, op, in, n, fill)
  <2> HIDE DEF c
  <2> QED
    BY <1>4
<1>6. Datapath!Network(op, source, count, w) = f
  BY DEF Datapath!Network, NetworkStages, Moved, Datapath!Bit, Bit, Datapath!RotatedLeft,
     RotatedLeft, Datapath!Truncate, Truncate, Datapath!SignSet, SignSet
<1> HIDE DEF f, c
<1>7. f[0] = c[0]
  BY <1>1, <1>2, <1>5 DEF NetworkStages
<1>8. ASSUME NEW s \in 0 .. Stages - 1, f[s] = c[s] PROVE f[s + 1] = c[s + 1]
  <2>1. s + 1 \in 0 .. Stages /\ s + 1 # 0 /\ (s + 1) - 1 = s
    BY <1>1
  <2>2. f[s + 1] = IF Bit(n, s) = 1 THEN Moved(op, f[s], 2^s, fill) ELSE f[s]
    BY <1>5, <2>1 DEF NetworkStages
  <2> QED
    BY <1>3, <1>8, <2>2
<1>9. \A s \in 0 .. Stages : f[s] = c[s]
  BY <1>7, <1>8, StagesAgree
<1> QED
  BY <1>6, <1>9 DEF c

\* f is the value of a rotating barrel before each stage.
RotatingStages(f, v, w, n) ==
    f = [s \in 0 .. Stages |->
            IF s > 0 /\ Bit(n, s - 1) = 1 THEN RotatedLeft(f[s - 1], 2^(s - 1), w)
            ELSE IF s > 0 THEN f[s - 1] ELSE v]

\* A rotating barrel rotates by its count.
LEMMA BarrelRotates ==
    ASSUME NEW w \in Length, NEW v \in Word(w), NEW n \in 0 .. XLEN - 1, n <= w
    PROVE  Reference!BarrelRotateLeft(v, n, w) = RotatedLeft(v, n, w)
<1> DEFINE c == [s \in 0 .. Stages |-> RotatedLeft(v, n % 2^s, w)]
           f == CHOOSE f : RotatingStages(f, v, w, n)
<1>1. Stages \in Nat /\ XLEN \in Nat
  BY WidthAssumption, LengthAssumption
<1>2. c[0] = v
  BY <1>1, CountStages, WholeTurn
<1>3. ASSUME NEW s \in 0 .. Stages - 1
      PROVE  c[s + 1] = IF Bit(n, s) = 1 THEN RotatedLeft(c[s], 2^s, w) ELSE c[s]
  <2>1. s \in 0 .. Stages /\ s + 1 \in 0 .. Stages
    BY <1>1
  <2>2. c[s] = RotatedLeft(v, n % 2^s, w) /\ c[s + 1] = RotatedLeft(v, n % 2^(s + 1), w)
    BY <2>1
  <2>3. CASE Bit(n, s) = 1
    <3>1. PICK a \in Nat, b \in Nat, k \in Nat :
              /\ a = n % 2^s /\ b = 2^s /\ n % 2^(s + 1) = k
              /\ k = a + b /\ k <= n /\ k <= XLEN
      BY <1>1, <2>3, CountStages
    <3>2. RotatedLeft(RotatedLeft(v, a, w), b, w) = RotatedLeft(v, k, w)
      BY <3>1, LengthPower, RotationsAdd
    <3> HIDE DEF c
    <3> QED
      BY <2>2, <2>3, <3>1, <3>2
  <2>4. CASE Bit(n, s) # 1
    <3>1. n % 2^(s + 1) = n % 2^s
      BY <2>4, CountStages
    <3> HIDE DEF c
    <3> QED
      BY <2>2, <2>4, <3>1
  <2> QED
    BY <2>3, <2>4
<1>4. RotatingStages(c, v, w, n)
  <2>1. ASSUME NEW s \in 0 .. Stages
        PROVE  c[s] = IF s > 0 /\ Bit(n, s - 1) = 1 THEN RotatedLeft(c[s - 1], 2^(s - 1), w)
                      ELSE IF s > 0 THEN c[s - 1] ELSE v
    <3> HIDE DEF c
    <3>1. CASE s = 0
      BY <1>2, <3>1
    <3>2. CASE s # 0
      <4>1. PICK t \in 0 .. Stages - 1 : t = s - 1 /\ s = t + 1 /\ s > 0
        BY <1>1, <3>2
      <4> QED
        BY <1>3, <4>1
    <3> QED
      BY <3>1, <3>2
  <2>2. c = [s \in 0 .. Stages |-> c[s]]
    OBVIOUS
  <2> HIDE DEF c
  <2> QED
    BY <2>1, <2>2 DEF RotatingStages
<1>5. RotatingStages(f, v, w, n)
  <2> HIDE DEF c
  <2> QED
    BY <1>4
<1>6. Reference!BarrelRotateLeft(v, n, w) = f[Stages]
  BY DEF Reference!BarrelRotateLeft, Reference!Barrel, RotatingStages, Reference!Bit, Bit,
     Reference!RotatedLeft, RotatedLeft, Reference!Truncate, Truncate
<1>7. c[Stages] = RotatedLeft(v, n, w)
  BY <1>1, CountStages
<1> HIDE DEF f, c
<1>8. f[0] = c[0]
  BY <1>1, <1>2, <1>5 DEF RotatingStages
<1>9. ASSUME NEW s \in 0 .. Stages - 1, f[s] = c[s] PROVE f[s + 1] = c[s + 1]
  <2>1. s + 1 \in 0 .. Stages /\ s + 1 > 0 /\ (s + 1) - 1 = s
    BY <1>1
  <2>2. f[s + 1] = IF Bit(n, s) = 1 THEN RotatedLeft(f[s], 2^s, w) ELSE f[s]
    BY <1>5, <2>1 DEF RotatingStages
  <2> QED
    BY <1>3, <1>9, <2>2
<1>10. f[Stages] = c[Stages]
  BY <1>1, <1>8, <1>9, StagesAgree
<1> QED
  BY <1>6, <1>7, <1>10

\* f is the value of a barrel that shifts to the left before each stage.
LeftStages(f, v, w, n) ==
    f = [s \in 0 .. Stages |->
            IF s > 0 /\ Bit(n, s - 1) = 1 THEN Truncate(f[s - 1] * 2^(2^(s - 1)), w)
            ELSE IF s > 0 THEN f[s - 1] ELSE v]

\* A barrel that shifts an operand to the left shifts it by its count.
LEMMA BarrelShiftsLeft ==
    ASSUME NEW w \in Length, NEW v \in Word(w), NEW n \in 0 .. XLEN - 1
    PROVE  Reference!BarrelShiftLeft(v, n, w) = Truncate(v * 2^n, w)
<1> DEFINE c == [s \in 0 .. Stages |-> Truncate(v * 2^(n % 2^s), w)]
           f == CHOOSE f : LeftStages(f, v, w, n)
<1>1. Stages \in Nat /\ XLEN \in Nat
  BY WidthAssumption, LengthAssumption
<1>2. c[0] = v
  <2>1. v * 2^0 = v /\ Truncate(v, w) = v
    BY LengthPower, TruncateOfWord DEF Word
  <2>2. c[0] = Truncate(v * 2^(n % 2^0), w)
    BY <1>1
  <2>3. n % 2^0 = 0
    BY CountStages
  <2> HIDE DEF c
  <2> QED
    BY <2>1, <2>2, <2>3, ZenonT(40)
<1>3. ASSUME NEW s \in 0 .. Stages - 1
      PROVE  c[s + 1] = IF Bit(n, s) = 1 THEN Truncate(c[s] * 2^(2^s), w) ELSE c[s]
  <2>1. s \in 0 .. Stages /\ s + 1 \in 0 .. Stages
    BY <1>1
  <2>2. c[s] = Truncate(v * 2^(n % 2^s), w) /\ c[s + 1] = Truncate(v * 2^(n % 2^(s + 1)), w)
    BY <2>1
  <2>3. CASE Bit(n, s) = 1
    <3>1. PICK a \in Nat, b \in Nat, k \in Nat :
              /\ a = n % 2^s /\ b = 2^s /\ n % 2^(s + 1) = k
              /\ k = a + b /\ k <= n /\ k <= XLEN
      BY <1>1, <2>3, CountStages
    <3>2. Truncate(Truncate(v * 2^a, w) * 2^b, w) = Truncate(v * 2^k, w)
      BY <3>1, DroppedAdds, LengthPower DEF Word
    <3> HIDE DEF c
    <3> QED
      BY <2>2, <2>3, <3>1, <3>2
  <2>4. CASE Bit(n, s) # 1
    <3>1. n % 2^(s + 1) = n % 2^s
      BY <2>4, CountStages
    <3> HIDE DEF c
    <3> QED
      BY <2>2, <2>4, <3>1
  <2> QED
    BY <2>3, <2>4
<1>4. LeftStages(c, v, w, n)
  <2>1. ASSUME NEW s \in 0 .. Stages
        PROVE  c[s] = IF s > 0 /\ Bit(n, s - 1) = 1 THEN Truncate(c[s - 1] * 2^(2^(s - 1)), w)
                      ELSE IF s > 0 THEN c[s - 1] ELSE v
    <3> HIDE DEF c
    <3>1. CASE s = 0
      BY <1>2, <3>1
    <3>2. CASE s # 0
      <4>1. PICK t \in 0 .. Stages - 1 : t = s - 1 /\ s = t + 1 /\ s > 0
        BY <1>1, <3>2
      <4> QED
        BY <1>3, <4>1
    <3> QED
      BY <3>1, <3>2
  <2>2. c = [s \in 0 .. Stages |-> c[s]]
    OBVIOUS
  <2> HIDE DEF c
  <2> QED
    BY <2>1, <2>2 DEF LeftStages
<1>5. LeftStages(f, v, w, n)
  <2> HIDE DEF c
  <2> QED
    BY <1>4
<1>6. Reference!BarrelShiftLeft(v, n, w) = f[Stages]
  BY DEF Reference!BarrelShiftLeft, Reference!Barrel, LeftStages, Reference!Bit, Bit,
     Reference!Truncate, Truncate
<1>7. c[Stages] = Truncate(v * 2^n, w)
  <2>1. c[Stages] = Truncate(v * 2^(n % 2^Stages), w)
    BY <1>1
  <2>2. n % 2^Stages = n
    BY CountStages
  <2> HIDE DEF c
  <2> QED
    BY <2>1, <2>2, ZenonT(40)
<1> HIDE DEF f, c
<1>8. f[0] = c[0]
  BY <1>1, <1>2, <1>5 DEF LeftStages
<1>9. ASSUME NEW s \in 0 .. Stages - 1, f[s] = c[s] PROVE f[s + 1] = c[s + 1]
  <2>1. s + 1 \in 0 .. Stages /\ s + 1 > 0 /\ (s + 1) - 1 = s
    BY <1>1
  <2>2. f[s + 1] = IF Bit(n, s) = 1 THEN Truncate(f[s] * 2^(2^s), w) ELSE f[s]
    BY <1>5, <2>1 DEF LeftStages
  <2> QED
    BY <1>3, <1>9, <2>2
<1>10. f[Stages] = c[Stages]
  BY <1>1, <1>8, <1>9, StagesAgree
<1> QED
  BY <1>6, <1>7, <1>10

\* f is the value of a barrel that shifts to the right before each stage.
RightStages(f, v, fill, n) ==
    f = [s \in 0 .. Stages |->
            IF s > 0 /\ Bit(n, s - 1) = 1 THEN FilledRight(f[s - 1], 2^(s - 1), fill)
            ELSE IF s > 0 THEN f[s - 1] ELSE v]

\* A barrel that shifts a register to the right shifts it by its count.
LEMMA BarrelShiftsRight ==
    ASSUME NEW v \in Word(XLEN), NEW fill \in {0, 1}, NEW n \in 0 .. XLEN - 1
    PROVE  Reference!BarrelShiftRight(v, fill, n) = FilledRight(v, n, fill)
<1> DEFINE c == [s \in 0 .. Stages |-> FilledRight(v, n % 2^s, fill)]
           f == CHOOSE f : RightStages(f, v, fill, n)
<1>1. Stages \in Nat /\ XLEN \in Nat
  BY WidthAssumption, LengthAssumption
<1>2. c[0] = v
  <2>1. v \div 2^0 = v /\ 2^0 - 1 = 0 /\ 2^(XLEN - 0) \in Nat
    <3>1. XLEN \in Length /\ XLEN - 0 = XLEN /\ 2^0 = 1
      BY <1>1 DEF Length
    <3>2. 2^XLEN \in Nat
      BY <3>1, LengthPower
    <3> QED
      BY <3>1, <3>2 DEF Word
  <2>2. FilledRight(v, 0, fill) = v
    <3>1. v \in Int
      BY <2>1, LengthPower, <1>1 DEF Word, Length
    <3> QED
      BY <2>1, <3>1 DEF FilledRight
  <2> QED
    BY <1>1, <2>2, CountStages
<1>3. ASSUME NEW s \in 0 .. Stages - 1
      PROVE  c[s + 1] = IF Bit(n, s) = 1 THEN FilledRight(c[s], 2^s, fill) ELSE c[s]
  <2>1. s \in 0 .. Stages /\ s + 1 \in 0 .. Stages
    BY <1>1
  <2>2. c[s] = FilledRight(v, n % 2^s, fill) /\ c[s + 1] = FilledRight(v, n % 2^(s + 1), fill)
    BY <2>1
  <2>3. CASE Bit(n, s) = 1
    <3>1. PICK a \in Nat, b \in Nat, k \in Nat :
              /\ a = n % 2^s /\ b = 2^s /\ n % 2^(s + 1) = k
              /\ k = a + b /\ k <= n /\ k <= XLEN
      BY <1>1, <2>3, CountStages
    <3>2. FilledRight(FilledRight(v, a, fill), b, fill) = FilledRight(v, k, fill)
      BY <3>1, FilledRightAdds
    <3> HIDE DEF c
    <3> QED
      BY <2>2, <2>3, <3>1, <3>2
  <2>4. CASE Bit(n, s) # 1
    <3>1. n % 2^(s + 1) = n % 2^s
      BY <2>4, CountStages
    <3> HIDE DEF c
    <3> QED
      BY <2>2, <2>4, <3>1
  <2> QED
    BY <2>3, <2>4
<1>4. RightStages(c, v, fill, n)
  <2>1. ASSUME NEW s \in 0 .. Stages
        PROVE  c[s] = IF s > 0 /\ Bit(n, s - 1) = 1 THEN FilledRight(c[s - 1], 2^(s - 1), fill)
                      ELSE IF s > 0 THEN c[s - 1] ELSE v
    <3> HIDE DEF c
    <3>1. CASE s = 0
      BY <1>2, <3>1
    <3>2. CASE s # 0
      <4>1. PICK t \in 0 .. Stages - 1 : t = s - 1 /\ s = t + 1 /\ s > 0
        BY <1>1, <3>2
      <4> QED
        BY <1>3, <4>1
    <3> QED
      BY <3>1, <3>2
  <2>2. c = [s \in 0 .. Stages |-> c[s]]
    OBVIOUS
  <2> HIDE DEF c
  <2> QED
    BY <2>1, <2>2 DEF RightStages
<1>5. RightStages(f, v, fill, n)
  <2> HIDE DEF c
  <2> QED
    BY <1>4
<1>6. Reference!BarrelShiftRight(v, fill, n) = f[Stages]
  BY DEF Reference!BarrelShiftRight, Reference!Barrel, RightStages, FilledRight, Reference!Bit, Bit
<1>7. c[Stages] = FilledRight(v, n, fill)
  BY <1>1, CountStages
<1> HIDE DEF f, c
<1>8. f[0] = c[0]
  BY <1>1, <1>2, <1>5 DEF RightStages
<1>9. ASSUME NEW s \in 0 .. Stages - 1, f[s] = c[s] PROVE f[s + 1] = c[s + 1]
  <2>1. s + 1 \in 0 .. Stages /\ s + 1 > 0 /\ (s + 1) - 1 = s
    BY <1>1
  <2>2. f[s + 1] = IF Bit(n, s) = 1 THEN FilledRight(f[s], 2^s, fill) ELSE f[s]
    BY <1>5, <2>1 DEF RightStages
  <2> QED
    BY <1>3, <1>9, <2>2
<1>10. f[Stages] = c[Stages]
  BY <1>1, <1>8, <1>9, StagesAgree
<1> QED
  BY <1>6, <1>7, <1>10

-----------------------------------------------------------------------------
(* What the network computes.                                              *)

\* A single bit is its own reversal.
LEMMA BitReversed == \A bit \in {0, 1} : Reversed(bit, 1) = bit
<1> TAKE bit \in {0, 1}
<1>1. Reversed(bit, 0 + 1) = 2 * Reversed(bit, 0) + Bit(bit, 0)
  BY NextReversed
<1>2. Bit(bit, 0) = bit
  <2>1. 2^0 = 1
    OBVIOUS
  <2> QED
    BY <2>1 DEF Bit
<1> QED
  BY <1>1, <1>2, NothingReversed

\* Copies of a bit are their own reversal.
LEMMA CopiesReversed ==
    ASSUME NEW fill \in {0, 1}
    PROVE  \A n \in Length : Reversed(fill * (2^n - 1), n) = fill * (2^n - 1)
<1> DEFINE S == {n \in Nat : n \in Length => Reversed(fill * (2^n - 1), n) = fill * (2^n - 1)}
<1>1. 0 \in S
  <2>1. fill * (2^0 - 1) = 0
    OBVIOUS
  <2> QED
    BY <2>1, NothingReversed
<1>2. ASSUME NEW n \in Nat, n \in S PROVE n + 1 \in S
  <2>1. CASE n + 1 \in Length
    <3>1. PICK whole \in Length, one \in Nat : one = 1 /\ whole = n + one /\ whole = n + 1
      BY <2>1
    <3>2. n \in Length /\ 2^n \in Nat \ {0} /\ 2^one = 2 /\ 2^whole = 2 * 2^n
      <4>1. n \in Length /\ 2^n \in Nat \ {0} /\ 2^whole = 2^n * 2^one
        BY <3>1, PartPowers
      <4>2. 2^one = 2
        BY <3>1
      <4> QED
        BY <4>1, <4>2
    <3>3. PICK ones \in Int : ones = fill * (2^n - 1) /\ ones \in Word(n)
      BY <3>2, CopiesAreWord
    <3>4. Reversed(ones, n) = ones
      BY <1>2, <3>2, <3>3
    <3>5. Reversed(fill * 2^n + ones, whole) = Reversed(ones, n) * 2^one + Reversed(fill, one)
      <4>1. \A k \in Nat, w \in Length : w = n + k =>
               Reversed(fill * 2^n + ones, w) = Reversed(ones, n) * 2^k + Reversed(fill, k)
        BY <3>2, <3>3, ReversalExchanges
      <4> QED
        BY <3>1, <4>1
    <3>6. Reversed(fill, one) = fill
      BY <3>1, BitReversed
    <3>7. fill * 2^n + ones = fill * (2^whole - 1) /\ ones * 2 + fill = fill * (2^whole - 1)
      BY <3>2, <3>3
    <3> QED
      BY <3>1, <3>2, <3>4, <3>5, <3>6, <3>7
  <2> QED
    BY <2>1
<1> HIDE DEF S
<1>3. \A n \in Nat : n \in S
  BY <1>1, <1>2, NaturalInduction
<1> QED
  BY <1>3, LengthPower DEF S

\* Reversed, a shift to the left of the reversed register is one to the right.
LEMMA ReversedFill ==
    ASSUME NEW v \in Word(XLEN), NEW fill \in {0, 1}, NEW k \in 0 .. XLEN
    PROVE  Reversed(Filled(Reversed(v, XLEN), k, fill), XLEN) = FilledRight(v, k, fill)
<1>1. XLEN \in Nat /\ XLEN \in Length /\ k \in Nat
  BY LengthAssumption DEF Length
<1>2. PICK m \in Nat : m = XLEN - k /\ XLEN = k + m /\ XLEN = m + k
  BY <1>1
<1>3. k \in Length /\ m \in Length
  BY <1>1, <1>2, PartPowers
<1>4. PICK low \in Word(k), high \in Word(m) : v = high * 2^k + low
  BY <1>1, <1>2, WordSplits
<1>5. low \in Int /\ high \in Int
  BY <1>3, LengthPower DEF Word
<1>6. Reversed(v, XLEN) = Reversed(low, k) * 2^m + Reversed(high, m)
  BY <1>1, <1>2, <1>3, <1>4, <1>5, ReversalExchanges
<1>7. PICK rl \in Int, rh \in Int :
          rl = Reversed(low, k) /\ rh = Reversed(high, m) /\ rh \in Word(m)
  <2>1. Reversed(low, k) \in Word(k) /\ Reversed(high, m) \in Word(m)
    BY <1>3, <1>5, ReversedIsWord
  <2> QED
    BY <1>3, <2>1, LengthPower DEF Word
<1>8. PICK ones \in Int :
          ones = fill * (2^k - 1) /\ ones \in Word(k) /\ Reversed(ones, k) = ones
  <2>1. fill * (2^k - 1) \in Word(k) /\ fill * (2^k - 1) \in Int
    BY <1>3, LengthPower, CopiesAreWord
  <2>2. Reversed(fill * (2^k - 1), k) = fill * (2^k - 1)
    BY <1>3, CopiesReversed
  <2> QED
    BY <2>1, <2>2
<1>9. Filled(Reversed(v, XLEN), k, fill) = rh * 2^k + ones
  <2>1. (rl * 2^m + rh) % 2^m = rh
    BY <1>3, <1>7, PartsOfJoin
  <2> QED
    BY <1>2, <1>6, <1>7, <1>8, <2>1 DEF Filled, Truncate
<1>10. Reversed(rh * 2^k + ones, XLEN) = Reversed(ones, k) * 2^m + Reversed(rh, m)
  BY <1>1, <1>2, <1>3, <1>7, <1>8, ReversalExchanges
<1>11. Reversed(rh, m) = high
  BY <1>3, <1>7, ReversedTwice
<1>12. v \div 2^k = high
  BY <1>3, <1>4, <1>5, PartsOfJoin
<1>13. 2^m \in Nat
  BY <1>3, LengthPower
<1>14. FilledRight(v, k, fill) = high + ones * 2^m
  BY <1>2, <1>8, <1>12 DEF FilledRight
<1> QED
  BY <1>5, <1>8, <1>9, <1>10, <1>11, <1>13, <1>14

\* A register shifted to the left and one whose upper bits are kept have the same lower bits.
LEMMA LowerBitsOfShift ==
    ASSUME NEW w \in 1 .. XLEN, NEW v \in Word(XLEN), NEW k \in 0 .. XLEN
    PROVE  Truncate(Truncate(v, XLEN - k) * 2^k, w) = Truncate(v * 2^k, w)
<1>1. XLEN \in Nat /\ XLEN \in Length /\ k \in Nat /\ w \in Nat
  BY WidthPowers DEF Length
<1>2. PICK m \in Nat, rest \in Nat : m = XLEN - k /\ XLEN = m + k /\ XLEN = w + rest
  BY <1>1
<1>3. PICK low \in Word(m), high \in Word(k) : v = high * 2^m + low
  <2>1. m \in Nat /\ k \in Nat /\ XLEN \in Length /\ XLEN = m + k
    BY <1>1, <1>2
  <2> QED
    BY <2>1, WordSplits
<1>4. PICK pm \in Nat \ {0}, pk \in Nat \ {0}, pw \in Nat \ {0}, pr \in Nat \ {0} :
          pm = 2^m /\ pk = 2^k /\ pw = 2^w /\ pr = 2^rest /\ pm * pk = pw * pr
  <2>1. 2^m \in Nat \ {0} /\ 2^k \in Nat \ {0} /\ 2^XLEN = 2^m * 2^k
    BY <1>1, <1>2, PartPowers
  <2>2. 2^w \in Nat \ {0} /\ 2^rest \in Nat \ {0} /\ 2^XLEN = 2^w * 2^rest
    BY <1>1, <1>2, PartPowers
  <2> QED
    BY <2>1, <2>2
<1>5. low \in Int /\ high \in Int /\ m \in Length
  <2>1. m \in Length
    BY <1>1, <1>2, PartPowers
  <2> QED
    BY <1>3, <1>4, <2>1 DEF Word
<1>6. Truncate(v, m) = low
  BY <1>3, <1>5, PartsOfJoin DEF Truncate
<1>7. PICK j \in Int, x \in Int : j = pr * high /\ x = low * pk
  BY <1>4, <1>5
<1>8. v * pk = x + pw * j
  <2>1. (high * pm + low) * pk = low * pk + (pm * pk) * high
    BY <1>4, <1>5
  <2>2. (pw * pr) * high = pw * (pr * high)
    BY <1>4, <1>5
  <2> QED
    BY <1>3, <1>4, <1>7, <2>1, <2>2
<1>9. (x + pw * j) % pw = x % pw
  BY <1>4, <1>7, RemainderOfSum
<1> QED
  BY <1>2, <1>4, <1>6, <1>7, <1>8, <1>9 DEF Truncate

\* The operators of the two circuits and of the model are those of Bits.
LEMMA SameBits ==
    /\ \A v, i : Datapath!Truncate(v, i) = Truncate(v, i) /\ Datapath!Bit(v, i) = Bit(v, i)
                 /\ Datapath!SignSet(v, i) = SignSet(v, i) /\ Datapath!AsSigned(v, i) = AsSigned(v, i)
                 /\ Datapath!Reversed(v, i) = Reversed(v, i)
    /\ \A v, i : Model!Truncate(v, i) = Truncate(v, i) /\ Model!Bit(v, i) = Bit(v, i)
                 /\ Model!SignSet(v, i) = SignSet(v, i) /\ Model!AsSigned(v, i) = AsSigned(v, i)
    /\ \A v, i : Reference!Truncate(v, i) = Truncate(v, i) /\ Reference!Bit(v, i) = Bit(v, i)
                 /\ Reference!SignSet(v, i) = SignSet(v, i)
                 /\ Reference!Reversed(v, i) = Reversed(v, i)
    /\ \A v, k, i : Model!RotatedLeft(v, k, i) = RotatedLeft(v, k, i)
<1> QED
  BY DEF Datapath!Truncate, Truncate, Datapath!Bit, Bit, Datapath!SignSet, SignSet,
     Datapath!AsSigned, AsSigned, Datapath!Reversed, Reversed, Model!Truncate, Model!Bit,
     Model!SignSet, Model!AsSigned, Reference!Truncate, Reference!Bit, Reference!SignSet,
     Reference!Reversed, Model!RotatedLeft, RotatedLeft

\* The operand in a register's low bits is one of the register's values.
LEMMA OperandIsWord ==
    ASSUME NEW w \in 1 .. XLEN, NEW source \in Int
    PROVE  /\ Truncate(source, w) \in Word(w) /\ Truncate(source, w) \in Word(XLEN)
           /\ Truncate(source, w) \in Int /\ Truncate(source, w) >= 0
<1>1. Truncate(source, w) \in Word(w)
  BY WidthPowers, TruncateIsWord
<1> QED
  BY <1>1, WidthPowers DEF Word

\* The network shifts to the left, stage by stage.
LEMMA LeftShifts ==
    ASSUME NEW op \in {"ASL", "LSL"}, NEW source \in Int, NEW n \in 0 .. XLEN - 1,
           NEW w \in 1 .. XLEN
    PROVE  /\ \A s \in 0 .. Stages :
                 Truncate(Datapath!Network(op, source, n, w)[s], w)
                     = Truncate(Truncate(source, w) * 2^(n % 2^s), w)
           /\ Datapath!FastShift(op, source, n, w).result
                  = Truncate(Truncate(source, w) * 2^n, w)
<1> DEFINE u == Truncate(source, w)
<1>1. u \in Word(XLEN) /\ u \in Int
  BY OperandIsWord
<1>2. Datapath!NetworkInput(op, source, w) = u /\ Datapath!NetworkCount(op, n, w) = n
  BY SameBits DEF Datapath!NetworkInput, Datapath!NetworkCount, Datapath!Facing,
     Datapath!ShiftsRight, Datapath!Rotate
<1> HIDE DEF u
<1>3. \A s \in 0 .. Stages : Datapath!Network(op, source, n, w)[s] = Moved(op, u, n % 2^s, 0)
  <2>1. 0 = IF op = "ASR" /\ SignSet(source, w) THEN 1 ELSE 0
    OBVIOUS
  <2> QED
    BY <1>1, <1>2, <2>1, NetworkMoves
<1>4. ASSUME NEW s \in 0 .. Stages
      PROVE  Truncate(Datapath!Network(op, source, n, w)[s], w) = Truncate(u * 2^(n % 2^s), w)
  <2>1. PICK k \in 0 .. XLEN : k = n % 2^s
    <3>1. n % 2^s \in Nat /\ n % 2^s <= n /\ n \in Nat /\ n <= XLEN /\ XLEN \in Nat
      <4>1. s \in Nat /\ s + 0 <= XLEN + Stages + 1 /\ XLEN \in Nat
        BY WidthAssumption, LengthAssumption
      <4>2. PICK p \in Nat \ {0} : p = 2^s
        BY <4>1, StagePowersAdd
      <4> QED
        BY <4>1, <4>2
    <3> QED
      BY <3>1
  <2>2. Moved(op, u, k, 0) = Truncate(u, XLEN - k) * 2^k
    <3>1. XLEN \in Nat /\ k \in Length /\ XLEN - k \in Length
      BY LengthAssumption DEF Length
    <3>2. PICK p \in Nat \ {0}, x \in Int : p = 2^k /\ x = Truncate(u, XLEN - k)
      <4>1. 2^k \in Nat \ {0} /\ 2^(XLEN - k) \in Nat \ {0}
        BY <3>1, LengthPower
      <4>2. Truncate(u, XLEN - k) \in Int
        BY <1>1, <4>1 DEF Truncate
      <4> QED
        BY <4>1, <4>2
    <3>3. x * p + 0 * (p - 1) = x * p
      BY <3>2
    <3> QED
      BY <3>2, <3>3 DEF Moved, Datapath!Rotate
  <2>3. Truncate(Truncate(u, XLEN - k) * 2^k, w) = Truncate(u * 2^k, w)
    BY <1>1, LowerBitsOfShift
  <2> QED
    BY <1>3, <2>1, <2>2, <2>3
<1>5. Datapath!FastShift(op, source, n, w).result
          = Truncate(Datapath!Network(op, source, n, w)[Stages], w)
  BY SameBits DEF Datapath!FastShift, Datapath!Facing, Datapath!ShiftsRight
<1>6. n % 2^Stages = n /\ Stages \in 0 .. Stages
  BY CountStages, WidthAssumption
<1>7. Truncate(Datapath!Network(op, source, n, w)[Stages], w) = Truncate(u * 2^n, w)
  BY <1>4, <1>6
<1> QED
  BY <1>4, <1>5, <1>7 DEF u

\* The register the network shifts to the right: the operand or its sign extension.
Extended(op, source, w) ==
    IF op = "ASR" THEN AsSigned(source, w) % 2^XLEN ELSE Truncate(source, w)

ShiftedIn(op, source, w) == IF op = "ASR" /\ SignSet(source, w) THEN 1 ELSE 0

\* It is a register.
LEMMA ExtendedIsWord ==
    ASSUME NEW op, NEW source \in Int, NEW w \in 1 .. XLEN
    PROVE  /\ Extended(op, source, w) \in Word(XLEN)
           /\ ShiftedIn(op, source, w) \in {0, 1}
<1>1. AsSigned(source, w) \in Int
  <2>1. 2^w \in Nat \ {0} /\ Truncate(source, w) \in Int
    BY WidthPowers, OperandIsWord
  <2> QED
    BY <2>1 DEF AsSigned
<1>2. AsSigned(source, w) % 2^XLEN \in Word(XLEN)
  BY <1>1, WidthPowers, TruncateIsWord DEF Truncate
<1> QED
  BY <1>2, OperandIsWord DEF Extended, ShiftedIn

\* The network shifts to the right.
LEMMA RightShifts ==
    ASSUME NEW op \in {"ASR", "LSR"}, NEW source \in Int, NEW n \in 0 .. XLEN - 1,
           NEW w \in 1 .. XLEN
    PROVE  Datapath!FastShift(op, source, n, w).result
               = Truncate(FilledRight(Extended(op, source, w), n, ShiftedIn(op, source, w)), w)
<1> DEFINE x == Extended(op, source, w)
           fill == ShiftedIn(op, source, w)
           in == Reversed(x, XLEN)
<1>1. x \in Word(XLEN) /\ fill \in {0, 1}
  BY ExtendedIsWord
<1>2. XLEN \in Length /\ x \in Int /\ in \in Word(XLEN)
  <2>1. XLEN \in Length /\ x \in Int
    BY <1>1, WidthPowers DEF Word
  <2> HIDE DEF x
  <2> QED
    BY <2>1, ReversedIsWord
<1>3. Datapath!NetworkInput(op, source, w) = in /\ Datapath!NetworkCount(op, n, w) = n
  BY SameBits DEF Datapath!NetworkInput, Datapath!NetworkCount, Datapath!Facing,
     Datapath!ShiftsRight, Datapath!Rotate, Extended
<1>4. fill = IF op = "ASR" /\ SignSet(source, w) THEN 1 ELSE 0
  BY DEF ShiftedIn
<1> HIDE DEF in, fill, x
<1>5. Datapath!Network(op, source, n, w)[Stages] = Filled(in, n, fill)
  <2>1. \A s \in 0 .. Stages :
            Datapath!Network(op, source, n, w)[s] = Moved(op, in, n % 2^s, fill)
    BY <1>1, <1>2, <1>3, <1>4, NetworkMoves
  <2>2. n % 2^Stages = n /\ Stages \in 0 .. Stages
    BY CountStages, WidthAssumption
  <2>3. Moved(op, in, n, fill) = Filled(in, n, fill)
    BY DEF Moved, Filled, Datapath!Rotate
  <2> QED
    BY <2>1, <2>2, <2>3
<1>6. Datapath!FastShift(op, source, n, w).result
          = Truncate(Reversed(Datapath!Network(op, source, n, w)[Stages], XLEN), w)
  BY SameBits DEF Datapath!FastShift, Datapath!Facing, Datapath!ShiftsRight
<1>7. Reversed(Filled(in, n, fill), XLEN) = FilledRight(x, n, fill)
  <2>1. n \in 0 .. XLEN
    BY LengthAssumption
  <2> QED
    BY <1>1, <2>1, ReversedFill DEF in
<1> QED
  BY <1>5, <1>6, <1>7 DEF x, fill

-----------------------------------------------------------------------------
(* A register filled with copies of an operand.                            *)

\* Vectors as long as any number of copies, all ones, are multiples of one.
LEMMA OnesDivide ==
    ASSUME NEW w \in 1 .. XLEN
    PROVE  \A d \in Nat : w * d <= XLEN => \E q \in Nat : q * (2^w - 1) = 2^(w * d) - 1
<1> DEFINE S == {d \in Nat : w * d <= XLEN => \E q \in Nat : q * (2^w - 1) = 2^(w * d) - 1}
<1>1. w \in Nat \ {0} /\ XLEN \in Nat /\ XLEN \in Length
  BY WidthPowers
<1>2. PICK pw \in Nat \ {0} : pw = 2^w
  BY WidthPowers
<1>3. 0 \in S
  <2>1. w * 0 = 0
    BY <1>1
  <2>2. 2^0 = 1
    OBVIOUS
  <2>3. 2^(w * 0) = 1
    BY <2>1, <2>2, ZenonT(40)
  <2>4. 0 * (pw - 1) = 0 /\ 1 - 1 = 0 /\ 0 \in Nat
    BY <1>2
  <2>5. 0 * (2^w - 1) = 2^(w * 0) - 1
    BY <1>2, <2>3, <2>4
  <2> QED
    BY <2>4, <2>5
<1>4. ASSUME NEW d \in Nat, d \in S PROVE d + 1 \in S
  <2>1. ASSUME w * (d + 1) <= XLEN
        PROVE  \E q \in Nat : q * (2^w - 1) = 2^(w * (d + 1)) - 1
    <3>1. PICK k \in Nat, next \in Nat :
              /\ k = w * d /\ next = w * (d + 1) /\ next = k + w /\ k <= XLEN
              /\ next \in Length
      <4>1. w * d \in Nat /\ w * (d + 1) = w * d + w /\ w * (d + 1) \in Nat
        BY <1>1
      <4> QED
        BY <1>1, <2>1, <4>1 DEF Length
    <3>2. PICK q \in Nat : q * (2^w - 1) = 2^k - 1
      BY <1>4, <3>1
    <3>3. PICK pk \in Nat \ {0} : pk = 2^k /\ 2^next = pk * pw
      BY <1>1, <1>2, <3>1, PartPowers
    <3>4. q * (pw - 1) = pk - 1
      BY <1>2, <3>2, <3>3
    <3>5. (q * pw + 1) * (pw - 1) = (q * (pw - 1)) * pw + pw - 1
      BY <1>2
    <3>6. (pk - 1) * pw + pw - 1 = pk * pw - 1
      BY <1>2, <3>3
    <3>7. (q * pw + 1) * (2^w - 1) = 2^next - 1 /\ q * pw + 1 \in Nat
      BY <1>2, <3>3, <3>4, <3>5, <3>6
    <3> QED
      BY <3>1, <3>7
  <2> QED
    BY <2>1
<1> HIDE DEF S
<1>5. \A d \in Nat : d \in S
  BY <1>3, <1>4, NaturalInduction
<1> QED
  BY <1>5 DEF S

\* The factor that fills a register with copies of an operand.
Copies(w) == (2^XLEN - 1) \div (2^w - 1)

\* It is a one and the factor for one copy less above it, or below a one at the top.
LEMMA CopiesOfOne ==
    ASSUME NEW w \in 1 .. XLEN, XLEN % w = 0, NEW rest, rest = XLEN - w
    PROVE  /\ rest \in Nat /\ rest \in Length
           /\ \E q \in Nat : /\ q * (2^w - 1) = 2^rest - 1
                              /\ Copies(w) = q * 2^w + 1 /\ Copies(w) = q + 2^rest
<1>1. w \in Nat \ {0} /\ XLEN \in Nat /\ XLEN \in Length /\ w - 1 \in Nat
      /\ 2^(w - 1) \in Nat \ {0} /\ 2^w = 2 * 2^(w - 1)
  BY WidthPowers
<1>2. rest \in Nat /\ XLEN = rest + w /\ XLEN = w + rest
  BY <1>1
<1>3. PICK pw \in Nat \ {0}, pr \in Nat \ {0} : pw = 2^w /\ pr = 2^rest /\ 2^XLEN = pr * pw
  BY <1>1, <1>2, PartPowers
<1>4. pw >= 2
  <2>1. PICK half \in Nat \ {0} : half = 2^(w - 1) /\ 2^w = 2 * half
    BY <1>1
  <2> QED
    BY <1>3, <2>1
<1>5. PICK d \in Nat : rest = w * d
  <2>0. XLEN \in Int
    BY <1>1
  <2>1. PICK k \in Int, x \in 0 .. w - 1 : k = XLEN \div w /\ x = XLEN % w /\ XLEN = w * k + x
    BY <1>1, <2>0, Division, ZenonT(40)
  <2>2. XLEN = w * k
    BY <1>1, <2>1
  <2>3. k >= 1
    <3>1. CASE k <= 0
      <4>1. w * (0 - k) >= 0 /\ w * (0 - k) = 0 - w * k
        BY <1>1, <3>1
      <4> QED
        BY <1>1, <2>2, <4>1
    <3> QED
      BY <2>1, <3>1
  <2>4. k - 1 \in Nat /\ w * (k - 1) = w * k - w
    BY <1>1, <2>3
  <2> QED
    BY <1>1, <2>2, <2>4
<1>6. PICK q \in Nat : q * (2^w - 1) = 2^rest - 1
  <2>1. \A n \in Nat : w * n <= XLEN => \E q \in Nat : q * (2^w - 1) = 2^(w * n) - 1
    BY OnesDivide
  <2>2. w * d <= XLEN
    BY <1>1, <1>5
  <2>3. \E q \in Nat : q * (2^w - 1) = 2^(w * d) - 1
    BY <1>5, <2>1, <2>2
  <2> QED
    BY <1>5, <2>3
<1>7. q * (pw - 1) = pr - 1 /\ q * (pw - 1) = q * pw - q
  BY <1>3, <1>6
<1>8. (pw - 1) * (q * pw + 1) + 0 = pr * pw - 1
  <2>1. (pw - 1) * (q * pw + 1) = (q * (pw - 1)) * pw + pw - 1
    BY <1>3
  <2>2. (pr - 1) * pw + pw - 1 = pr * pw - 1
    BY <1>3
  <2> QED
    BY <1>3, <1>7, <2>1, <2>2
<1>9. PICK c \in Nat, ones \in Nat \ {0} : c = q * pw + 1 /\ ones = pw - 1
  BY <1>3, <1>4
<1>10. (ones * c + 0) \div ones = c
  BY <1>9, DivisionIsUnique
<1>11. Copies(w) = c
  BY <1>3, <1>8, <1>9, <1>10 DEF Copies
<1>12. rest \in Length
  BY <1>1, <1>2, PartPowers
<1> QED
  BY <1>2, <1>3, <1>6, <1>7, <1>9, <1>11, <1>12

\* The copies, the lowest and the highest of which is the operand.
LEMMA CopiedOperand ==
    ASSUME NEW w \in 1 .. XLEN, XLEN % w = 0, NEW u \in Word(w), NEW rest, rest = XLEN - w
    PROVE  /\ u * Copies(w) \in Word(XLEN)
           /\ \E others \in Word(rest) : /\ u * Copies(w) = others * 2^w + u
                                          /\ u * Copies(w) = u * 2^rest + others
<1>1. w \in Nat \ {0} /\ XLEN \in Nat /\ XLEN \in Length /\ rest \in Nat /\ XLEN = rest + w
      /\ XLEN = w + rest
  BY WidthPowers
<1>2. PICK pw \in Nat \ {0}, pr \in Nat \ {0} : pw = 2^w /\ pr = 2^rest
  BY <1>1, PartPowers
<1>3. PICK q \in Nat : q * (pw - 1) = pr - 1 /\ Copies(w) = q * pw + 1 /\ Copies(w) = q + pr
  BY <1>2, CopiesOfOne
<1>4. u \in 0 .. pw - 1
  BY <1>2 DEF Word
<1>5. u * q \in 0 .. pr - 1
  <2>1. (pw - 1 - u) * q >= 0 /\ (pw - 1 - u) * q = q * (pw - 1) - u * q /\ u * q >= 0
        /\ u * q \in Int
    BY <1>2, <1>3, <1>4
  <2> QED
    BY <1>2, <1>3, <2>1
<1>6. PICK others \in Word(rest) : others = u * q
  BY <1>2, <1>5 DEF Word
<1>7. u * (q * pw + 1) = (u * q) * pw + u /\ u * (q + pr) = u * pr + u * q
  BY <1>2, <1>3, <1>4
<1>8. others * 2^w + u \in Word(XLEN)
  BY <1>1, <1>6, JoinIsWord
<1> QED
  BY <1>2, <1>3, <1>6, <1>7, <1>8

\* A rotation by an operand's width leaves the copies as they are.
LEMMA CopiesTurn ==
    ASSUME NEW w \in 1 .. XLEN, XLEN % w = 0, NEW u \in Word(w)
    PROVE  RotatedLeft(u * Copies(w), w, XLEN) = u * Copies(w)
<1>1. PICK rest \in Nat : rest = XLEN - w /\ XLEN = w + rest /\ XLEN \in Length /\ w \in Nat
  BY WidthPowers
<1>2. PICK others \in Word(rest) :
          u * Copies(w) = others * 2^w + u /\ u * Copies(w) = u * 2^rest + others
  BY <1>1, CopiedOperand
<1>3. RotatedLeft(u * 2^rest + others, w, XLEN) = others * 2^w + u
  BY <1>1, <1>2, RotationExchanges
<1> QED
  BY <1>2, <1>3

\* Rotated by less than a width, the copies are those of the rotated operand.
LEMMA CopiesRotate ==
    ASSUME NEW w \in 1 .. XLEN, XLEN % w = 0, NEW u \in Word(w), NEW k \in 0 .. w
    PROVE  Truncate(RotatedLeft(u * Copies(w), k, XLEN), w) = RotatedLeft(u, k, w)
<1>1. PICK rest \in Nat : rest = XLEN - w /\ XLEN = w + rest /\ XLEN \in Length /\ w \in Nat
                          /\ w \in Length
  BY WidthPowers
<1>2. PICK others \in Word(rest) : u * Copies(w) = u * 2^rest + others
  BY <1>1, CopiedOperand
<1>3. PICK m \in Nat, mr \in Nat : m = w - k /\ w = k + m /\ w = m + k /\ mr = m + rest
                                   /\ mr = rest + m /\ XLEN = k + mr /\ XLEN = mr + k
  BY <1>1
<1>4. k \in Nat /\ k \in Length /\ m \in Length /\ mr \in Length
  <2>1. k \in Nat
    BY <1>1
  <2>2. k \in Length /\ m \in Length
    BY <1>1, <1>3, <2>1, PartPowers
  <2>3. mr \in Length
    BY <1>1, <1>3, <2>1, PartPowers
  <2> QED
    BY <2>1, <2>2, <2>3
<1>5. PICK low \in Word(m), high \in Word(k) : u = high * 2^m + low
  BY <1>1, <1>3, <1>4, WordSplits
<1>6. PICK pk \in Nat \ {0}, pm \in Nat \ {0}, pr \in Nat \ {0} :
          pk = 2^k /\ pm = 2^m /\ pr = 2^rest /\ 2^mr = pm * pr /\ 2^w = pk * pm
  <2>1. 2^rest \in Nat \ {0} /\ 2^mr = 2^m * 2^rest
    BY <1>3, <1>4, PartPowers
  <2>2. 2^k \in Nat \ {0} /\ 2^m \in Nat \ {0} /\ 2^w = 2^k * 2^m
    BY <1>1, <1>3, <1>4, PartPowers
  <2> QED
    BY <2>1, <2>2
<1>7. low \in Int /\ high \in Int /\ others \in Int
  BY <1>2, <1>5, <1>6 DEF Word
<1>8. low * 2^rest + others \in Word(mr)
  BY <1>2, <1>3, <1>4, <1>5, JoinIsWord
<1>9. u * Copies(w) = high * 2^mr + (low * 2^rest + others)
  <2>1. (high * pm + low) * pr + others = high * (pm * pr) + (low * pr + others)
    BY <1>6, <1>7
  <2> QED
    BY <1>2, <1>5, <1>6, <2>1
<1>10. RotatedLeft(u * Copies(w), k, XLEN) = (low * 2^rest + others) * 2^k + high
  BY <1>1, <1>3, <1>4, <1>5, <1>8, <1>9, RotationExchanges
<1>11. RotatedLeft(u, k, w) = low * 2^k + high
  BY <1>1, <1>3, <1>4, <1>5, RotationExchanges
<1>12. low * 2^k + high \in Word(w)
  BY <1>1, <1>3, <1>4, <1>5, JoinIsWord
<1>13. PICK t \in Int : low * pr + others = low + pm * t
  <2>1. u * Copies(w) = others * 2^w + u
    <3>1. \E x \in Word(rest) : u * Copies(w) = x * 2^w + u /\ u * Copies(w) = u * 2^rest + x
      BY <1>1, CopiedOperand
    <3>2. u \in Int
      BY <1>5, <1>6, <1>7
    <3>3. PICK x \in Word(rest) : u * Copies(w) = x * 2^w + u /\ u * Copies(w) = u * 2^rest + x
      BY <3>1
    <3>4. x \in Int
      BY <1>6, <3>3 DEF Word
    <3>5. x = others
      BY <1>2, <1>6, <1>7, <3>2, <3>3, <3>4
    <3> QED
      BY <3>3, <3>5
  <2>2. high * (pm * pr) + (low * pr + others) = others * (pk * pm) + (high * pm + low)
    BY <1>5, <1>6, <1>9, <2>1
  <2>3. others * (pk * pm) + (high * pm + low) - high * (pm * pr)
            = low + pm * (others * pk + high - high * pr)
    BY <1>6, <1>7
  <2>4. low * pr + others = low + pm * (others * pk + high - high * pr)
    BY <1>6, <1>7, <2>2, <2>3
  <2>5. others * pk + high - high * pr \in Int
    BY <1>6, <1>7
  <2> QED
    BY <2>4, <2>5
<1>14. PICK pw \in Nat \ {0}, x \in Int : pw = pk * pm /\ x = low * pk + high
  BY <1>6, <1>7
<1>15. (low * pr + others) * pk + high = x + pw * t
  <2>1. (low + pm * t) * pk + high = low * pk + high + (pk * pm) * t
    BY <1>6, <1>7, <1>13
  <2> QED
    BY <1>13, <1>14, <2>1
<1>16. (x + pw * t) % pw = x % pw
  BY <1>13, <1>14, RemainderOfSum
<1>17. x % pw = x
  <2>1. Truncate(low * 2^k + high, w) = low * 2^k + high
    BY <1>1, <1>12, TruncateOfWord, LengthPower
  <2> QED
    BY <1>6, <1>14, <2>1 DEF Truncate
<1> QED
  BY <1>6, <1>10, <1>11, <1>14, <1>15, <1>16, <1>17 DEF Truncate

\* A rotation of the copies to the left by the rest of a turn is one by the rest of a width.
LEMMA CopiesRotateBack ==
    ASSUME NEW w \in 1 .. XLEN, XLEN % w = 0, NEW u \in Word(w), NEW k \in 0 .. w,
           NEW back, back = XLEN - k, NEW left, left = w - k
    PROVE  RotatedLeft(u * Copies(w), back, XLEN) = RotatedLeft(u * Copies(w), left, XLEN)
<1>1. XLEN \in Nat /\ XLEN \in Length /\ w \in Nat /\ left \in Nat /\ back \in Nat
  BY WidthPowers
<1>2. PICK rest \in Nat : XLEN = w + rest /\ back = rest + left /\ back <= XLEN
  <2>1. XLEN - w \in Nat /\ XLEN = w + (XLEN - w) /\ back = (XLEN - w) + left
    BY <1>1
  <2> QED
    BY <1>1, <2>1
<1>3. PICK c \in Word(XLEN) : c = u * Copies(w)
  BY CopiedOperand, <1>1
<1>4. RotatedLeft(c, w, XLEN) = c
  BY <1>3, CopiesTurn
<1>5. RotatedLeft(c, rest, XLEN) = c
  <2>1. RotatedLeft(RotatedLeft(c, w, XLEN), rest, XLEN) = RotatedLeft(c, w + rest, XLEN)
    BY <1>1, <1>2, RotationsAdd
  <2>2. RotatedLeft(c, XLEN, XLEN) = c
    BY <1>1, WholeTurn
  <2> QED
    BY <1>2, <1>4, <2>1, <2>2
<1>6. RotatedLeft(RotatedLeft(c, rest, XLEN), left, XLEN) = RotatedLeft(c, rest + left, XLEN)
  BY <1>1, <1>2, RotationsAdd
<1> QED
  BY <1>2, <1>3, <1>5, <1>6

\* A register rotated in the direction of an operation.
Turned(op, v, k, w) ==
    IF op \in {"ROR", "ROXR"} THEN Reversed(RotatedLeft(Reversed(v, w), k, w), w)
                              ELSE RotatedLeft(v, k, w)

\* The distance of that rotation, to the left.
Distance(op, k, w) == IF op \in {"ROL", "ROXL"} THEN k ELSE (w - k) % w

\* A vector rotated in a direction is one rotated to the left.
LEMMA TurnedLeft ==
    ASSUME NEW op \in {"ROL", "ROR", "ROXL", "ROXR"}, NEW w \in Length, w > 0,
           NEW v \in Word(w), NEW k \in 0 .. w - 1
    PROVE  Turned(op, v, k, w) = RotatedLeft(v, Distance(op, k, w), w)
<1>1. w \in Nat /\ k \in 0 .. w
  BY LengthPower
<1>2. CASE op \in {"ROL", "ROXL"}
  BY <1>2 DEF Turned, Distance
<1>3. CASE op \in {"ROR", "ROXR"}
  <2>1. Turned(op, v, k, w) = RotatedLeft(v, w - k, w)
    BY <1>1, <1>3, ReversedRotation DEF Turned
  <2>2. Distance(op, k, w) = (w - k) % w
    BY <1>3 DEF Distance
  <2>3. CASE k = 0
    <3>1. (w - k) % w = 0 /\ w - k = w
      BY <1>1, <2>3
    <3> QED
      BY <2>1, <2>2, <3>1, WholeTurn
  <2>4. CASE k > 0
    <3>1. (w - k) % w = w - k
      BY <1>1, <2>4
    <3> QED
      BY <2>1, <2>2, <3>1
  <2> QED
    BY <1>1, <2>3, <2>4
<1> QED
  BY <1>2, <1>3

\* The copies rotated in a direction are those of the rotated operand.
LEMMA TurnedCopies ==
    ASSUME NEW op \in {"ROL", "ROR"}, NEW w \in 1 .. XLEN, XLEN % w = 0, NEW u \in Word(w),
           NEW k \in 0 .. w - 1
    PROVE  Truncate(Turned(op, u * Copies(w), k, XLEN), w) = RotatedLeft(u, Distance(op, k, w), w)
<1>1. XLEN \in Nat /\ XLEN \in Length /\ w \in Nat /\ k \in 0 .. w /\ k \in 0 .. XLEN
      /\ w \in Length
  BY WidthPowers
<1>2. PICK c \in Word(XLEN) : c = u * Copies(w)
  <2>1. PICK rest : rest = XLEN - w
    OBVIOUS
  <2> QED
    BY <2>1, CopiedOperand
<1>3. CASE op = "ROL"
  <2>1. Truncate(RotatedLeft(u * Copies(w), k, XLEN), w) = RotatedLeft(u, k, w)
    BY <1>1, CopiesRotate
  <2> QED
    BY <1>3, <2>1 DEF Turned, Distance
<1>4. CASE op = "ROR"
  <2>1. PICK back \in Nat, left \in 0 .. w : back = XLEN - k /\ left = w - k
    BY <1>1
  <2>2. Turned(op, c, k, XLEN) = RotatedLeft(c, back, XLEN)
    BY <1>1, <1>4, <2>1, ReversedRotation DEF Turned
  <2>3. RotatedLeft(u * Copies(w), back, XLEN) = RotatedLeft(u * Copies(w), left, XLEN)
    BY <1>1, <2>1, CopiesRotateBack
  <2>4. Truncate(RotatedLeft(u * Copies(w), left, XLEN), w) = RotatedLeft(u, left, w)
    BY <2>1, CopiesRotate
  <2>5. RotatedLeft(u, left, w) = RotatedLeft(u, Distance(op, k, w), w)
    <3>1. Distance(op, k, w) = left % w
      BY <1>4, <2>1 DEF Distance
    <3>2. CASE k = 0
      <4>1. left % w = 0 /\ left = w
        BY <1>1, <2>1, <3>2
      <4> QED
        BY <1>1, <3>1, <4>1, WholeTurn
    <3>3. CASE k > 0
      <4>1. left % w = left
        BY <1>1, <2>1, <3>3
      <4> QED
        BY <3>1, <4>1
    <3> QED
      BY <1>1, <3>2, <3>3
  <2> QED
    BY <1>2, <2>2, <2>3, <2>4, <2>5
<1> QED
  BY <1>3, <1>4

\* The network rotates the operand.
LEMMA Rotates ==
    ASSUME NEW op \in {"ROL", "ROR"}, NEW source \in Int, NEW n \in 0 .. XLEN - 1,
           NEW w \in 1 .. XLEN, XLEN % w = 0
    PROVE  Datapath!FastShift(op, source, n, w).result
               = RotatedLeft(Truncate(source, w), Distance(op, n % w, w), w)
<1> DEFINE u == Truncate(source, w)
           k == n % w
           in == IF op = "ROR" THEN Reversed(u * Copies(w), XLEN) ELSE u * Copies(w)
<1>1. u \in Word(w) /\ XLEN \in Length /\ w \in Nat \ {0}
  BY OperandIsWord, WidthPowers
<1>2. k \in 0 .. w - 1 /\ k \in 0 .. XLEN - 1
  <2>1. n % w \in 0 .. w - 1
    OBVIOUS
  <2> QED
    BY <1>1, <2>1, WidthPowers
<1>3. u * Copies(w) \in Word(XLEN)
  <2>1. PICK rest : rest = XLEN - w
    OBVIOUS
  <2> HIDE DEF u
  <2> QED
    BY <1>1, <2>1, CopiedOperand
<1>4. in \in Word(XLEN)
  <2>1. u * Copies(w) \in Int
    BY <1>3, WidthPowers DEF Word
  <2>2. Reversed(u * Copies(w), XLEN) \in Word(XLEN)
    BY <1>1, <2>1, ReversedIsWord
  <2> HIDE DEF u
  <2> QED
    BY <1>3, <2>2
<1>5. Datapath!NetworkInput(op, source, w) = in /\ Datapath!NetworkCount(op, n, w) = k
  BY SameBits DEF Datapath!NetworkInput, Datapath!NetworkCount, Datapath!Facing,
     Datapath!ShiftsRight, Datapath!Rotate, Copies
<1>6. Datapath!FastShift(op, source, n, w).result
          = IF op = "ROR" THEN Truncate(Reversed(Datapath!Network(op, source, n, w)[Stages], XLEN), w)
                          ELSE Truncate(Datapath!Network(op, source, n, w)[Stages], w)
  BY SameBits DEF Datapath!FastShift, Datapath!Facing, Datapath!ShiftsRight
<1> HIDE DEF in, k
<1>7. Datapath!Network(op, source, n, w)[Stages] = RotatedLeft(in, k, XLEN)
  <2>1. PICK fill \in {0, 1} : fill = IF op = "ASR" /\ SignSet(source, w) THEN 1 ELSE 0
    OBVIOUS
  <2>2. \A s \in 0 .. Stages :
            Datapath!Network(op, source, n, w)[s] = Moved(op, in, k % 2^s, fill)
    BY <1>2, <1>4, <1>5, <2>1, NetworkMoves
  <2>3. k % 2^Stages = k /\ Stages \in 0 .. Stages
    BY <1>2, CountStages, WidthAssumption
  <2>4. Moved(op, in, k, fill) = RotatedLeft(in, k, XLEN)
    BY DEF Moved, Datapath!Rotate
  <2> QED
    BY <2>2, <2>3, <2>4
<1>8. Datapath!FastShift(op, source, n, w).result = Truncate(Turned(op, u * Copies(w), k, XLEN), w)
  BY <1>6, <1>7 DEF Turned, in
<1>9. Truncate(Turned(op, u * Copies(w), k, XLEN), w) = RotatedLeft(u, Distance(op, k, w), w)
  <2> HIDE DEF u
  <2> QED
    BY <1>1, <1>2, TurnedCopies
<1> QED
  BY <1>8, <1>9 DEF k

\* So does the circuit with a barrel for rotates.
LEMMA ReferenceRotates ==
    ASSUME NEW op \in {"ROL", "ROR"}, NEW source \in Int, NEW n \in 0 .. XLEN - 1,
           NEW w \in 1 .. XLEN, XLEN % w = 0
    PROVE  Reference!Rotated(op, source, n, w)
               = RotatedLeft(Truncate(source, w), Distance(op, n % w, w), w)
<1>1. PICK u \in Word(w), k \in 0 .. w - 1 : u = Truncate(source, w) /\ k = n % w
  <2>1. n % w \in 0 .. w - 1
    OBVIOUS
  <2> QED
    BY <2>1, OperandIsWord
<1>2. PICK c \in Word(XLEN) : c = u * Copies(w)
  <2>1. PICK rest : rest = XLEN - w
    OBVIOUS
  <2> QED
    BY <1>1, <2>1, CopiedOperand
<1>3. XLEN \in Length /\ XLEN \in Nat /\ k \in 0 .. XLEN - 1 /\ k <= XLEN /\ c \in Int
  BY <1>1, <1>2, WidthPowers DEF Word
<1>4. Reversed(c, XLEN) \in Word(XLEN)
  BY <1>3, ReversedIsWord
<1>5. Reference!BarrelRotateLeft(c, k, XLEN) = RotatedLeft(c, k, XLEN)
      /\ Reference!BarrelRotateLeft(Reversed(c, XLEN), k, XLEN)
             = RotatedLeft(Reversed(c, XLEN), k, XLEN)
  BY <1>2, <1>3, <1>4, BarrelRotates
<1>6. Reference!BarrelRotate(op, c, k, XLEN) = Turned(op, c, k, XLEN)
  BY <1>5, SameBits DEF Reference!BarrelRotate, Reference!Right, Turned
<1>7. Reference!Rotated(op, source, n, w) = Truncate(Reference!BarrelRotate(op, c, k, XLEN), w)
  BY <1>1, <1>2, SameBits DEF Reference!Rotated, Copies
<1> QED
  BY <1>1, <1>2, <1>6, <1>7, TurnedCopies

-----------------------------------------------------------------------------
(* Shifts to the right of a sign-extended operand.                         *)

\* The register that a shift to the right starts from.
LEMMA ExtendedValue ==
    ASSUME NEW op, NEW source \in Int, NEW w \in 1 .. XLEN
    PROVE  Extended(op, source, w) =
              IF op = "ASR" /\ SignSet(source, w) THEN Truncate(source, w) + 2^XLEN - 2^w
                                                 ELSE Truncate(source, w)
<1>1. XLEN \in Nat /\ XLEN \in Length /\ w \in Nat
  BY WidthPowers
<1>2. PICK left \in Nat : XLEN = w + left
  <2>1. XLEN - w \in Nat /\ XLEN = w + (XLEN - w)
    BY <1>1
  <2> QED
    BY <2>1
<1>3. PICK pw \in Nat \ {0}, pl \in Nat \ {0}, whole \in Nat \ {0} :
          pw = 2^w /\ pl = 2^left /\ whole = 2^XLEN /\ whole = pw * pl
  <2>1. 2^w \in Nat \ {0} /\ 2^left \in Nat \ {0} /\ 2^XLEN = 2^w * 2^left
    BY <1>1, <1>2, PartPowers
  <2> QED
    BY <2>1, WidthPowers
<1>4. PICK u \in Int : u = Truncate(source, w) /\ u \in Word(XLEN) /\ u \in Word(w) /\ u >= 0
  BY OperandIsWord
<1>5. whole >= pw
  <2>1. pw * (pl - 1) >= 0 /\ pw * (pl - 1) = pw * pl - pw
    BY <1>3
  <2> QED
    BY <1>3, <2>1
<1>6. CASE ~(op = "ASR" /\ SignSet(source, w))
  <2>1. Truncate(u, XLEN) = u
    BY <1>1, <1>4, TruncateOfWord, LengthPower
  <2>2. u % 2^XLEN = u
    BY <2>1 DEF Truncate
  <2> QED
    BY <1>4, <1>6, <2>2 DEF Extended, AsSigned
<1>7. CASE op = "ASR" /\ SignSet(source, w)
  <2>1. u < pw
    BY <1>3, <1>4 DEF Word
  <2>2. PICK e \in 0 .. whole - 1 : e = u + whole - pw
    BY <1>3, <1>4, <1>5, <2>1
  <2>3. (whole * (0 - 1) + e) % whole = e
    <3>1. 0 - 1 \in Int
      OBVIOUS
    <3> QED
      BY <1>3, <2>2, <3>1, DivisionIsUnique, ZenonT(40)
  <2>4. whole * (0 - 1) + e = u - pw
    BY <1>3, <1>4, <2>2
  <2>5. (u - pw) % whole = e
    BY <2>3, <2>4, ZenonT(40)
  <2> QED
    BY <1>3, <1>4, <1>7, <2>2, <2>5 DEF Extended, AsSigned
<1> QED
  BY <1>6, <1>7

\* A sign-extended operand shifted right with its sign is the shifted integer.
LEMMA ExtensionShifts ==
    ASSUME NEW op \in {"ASR", "LSR"}, NEW source \in Int, NEW n \in 0 .. XLEN,
           NEW w \in 1 .. XLEN, NEW a,
           a = IF op = "ASR" THEN AsSigned(source, w) ELSE Truncate(source, w)
    PROVE  Truncate(FilledRight(Extended(op, source, w), n, ShiftedIn(op, source, w)), w)
               = (a \div 2^n) % 2^w
<1>1. XLEN \in Nat /\ XLEN \in Length /\ w \in Nat /\ w \in Length /\ n \in Nat
  BY WidthPowers
<1>2. PICK rest \in Nat, left \in Nat :
          rest = XLEN - n /\ XLEN = n + rest /\ left = XLEN - w /\ XLEN = w + left
  BY <1>1
<1>3. PICK pn \in Nat \ {0}, pr \in Nat \ {0}, whole \in Nat \ {0} :
          pn = 2^n /\ pr = 2^rest /\ whole = 2^XLEN /\ whole = pn * pr
  <2>1. 2^n \in Nat \ {0} /\ 2^rest \in Nat \ {0} /\ 2^XLEN = 2^n * 2^rest
    BY <1>1, <1>2, PartPowers
  <2> QED
    BY <2>1, WidthPowers
<1>4. PICK pw \in Nat \ {0}, pl \in Nat \ {0} : pw = 2^w /\ pl = 2^left /\ whole = pw * pl
  <2>1. 2^w \in Nat \ {0} /\ 2^left \in Nat \ {0} /\ 2^XLEN = 2^w * 2^left
    BY <1>1, <1>2, PartPowers
  <2> QED
    BY <1>3, <2>1
<1>5. PICK u \in Int : u = Truncate(source, w) /\ u \in Word(XLEN) /\ u \in Word(w) /\ u >= 0
  BY OperandIsWord
<1>6. whole >= pw
  <2>1. pw * (pl - 1) >= 0 /\ pw * (pl - 1) = pw * pl - pw
    BY <1>4
  <2> QED
    BY <1>3, <1>4, <2>1
<1>7. CASE ~(op = "ASR" /\ SignSet(source, w))
  <2>1. a = u /\ ShiftedIn(op, source, w) = 0
    BY <1>5, <1>7 DEF AsSigned, ShiftedIn
  <2>2. Extended(op, source, w) = u
    BY <1>5, <1>7, ExtendedValue
  <2>3. FilledRight(u, n, 0) = u \div pn
    <3>1. 0 * (2^n - 1) * 2^(XLEN - n) = 0
      BY <1>2, <1>3
    <3>2. u \div pn \in Int
      BY <1>3, <1>5, DivisionIsExact
    <3> QED
      BY <1>3, <3>1, <3>2 DEF FilledRight
  <2> QED
    BY <1>3, <2>1, <2>2, <2>3 DEF Truncate
<1>8. CASE op = "ASR" /\ SignSet(source, w)
  <2>1. a = u - pw /\ ShiftedIn(op, source, w) = 1
    BY <1>4, <1>5, <1>8 DEF AsSigned, ShiftedIn
  <2>2. u < pw
    BY <1>4, <1>5 DEF Word
  <2>3. PICK e \in 0 .. whole - 1 : e = a + whole
    BY <1>4, <1>5, <1>6, <2>1, <2>2
  <2>4. Extended(op, source, w) = e
    BY <1>3, <1>4, <1>5, <1>8, <2>1, <2>3, ExtendedValue
  <2>5. a \div pn = e \div pn - pr
    <3>1. PICK k \in Int, v \in Int : k = pr /\ v = a /\ pn * k + v = e
      BY <1>3, <1>4, <1>5, <2>1, <2>3
    <3>2. (pn * k + v) \div pn = k + (v \div pn)
      BY <1>3, <3>1, QuotientOfSum
    <3>3. v \div pn \in Int
      BY <1>3, <3>1, DivisionIsExact
    <3> QED
      BY <3>1, <3>2, <3>3
  <2>6. e \div pn \in Int
    BY <1>3, <2>3, DivisionIsExact
  <2>7. PICK filled \in Int : filled = FilledRight(e, n, 1) /\ filled = a \div pn + whole
    <3>1. 1 * (pn - 1) * pr = whole - pr
      BY <1>3
    <3>2. FilledRight(e, n, 1) = e \div pn + (1 * (pn - 1) * pr)
      BY <1>2, <1>3 DEF FilledRight
    <3> QED
      BY <1>3, <2>5, <2>6, <3>1, <3>2
  <2>8. PICK y \in Int : y = a \div pn /\ filled = y + pw * pl
    BY <1>3, <1>4, <2>5, <2>6, <2>7
  <2>9. (y + pw * pl) % pw = y % pw
    <3>1. PICK t \in Int : t = pl
      BY <1>4
    <3>2. (y + pw * t) % pw = y % pw
      <4>1. pw \in Nat \ {0} /\ y \in Int /\ t \in Int
        BY <1>4, <2>8, <3>1
      <4> QED
        BY <4>1, RemainderOfSum, ZenonT(60)
    <3> QED
      BY <3>1, <3>2
  <2> QED
    BY <1>3, <1>4, <2>1, <2>4, <2>7, <2>8, <2>9 DEF Truncate
<1> QED
  BY <1>7, <1>8

\* An operand shifted right still has its width.
LEMMA ShortensToRight ==
    ASSUME NEW w \in 1 .. XLEN, NEW n \in 0 .. XLEN, NEW u \in Word(w)
    PROVE  u \div 2^n \in Word(w) /\ (u \div 2^n) % 2^w = u \div 2^n
<1>1. PICK pn \in Nat \ {0}, pw \in Nat \ {0} : pn = 2^n /\ pw = 2^w
  <2>1. n \in Length
    BY WidthPowers DEF Length
  <2> QED
    BY <2>1, WidthPowers, LengthPower
<1>2. u \in 0 .. pw - 1
  BY <1>1 DEF Word
<1>3. PICK q \in Int, r \in 0 .. pn - 1 : q = u \div pn /\ r = u % pn /\ u = pn * q + r
  BY <1>1, <1>2, Division
<1>4. q >= 0
  <2>1. CASE q < 0
    <3>1. pn * (0 - 1 - q) >= 0 /\ pn * (0 - 1 - q) = 0 - pn - pn * q
      BY <1>1, <1>3, <2>1
    <3> QED
      BY <1>1, <1>2, <1>3, <3>1
  <2> QED
    BY <1>3, <2>1
<1>5. q <= u
  <2>1. (pn - 1) * q >= 0 /\ (pn - 1) * q = pn * q - q
    BY <1>1, <1>3, <1>4
  <2> QED
    BY <1>1, <1>2, <1>3, <2>1
<1>6. q \in Word(w)
  BY <1>1, <1>2, <1>3, <1>4, <1>5 DEF Word
<1>7. Truncate(q, w) = q
  BY <1>1, <1>6, TruncateOfWord
<1> QED
  BY <1>1, <1>3, <1>6, <1>7 DEF Truncate

\* What a shift to the right is of the operand.
RightShifted(op, source, n, w) ==
    IF op = "ASR" THEN (AsSigned(source, w) \div 2^n) % 2^w
                  ELSE Truncate(source, w) \div 2^n

\* The network shifts the operand to the right.
LEMMA NetworkShiftsRight ==
    ASSUME NEW op \in {"ASR", "LSR"}, NEW source \in Int, NEW n \in 0 .. XLEN - 1,
           NEW w \in 1 .. XLEN
    PROVE  /\ Datapath!FastShift(op, source, n, w).result = RightShifted(op, source, n, w)
           /\ Truncate(FilledRight(Extended(op, source, w), n, ShiftedIn(op, source, w)), w)
                  = RightShifted(op, source, n, w)
<1>1. n \in 0 .. XLEN
  BY LengthAssumption
<1>2. PICK a : a = IF op = "ASR" THEN AsSigned(source, w) ELSE Truncate(source, w)
  OBVIOUS
<1>3. Truncate(FilledRight(Extended(op, source, w), n, ShiftedIn(op, source, w)), w)
          = (a \div 2^n) % 2^w
  BY <1>1, <1>2, ExtensionShifts
<1>4. (a \div 2^n) % 2^w = RightShifted(op, source, n, w)
  <2>1. (Truncate(source, w) \div 2^n) % 2^w = Truncate(source, w) \div 2^n
    <3>1. Truncate(source, w) \in Word(w)
      BY OperandIsWord
    <3> QED
      BY <1>1, <3>1, ShortensToRight
  <2> QED
    BY <1>2, <2>1 DEF RightShifted
<1> QED
  BY <1>3, <1>4, RightShifts

-----------------------------------------------------------------------------
(* The result of an ordinary operation.                                    *)

OrdinaryOperation == {"ASL", "ASR", "LSL", "LSR", "ROL", "ROR"}

\* The value the executable model prescribes.
LEMMA ModelValue ==
    ASSUME NEW op \in OrdinaryOperation, NEW source, NEW n, NEW w, NEW x
    PROVE  Model!ShiftedValue(op, source, n, w, x) =
              IF op \in {"ASL", "LSL"} THEN Truncate(Truncate(source, w) * 2^n, w)
              ELSE IF op \in {"ASR", "LSR"} THEN RightShifted(op, source, n, w)
              ELSE RotatedLeft(Truncate(source, w), Distance(op, n % w, w), w)
<1>1. CASE op \in {"ASL", "LSL"}
  BY <1>1, SameBits DEF Model!ShiftedValue, Model!RotateExtends, Truncate
<1>2. CASE op = "ASR"
  BY <1>2, SameBits DEF Model!ShiftedValue, Model!RotateExtends, RightShifted
<1>3. CASE op = "LSR"
  BY <1>3, SameBits DEF Model!ShiftedValue, Model!RotateExtends, RightShifted
<1>4. CASE op = "ROL"
  BY <1>4, SameBits DEF Model!ShiftedValue, Model!RotateExtends, Distance
<1>5. CASE op = "ROR"
  BY <1>5, SameBits DEF Model!ShiftedValue, Model!RotateExtends, Distance
<1> QED
  BY <1>1, <1>2, <1>3, <1>4, <1>5 DEF OrdinaryOperation

\* The network computes what the executable model prescribes.
LEMMA OrdinaryValue ==
    ASSUME NEW op \in OrdinaryOperation, NEW source \in Int, NEW n \in 0 .. XLEN - 1,
           NEW w \in 1 .. XLEN, XLEN % w = 0, NEW x
    PROVE  /\ Datapath!FastShift(op, source, n, w).result = Model!ShiftedValue(op, source, n, w, x)
           /\ Model!ShiftedValue(op, source, n, w, x) \in Word(w)
<1>1. CASE op \in {"ASL", "LSL"}
  <2>1. Datapath!FastShift(op, source, n, w).result = Truncate(Truncate(source, w) * 2^n, w)
    BY <1>1, LeftShifts
  <2>2. Model!ShiftedValue(op, source, n, w, x) = Truncate(Truncate(source, w) * 2^n, w)
    BY <1>1, ModelValue
  <2>3. Truncate(source, w) * 2^n \in Int
    <3>1. n \in Length
      BY LengthAssumption DEF Length
    <3>2. 2^n \in Int
      BY <3>1, LengthPower
    <3> QED
      BY <3>2, OperandIsWord
  <2>4. Truncate(Truncate(source, w) * 2^n, w) \in Word(w)
    BY <2>3, WidthPowers, TruncateIsWord
  <2> QED
    BY <2>1, <2>2, <2>4
<1>2. CASE op \in {"ASR", "LSR"}
  <2>1. Datapath!FastShift(op, source, n, w).result = RightShifted(op, source, n, w)
    BY <1>2, NetworkShiftsRight
  <2>2. Model!ShiftedValue(op, source, n, w, x) = RightShifted(op, source, n, w)
    BY <1>2, ModelValue
  <2>3. RightShifted(op, source, n, w) \in Word(w)
    <3>1. n \in 0 .. XLEN /\ n \in Length
      BY LengthAssumption DEF Length
    <3>2. Truncate(source, w) \div 2^n \in Word(w)
      BY <3>1, OperandIsWord, ShortensToRight
    <3>3. (AsSigned(source, w) \div 2^n) % 2^w \in Word(w)
      <4>1. AsSigned(source, w) \in Int
        BY OperandIsWord, WidthPowers DEF AsSigned
      <4>2. AsSigned(source, w) \div 2^n \in Int
        BY <3>1, <4>1, LengthPower, DivisionIsExact
      <4> QED
        BY <4>2, WidthPowers, TruncateIsWord DEF Truncate
    <3> QED
      BY <3>2, <3>3 DEF RightShifted
  <2> QED
    BY <2>1, <2>2, <2>3
<1>3. CASE op \in {"ROL", "ROR"}
  <2>1. Datapath!FastShift(op, source, n, w).result
            = RotatedLeft(Truncate(source, w), Distance(op, n % w, w), w)
    BY <1>3, Rotates
  <2>2. Model!ShiftedValue(op, source, n, w, x)
            = RotatedLeft(Truncate(source, w), Distance(op, n % w, w), w)
    BY <1>3, ModelValue
  <2>3. Distance(op, n % w, w) \in 0 .. w
    BY DEF Distance
  <2>4. RotatedLeft(Truncate(source, w), Distance(op, n % w, w), w) \in Word(w)
    BY <2>3, OperandIsWord, WidthPowers, RotationIsWord
  <2> QED
    BY <2>1, <2>2, <2>4
<1> QED
  BY <1>1, <1>2, <1>3 DEF OrdinaryOperation

\* So does the circuit with a barrel per family.
LEMMA ReferenceValue ==
    ASSUME NEW op \in OrdinaryOperation, NEW source \in Int, NEW n \in 0 .. XLEN - 1,
           NEW w \in 1 .. XLEN, XLEN % w = 0, NEW x
    PROVE  (IF Reference!PlainRotate(op) THEN Reference!Rotated(op, source, n, w)
                                         ELSE Reference!Shifted(op, source, n, w))
               = Model!ShiftedValue(op, source, n, w, x)
<1>1. CASE op \in {"ASL", "LSL"}
  <2>1. Reference!Shifted(op, source, n, w)
            = Reference!BarrelShiftLeft(Truncate(source, w), n, w)
    BY <1>1, SameBits DEF Reference!Shifted, Reference!Right
  <2>2. Reference!BarrelShiftLeft(Truncate(source, w), n, w)
            = Truncate(Truncate(source, w) * 2^n, w)
    BY OperandIsWord, WidthPowers, BarrelShiftsLeft
  <2>3. Model!ShiftedValue(op, source, n, w, x) = Truncate(Truncate(source, w) * 2^n, w)
    BY <1>1, ModelValue
  <2> QED
    BY <1>1, <2>1, <2>2, <2>3 DEF Reference!PlainRotate
<1>2. CASE op \in {"ASR", "LSR"}
  <2>1. Reference!Shifted(op, source, n, w)
            = Truncate(Reference!BarrelShiftRight(Extended(op, source, w),
                                                  ShiftedIn(op, source, w), n), w)
    BY <1>2, SameBits, ExtendedValue DEF Reference!Shifted, Reference!Right, ShiftedIn
  <2>2. Reference!BarrelShiftRight(Extended(op, source, w), ShiftedIn(op, source, w), n)
            = FilledRight(Extended(op, source, w), n, ShiftedIn(op, source, w))
    BY ExtendedIsWord, BarrelShiftsRight
  <2>3. Truncate(FilledRight(Extended(op, source, w), n, ShiftedIn(op, source, w)), w)
            = RightShifted(op, source, n, w)
    BY <1>2, NetworkShiftsRight
  <2>4. Model!ShiftedValue(op, source, n, w, x) = RightShifted(op, source, n, w)
    BY <1>2, ModelValue
  <2> QED
    BY <1>2, <2>1, <2>2, <2>3, <2>4 DEF Reference!PlainRotate
<1>3. CASE op \in {"ROL", "ROR"}
  <2>1. Reference!Rotated(op, source, n, w)
            = RotatedLeft(Truncate(source, w), Distance(op, n % w, w), w)
    BY <1>3, ReferenceRotates
  <2>2. Model!ShiftedValue(op, source, n, w, x)
            = RotatedLeft(Truncate(source, w), Distance(op, n % w, w), w)
    BY <1>3, ModelValue
  <2> QED
    BY <1>3, <2>1, <2>2 DEF Reference!PlainRotate
<1> QED
  BY <1>1, <1>2, <1>3 DEF OrdinaryOperation

-----------------------------------------------------------------------------
(* The overflow of an arithmetic shift to the left.                        *)

\* The bits of c that a move by j bits takes into or past the sign are not all alike.
ChangesSign(c, j, w) ==
    IF j >= w THEN c # 0 ELSE c \div 2^(w - 1 - j) \notin {0, 2^(j + 1) - 1}

\* A signed product is in range if and only if the factor is in the quotient's range.
LEMMA ProductInRange ==
    ASSUME NEW a \in Int, NEW pj \in Nat \ {0}, NEW pm \in Nat \ {0}, NEW half \in Nat \ {0},
           half = pm * pj
    PROVE  a * pj \in -half .. half - 1 <=> a \in -pm .. pm - 1
<1>1. a * pj \in Int
  OBVIOUS
<1>2. CASE a <= pm - 1 /\ a >= -pm
  <2>1. (pm - 1 - a) * pj >= 0 /\ (pm - 1 - a) * pj = pm * pj - pj - a * pj
    BY <1>2
  <2>2. (a + pm) * pj >= 0 /\ (a + pm) * pj = a * pj + pm * pj
    BY <1>2
  <2> QED
    BY <1>1, <1>2, <2>1, <2>2
<1>3. CASE a >= pm
  <2>1. (a - pm) * pj >= 0 /\ (a - pm) * pj = a * pj - pm * pj
    BY <1>3
  <2> QED
    BY <1>1, <1>3, <2>1
<1>4. CASE a <= -pm - 1
  <2>1. (-pm - 1 - a) * pj >= 0 /\ (-pm - 1 - a) * pj = 0 - pm * pj - pj - a * pj
    BY <1>4
  <2> QED
    BY <1>1, <1>4, <2>1
<1> QED
  BY <1>2, <1>3, <1>4

\* They are not if and only if the moved vector overflows.
LEMMA SignChanges ==
    ASSUME NEW w \in 1 .. XLEN, NEW c \in Word(w), NEW j \in 0 .. XLEN
    PROVE  ChangesSign(c, j, w) <=> AsSigned(c, w) * 2^j \notin Representable(w, TRUE)
<1>1. w \in Nat \ {0} /\ w \in Length /\ XLEN \in Nat /\ j \in Nat
  BY WidthPowers
<1>2. PICK half \in Nat \ {0} : half = 2^(w - 1) /\ 2^w = 2 * half
  BY WidthPowers
<1>3. PICK pj \in Nat \ {0} : pj = 2^j /\ 2^(j + 1) = 2 * pj
  <2>1. j \in Length
    BY <1>1 DEF Length
  <2> QED
    BY <1>1, <2>1, LengthPower, LengthAssumption
<1>4. /\ c \in 0 .. 2 * half - 1
      /\ AsSigned(c, w) = IF c >= half THEN c - 2 * half ELSE c
      /\ AsSigned(c, w) \in -half .. half - 1
  BY <1>2, SignedValue
<1>5. PICK a \in Int : a = AsSigned(c, w)
  BY <1>4
<1>6. Representable(w, TRUE) = -half .. half - 1 /\ c \in Int
  BY <1>2, <1>4 DEF Representable
<1> SUFFICES ChangesSign(c, j, w) <=> a * pj \notin -half .. half - 1
  BY <1>3, <1>5, <1>6, ZenonT(40)
<1>7. CASE j >= w
  <2>1. PICK m \in Nat, pm \in Nat \ {0} : j = w + m /\ pm = 2^m /\ pj = 2 * half * pm
    <3>1. j - w \in Nat /\ j = w + (j - w) /\ j \in Length
      BY <1>1, <1>7 DEF Length
    <3>2. PICK m \in Nat : j = w + m
      BY <3>1
    <3>3. 2^m \in Nat \ {0} /\ 2^j = 2^w * 2^m
      BY <1>1, <3>1, <3>2, PartPowers
    <3> QED
      BY <1>2, <1>3, <3>2, <3>3
  <2>2. pj >= 2 * half
    <3>1. 2 * half * (pm - 1) >= 0 /\ 2 * half * (pm - 1) = 2 * half * pm - 2 * half
      BY <1>2, <2>1
    <3> QED
      BY <1>2, <1>3, <2>1, <3>1
  <2>3. a = 0 <=> c = 0
    BY <1>2, <1>4, <1>5
  <2>4. CASE a = 0
    <3>1. a * pj = 0
      BY <1>3, <2>4
    <3> QED
      BY <1>1, <1>2, <1>7, <2>3, <2>4, <3>1 DEF ChangesSign
  <2>5. CASE a >= 1
    <3>1. (a - 1) * pj >= 0 /\ (a - 1) * pj = a * pj - pj /\ a * pj \in Int
      BY <1>3, <1>5, <2>5
    <3>2. a * pj \notin -half .. half - 1
      BY <1>2, <1>3, <2>2, <3>1
    <3> QED
      BY <1>1, <1>7, <2>3, <2>5, <3>2 DEF ChangesSign
  <2>6. CASE a <= -1
    <3>1. (-1 - a) * pj >= 0 /\ (-1 - a) * pj = 0 - pj - a * pj /\ a * pj \in Int
      BY <1>3, <1>5, <2>6
    <3>2. a * pj \notin -half .. half - 1
      BY <1>2, <1>3, <2>2, <3>1
    <3> QED
      BY <1>1, <1>7, <2>3, <2>6, <3>2 DEF ChangesSign
  <2> QED
    BY <1>5, <2>4, <2>5, <2>6
<1>8. CASE j < w
  <2>1. PICK m \in Nat, pm \in Nat \ {0} : m = w - 1 - j /\ pm = 2^m /\ half = pm * pj
    <3>1. PICK m \in Nat, up \in Nat : m = w - 1 - j /\ up = w - 1 /\ up = m + j
      BY <1>1, <1>8
    <3>2. up \in Length
      BY <3>1, WidthPowers
    <3>3. 2^m \in Nat \ {0} /\ 2^up = 2^m * 2^j
      BY <1>1, <3>1, <3>2, PartPowers
    <3> QED
      BY <1>2, <1>3, <3>1, <3>3
  <2>2. PICK q \in Int, r \in 0 .. pm - 1 : q = c \div pm /\ r = c % pm /\ c = pm * q + r
    BY <1>6, <2>1, Division, ZenonT(40)
  <2>3. a * pj \in -half .. half - 1 <=> a \in -pm .. pm - 1
    BY <1>2, <1>3, <1>5, <2>1, ProductInRange
  <2>4. ChangesSign(c, j, w) <=> q # 0 /\ q # 2 * pj - 1
    BY <1>1, <1>3, <1>8, <2>1, <2>2 DEF ChangesSign
  <2>5. CASE q <= 0
    <3>2. q = 0
      <4>1. CASE q <= -1
        <5>1. pm * (-1 - q) >= 0 /\ pm * (-1 - q) = 0 - pm - pm * q
          BY <2>1, <2>2, <4>1
        <5> QED
          BY <1>4, <2>1, <2>2, <5>1
      <4> QED
        BY <2>2, <2>5, <4>1
    <3>3. c < pm
      BY <2>1, <2>2, <3>2
    <3>4. pm <= half
      <4>1. pm * (pj - 1) >= 0 /\ pm * (pj - 1) = pm * pj - pm
        BY <1>3, <2>1
      <4> QED
        BY <1>2, <2>1, <4>1
    <3>5. a = c
      BY <1>2, <1>4, <1>5, <2>1, <3>3, <3>4
    <3> QED
      BY <1>4, <1>5, <2>1, <2>3, <2>4, <3>2, <3>3, <3>5
  <2>6. CASE q >= 1 /\ q <= 2 * pj - 2
    <3>1. pm * (q - 1) >= 0 /\ pm * (q - 1) = pm * q - pm
      <4>1. PICK d \in Nat : d = q - 1
        BY <2>2, <2>6
      <4>2. pm * d >= 0
        BY <2>1
      <4>3. pm * (q - 1) = pm * q - pm
        <5>1. pm \in Int /\ q \in Int
          BY <2>1, <2>2
        <5> QED
          BY <5>1
      <4> QED
        BY <4>1, <4>2, <4>3
    <3>2. pm * (2 * pj - 2 - q) >= 0 /\ pm * (2 * pj - 2 - q) = 2 * (pm * pj) - 2 * pm - pm * q
      BY <1>3, <2>1, <2>2, <2>6
    <3>3. c >= pm /\ c < 2 * half - pm
      BY <1>2, <1>4, <2>1, <2>2, <3>1, <3>2
    <3>4. a \notin -pm .. pm - 1
      BY <1>2, <1>4, <1>5, <2>1, <3>3
    <3> QED
      BY <1>3, <2>2, <2>3, <2>4, <2>6, <3>4
  <2>7. CASE q >= 2 * pj - 1
    <3>1. pm * (q - (2 * pj - 1)) >= 0
          /\ pm * (q - (2 * pj - 1)) = pm * q - 2 * (pm * pj) + pm
      BY <1>3, <2>1, <2>2, <2>7
    <3>2. c >= 2 * half - pm
      BY <1>2, <1>4, <2>1, <2>2, <3>1
    <3>3. q = 2 * pj - 1
      <4>1. CASE q >= 2 * pj
        <5>1. pm * (q - 2 * pj) >= 0 /\ pm * (q - 2 * pj) = pm * q - 2 * (pm * pj)
          BY <1>3, <2>1, <2>2, <4>1
        <5> QED
          BY <1>2, <1>4, <2>1, <2>2, <5>1
      <4> QED
        BY <1>3, <2>2, <2>7, <4>1
    <3>4. pm <= half
      <4>1. pm * (pj - 1) >= 0 /\ pm * (pj - 1) = pm * pj - pm
        BY <1>3, <2>1
      <4> QED
        BY <1>2, <2>1, <4>1
    <3>5. a \in -pm .. pm - 1
      BY <1>2, <1>4, <1>5, <2>1, <3>2, <3>4
    <3> QED
      BY <2>3, <2>4, <3>3, <3>5
  <2> QED
    BY <1>3, <2>2, <2>5, <2>6, <2>7
<1> QED
  BY <1>1, <1>7, <1>8

\* A product out of range stays out of range.
LEMMA OverflowStays ==
    ASSUME NEW w \in 1 .. XLEN, NEW a \in Int, NEW p \in Nat \ {0},
           a \notin Representable(w, TRUE)
    PROVE  a * p \notin Representable(w, TRUE)
<1>1. PICK half \in Nat \ {0} : half = 2^(w - 1)
  BY WidthPowers
<1>2. Representable(w, TRUE) = -half .. half - 1
  BY <1>1 DEF Representable
<1> SUFFICES a * p \notin -half .. half - 1
  BY <1>2, ZenonT(40)
<1>0. a \notin -half .. half - 1
  BY <1>2, ZenonT(40)
<1>3. CASE a >= half
  <2>1. a * (p - 1) >= 0 /\ a * (p - 1) = a * p - a /\ a * p \in Int
    BY <1>1, <1>3
  <2> QED
    BY <1>1, <1>3, <2>1
<1>4. CASE a < -half
  <2>1. (0 - a) * (p - 1) >= 0 /\ (0 - a) * (p - 1) = a - a * p /\ a * p \in Int
    BY <1>1, <1>4
  <2> QED
    BY <1>1, <1>4, <2>1
<1> QED
  BY <1>0, <1>1, <1>3, <1>4

\* While it is in range, the low bits stand for it.
LEMMA ProductInLowBits ==
    ASSUME NEW w \in 1 .. XLEN, NEW source \in Int, NEW p \in Nat \ {0},
           AsSigned(source, w) * p \in Representable(w, TRUE)
    PROVE  AsSigned(Truncate(Truncate(source, w) * p, w), w) = AsSigned(source, w) * p
<1>1. PICK half \in Nat \ {0} : half = 2^(w - 1) /\ 2^w = 2 * half
  BY WidthPowers
<1>2. PICK pw \in Nat \ {0} : pw = 2^w
  BY <1>1
<1>3. PICK u \in Int : u = Truncate(source, w)
  BY OperandIsWord
<1>4. PICK a \in Int, e \in {0, 1} : a = AsSigned(source, w) /\ a = u - e * pw
  BY <1>2, <1>3 DEF AsSigned
<1>5. PICK v \in -half .. half - 1 : v = a * p
  BY <1>1, <1>4 DEF Representable
<1>6. AsSigned(v % 2^w, w) = v
  BY <1>1, SignedValueOfRemainder
<1>7. PICK y \in Int, t \in Int : y = u * p /\ t = 0 - e * p
  BY <1>3, <1>4
<1>8. v = y + pw * t
  BY <1>2, <1>3, <1>4, <1>5, <1>7
<1>9. (y + pw * t) % pw = y % pw
  BY <1>2, <1>7, RemainderOfSum
<1> QED
  BY <1>2, <1>3, <1>4, <1>5, <1>6, <1>7, <1>8, <1>9 DEF Truncate

\* The integer an operand stands for is one it can represent.
LEMMA OperandValue ==
    ASSUME NEW source \in Int, NEW w \in 1 .. XLEN
    PROVE  /\ AsSigned(source, w) = AsSigned(Truncate(source, w), w)
           /\ AsSigned(source, w) \in Int /\ AsSigned(source, w) \in Representable(w, TRUE)
<1>1. PICK half \in Nat \ {0} : half = 2^(w - 1) /\ 2^w = 2 * half
  BY WidthPowers
<1>2. AsSigned(source, w) = AsSigned(Truncate(source, w), w)
  <2>1. Truncate(Truncate(source, w), w) = Truncate(source, w)
    BY OperandIsWord, WidthPowers, TruncateOfWord
  <2>2. SignSet(Truncate(source, w), w) <=> SignSet(source, w)
    BY <1>1, <2>1, OperandIsWord, SameSign
  <2> QED
    BY <2>1, <2>2 DEF AsSigned
<1>3. AsSigned(Truncate(source, w), w) \in -half .. half - 1
  BY <1>1, OperandIsWord, SignedValue
<1>4. Representable(w, TRUE) = -half .. half - 1
  BY <1>1 DEF Representable
<1>5. AsSigned(source, w) \in Int
  BY <1>1, <1>2, <1>3
<1> QED
  BY <1>2, <1>3, <1>4, <1>5

\* The stages before s do not all keep the sign if and only if what they move together
\* overflows.
LEMMA StagesChangeSign ==
    ASSUME NEW source \in Int, NEW n \in 0 .. XLEN - 1, NEW w \in 1 .. XLEN
    PROVE  \A s \in 0 .. Stages :
              (\E t \in 0 .. Stages - 1 :
                  /\ t < s /\ Bit(n, t) = 1
                  /\ ChangesSign(Truncate(Truncate(source, w) * 2^(n % 2^t), w), 2^t, w))
              <=> AsSigned(source, w) * 2^(n % 2^s) \notin Representable(w, TRUE)
<1> DEFINE Changes(t) ==
               ChangesSign(Truncate(Truncate(source, w) * 2^(n % 2^t), w), 2^t, w)
           Sums(s) == (\E t \in 0 .. Stages - 1 : t < s /\ Bit(n, t) = 1 /\ Changes(t))
               <=> AsSigned(source, w) * 2^(n % 2^s) \notin Representable(w, TRUE)
           S == {s \in Nat : s <= Stages => Sums(s)}
<1>1. Stages \in Nat \ {0} /\ XLEN \in Nat
  BY WidthAssumption, LengthAssumption
<1>2. PICK a \in Int : a = AsSigned(source, w) /\ a \in Representable(w, TRUE)
  BY OperandValue
<1>3. 0 \in S
  <2>1. n % 2^0 = 0 /\ 2^0 = 1
    BY CountStages
  <2>2. 2^(n % 2^0) = 1
    BY <2>1, ZenonT(40)
  <2>3. a * 1 = a
    BY <1>2
  <2>4. AsSigned(source, w) * 2^(n % 2^0) \in Representable(w, TRUE)
    BY <1>2, <2>2, <2>3, ZenonT(40)
  <2>5. ~ \E t \in 0 .. Stages - 1 : t < 0
    BY <1>1
  <2>6. Sums(0)
    BY <2>4, <2>5
  <2> QED
    BY <2>6
<1>4. ASSUME NEW s \in Nat, s \in S PROVE s + 1 \in S
  <2>1. ASSUME s + 1 <= Stages PROVE Sums(s + 1)
    <3>1. s \in 0 .. Stages - 1 /\ s + 1 \in Nat
      BY <1>1, <2>1
    <3>2. Sums(s)
      <4>1. s <= Stages
        BY <1>1, <2>1
      <4> HIDE DEF Sums
      <4> QED
        BY <1>4, <4>1
    <3>3. (\E t \in 0 .. Stages - 1 : t < s + 1 /\ Bit(n, t) = 1 /\ Changes(t))
          <=> \/ \E t \in 0 .. Stages - 1 : t < s /\ Bit(n, t) = 1 /\ Changes(t)
              \/ Bit(n, s) = 1 /\ Changes(s)
      <4>1. \A t \in 0 .. Stages - 1 : t < s + 1 <=> t < s \/ t = s
        BY <3>1
      <4> HIDE DEF Changes
      <4> QED
        BY <3>1, <4>1, ZenonT(40)
    <3>4. CASE Bit(n, s) # 1
      <4>1. n % 2^(s + 1) = n % 2^s
        BY <3>1, <3>4, CountStages
      <4> HIDE DEF Changes
      <4> QED
        BY <3>2, <3>3, <3>4, <4>1
    <3>5. CASE Bit(n, s) = 1
      <4>1. PICK k \in Nat, j \in Nat, next \in Nat :
                /\ k = n % 2^s /\ j = 2^s /\ next = n % 2^(s + 1)
                /\ next = k + j /\ next <= XLEN - 1
        <5>1. 2^s \in Nat \ {0} /\ n % 2^s \in Nat
              /\ n % 2^(s + 1) = (n % 2^s) + 2^s /\ (n % 2^s) + 2^s <= n
          BY <3>1, <3>5, CountStages
        <5> QED
          BY <1>1, <5>1
      <4>2. PICK pk \in Nat \ {0}, pj \in Nat \ {0} :
                pk = 2^k /\ pj = 2^j /\ 2^next = pk * pj
        <5>1. next \in Length
          BY <1>1, <4>1 DEF Length
        <5>2. 2^k \in Nat \ {0} /\ 2^j \in Nat \ {0} /\ 2^next = 2^k * 2^j
          <6>1. k \in Nat /\ j \in Nat /\ next = k + j
            BY <4>1
          <6> QED
            BY <5>1, <6>1, PartPowers
        <5> QED
          BY <5>2
      <4>3. PICK b \in Int, y \in Int : b = a * pk /\ y = b * pj /\ y = a * (pk * pj)
        BY <1>2, <4>2
      <4>4. Sums(s) <=> ((\E t \in 0 .. Stages - 1 : t < s /\ Bit(n, t) = 1 /\ Changes(t))
                         <=> b \notin Representable(w, TRUE))
        <5>1. AsSigned(source, w) * 2^(n % 2^s) = b
          BY <1>2, <4>1, <4>2, <4>3
        <5> HIDE DEF Changes
        <5> QED
          BY <5>1
      <4>5. AsSigned(source, w) * 2^(n % 2^(s + 1)) = y
        BY <1>2, <4>1, <4>2, <4>3
      <4>6. CASE b \notin Representable(w, TRUE)
        <5>1. b * pj \notin Representable(w, TRUE)
          BY <4>2, <4>3, <4>6, OverflowStays
        <5>2. y \notin Representable(w, TRUE)
          BY <4>3, <5>1, ZenonT(40)
        <5> HIDE DEF Changes
        <5> QED
          BY <3>2, <3>3, <4>4, <4>5, <4>6, <5>2
      <4>7. CASE b \in Representable(w, TRUE)
        <5>1. PICK c \in Word(w) : c = Truncate(Truncate(source, w) * pk, w)
          <6>1. Truncate(source, w) * pk \in Int
            BY <4>2, OperandIsWord
          <6> QED
            BY <6>1, WidthPowers, TruncateIsWord
        <5>2. AsSigned(c, w) = b
          <6>1. AsSigned(source, w) * pk \in Representable(w, TRUE)
            BY <1>2, <4>3, <4>7, ZenonT(40)
          <6>2. AsSigned(Truncate(Truncate(source, w) * pk, w), w) = AsSigned(source, w) * pk
            BY <4>2, <6>1, ProductInLowBits
          <6> QED
            BY <1>2, <4>3, <5>1, <6>2
        <5>3. ChangesSign(c, j, w) <=> AsSigned(c, w) * 2^j \notin Representable(w, TRUE)
          <6>1. j \in 0 .. XLEN
            BY <1>1, <4>1
          <6> QED
            BY <5>1, <6>1, SignChanges, ZenonT(40)
        <5>4. Changes(s) <=> ChangesSign(c, j, w)
          BY <4>1, <4>2, <5>1
        <5>5. AsSigned(c, w) * 2^j = y
          BY <4>2, <4>3, <5>2
        <5>6. Changes(s) <=> y \notin Representable(w, TRUE)
          BY <5>3, <5>4, <5>5, ZenonT(40)
        <5> HIDE DEF Changes
        <5> QED
          BY <3>2, <3>3, <3>5, <4>4, <4>5, <4>7, <5>6
      <4> QED
        BY <4>6, <4>7
    <3> QED
      BY <3>4, <3>5
  <2> HIDE DEF Sums
  <2> QED
    BY <1>4, <2>1
<1> HIDE DEF S
<1>5. \A s \in Nat : s \in S
  BY <1>3, <1>4, NaturalInduction
<1>6. \A s \in 0 .. Stages : Sums(s)
  <2> HIDE DEF Sums
  <2> QED
    BY <1>1, <1>5 DEF S
<1> QED
  BY <1>6

\* The network reports an overflow if and only if the shifted integer does not fit.
LEMMA NetworkOverflows ==
    ASSUME NEW op, NEW source \in Int, NEW n \in 0 .. XLEN - 1, NEW w \in 1 .. XLEN
    PROVE  Datapath!FastShift(op, source, n, w).overflow
              <=> op = "ASL" /\ AsSigned(source, w) * 2^n \notin Representable(w, TRUE)
<1>1. Datapath!FastShift(op, source, n, w).overflow
          <=> /\ op = "ASL"
              /\ \E s \in 0 .. Stages - 1 :
                    Bit(n, s) = 1
                    /\ Datapath!StageChangesSign(Datapath!Network(op, source, n, w)[s], w, s)
  BY SameBits DEF Datapath!FastShift, Datapath!FastOverflow
<1>2. \A v, s : Datapath!StageChangesSign(v, w, s) <=> ChangesSign(Truncate(v, w), 2^s, w)
  BY SameBits DEF Datapath!StageChangesSign, ChangesSign
<1>3. CASE op # "ASL"
  BY <1>1, <1>3
<1>4. CASE op = "ASL"
  <2>1. \A s \in 0 .. Stages : Truncate(Datapath!Network(op, source, n, w)[s], w)
                                   = Truncate(Truncate(source, w) * 2^(n % 2^s), w)
    BY <1>4, LeftShifts
  <2>2. Stages \in 0 .. Stages /\ \A t \in 0 .. Stages - 1 : t \in 0 .. Stages /\ t < Stages
    BY WidthAssumption
  <2>3. (\E t \in 0 .. Stages - 1 :
            /\ t < Stages /\ Bit(n, t) = 1
            /\ ChangesSign(Truncate(Truncate(source, w) * 2^(n % 2^t), w), 2^t, w))
        <=> AsSigned(source, w) * 2^(n % 2^Stages) \notin Representable(w, TRUE)
    BY <2>2, StagesChangeSign
  <2>4. n % 2^Stages = n
    BY CountStages
  <2>5. AsSigned(source, w) * 2^(n % 2^Stages) = AsSigned(source, w) * 2^n
    BY <2>4, ZenonT(40)
  <2>6. \A s \in 0 .. Stages - 1 :
            Datapath!StageChangesSign(Datapath!Network(op, source, n, w)[s], w, s)
            <=> ChangesSign(Truncate(Truncate(source, w) * 2^(n % 2^s), w), 2^s, w)
    BY <1>2, <2>1, <2>2, ZenonT(40)
  <2>7. (\E s \in 0 .. Stages - 1 :
            Bit(n, s) = 1
            /\ Datapath!StageChangesSign(Datapath!Network(op, source, n, w)[s], w, s))
        <=> AsSigned(source, w) * 2^(n % 2^Stages) \notin Representable(w, TRUE)
    BY <2>2, <2>3, <2>6, ZenonT(40)
  <2> QED
    BY <1>1, <1>4, <2>5, <2>7, ZenonT(40)
<1> QED
  BY <1>3, <1>4

\* The bits below a position are all alike if and only if the vector is all zeros or ones.
LEMMA AlikeBits ==
    ASSUME NEW y \in Nat, NEW bit \in {0, 1}
    PROVE  \A k \in Length :
              (\A i \in Nat : i < k => Bit(y, i) = bit) <=> y % 2^k = bit * (2^k - 1)
<1> DEFINE Alike(k) == (\A i \in Nat : i < k => Bit(y, i) = bit)
                           <=> y % 2^k = bit * (2^k - 1)
           S == {k \in Nat : k \in Length => Alike(k)}
<1>1. XLEN \in Nat
  BY LengthAssumption
<1>2. 0 \in S
  <2>1. 2^0 = 1 /\ y % 1 = 0 /\ bit * (1 - 1) = 0
    OBVIOUS
  <2>2. y % 2^0 = 0 /\ bit * (2^0 - 1) = 0
    BY <2>1, ZenonT(40)
  <2>3. \A i \in Nat : ~(i < 0)
    OBVIOUS
  <2>4. Alike(0)
    BY <2>2, <2>3, ZenonT(40)
  <2> QED
    BY <2>4
<1>3. ASSUME NEW k \in Nat, k \in S PROVE k + 1 \in S
  <2>1. ASSUME k + 1 \in Length PROVE Alike(k + 1)
    <3>1. k \in Length
      BY <1>1, <2>1 DEF Length
    <3>2. Alike(k)
      <4> HIDE DEF Alike
      <4> QED
        BY <1>3, <3>1
    <3>3. PICK p \in Nat \ {0} : p = 2^k /\ 2^(k + 1) = 2 * p
      BY <1>1, <2>1, <3>1, LengthPower, LengthAssumption DEF Length
    <3>4. PICK b \in {0, 1} : b = Bit(y, k)
      BY <3>1, LengthPower, BitIsBinary
    <3>5. PICK r \in 0 .. p - 1 : r = y % p
      BY <3>3, DivisionIsExact
    <3>6. y % 2^(k + 1) = r + b * p
      <4>1. y % 2^(k + 1) = (y % 2^k) + Bit(y, k) * 2^k
        BY <3>3, LowBitsGrow
      <4> QED
        BY <3>3, <3>4, <3>5, <4>1
    <3>7. (\A i \in Nat : i < k + 1 => Bit(y, i) = bit)
          <=> (\A i \in Nat : i < k => Bit(y, i) = bit) /\ b = bit
      <4>1. \A i \in Nat : i < k + 1 <=> i < k \/ i = k
        BY <1>3
      <4> QED
        BY <1>3, <3>4, <4>1, ZenonT(40)
    <3>8. (y % 2^k = bit * (2^k - 1)) <=> r = bit * (p - 1)
      BY <3>3, <3>5
    <3>9. (y % 2^(k + 1) = bit * (2^(k + 1) - 1)) <=> r + b * p = bit * (2 * p - 1)
      BY <3>3, <3>6
    <3>10. (r = bit * (p - 1) /\ b = bit) <=> r + b * p = bit * (2 * p - 1)
      <4>1. 0 * p = 0 /\ 1 * p = p /\ 0 * (p - 1) = 0 /\ 1 * (p - 1) = p - 1
            /\ 0 * (2 * p - 1) = 0 /\ 1 * (2 * p - 1) = 2 * p - 1
        BY <3>3
      <4>2. CASE bit = 0 /\ b = 0
        BY <3>3, <3>5, <4>1, <4>2
      <4>3. CASE bit = 0 /\ b = 1
        BY <3>3, <3>5, <4>1, <4>3
      <4>4. CASE bit = 1 /\ b = 0
        BY <3>3, <3>5, <4>1, <4>4
      <4>5. CASE bit = 1 /\ b = 1
        BY <3>3, <3>5, <4>1, <4>5
      <4> QED
        BY <3>4, <4>2, <4>3, <4>4, <4>5
    <3> QED
      BY <3>2, <3>7, <3>8, <3>9, <3>10, ZenonT(40)
  <2> HIDE DEF Alike
  <2> QED
    BY <2>1
<1> HIDE DEF S
<1>4. \A k \in Nat : k \in S
  BY <1>2, <1>3, NaturalInduction
<1>5. \A k \in Length : Alike(k)
  <2> HIDE DEF Alike
  <2> QED
    BY <1>4, LengthPower DEF S
<1> QED
  BY <1>5

\* The bits below a width are those of the operand.
LEMMA OperandBits ==
    ASSUME NEW w \in 1 .. XLEN, NEW source \in Int, NEW i \in 0 .. w - 1
    PROVE  Bit(source, i) = Bit(Truncate(source, w), i)
<1>1. w \in Length /\ i \in Nat /\ i < w
  BY WidthPowers
<1>2. PICK low \in Word(w) : low = Truncate(source, w)
  BY OperandIsWord
<1>3. PICK high \in Int : source = high * 2^w + low
  <2>1. PICK p \in Nat \ {0} : p = 2^w
    BY WidthPowers
  <2>2. PICK q \in Int, r \in 0 .. p - 1 : q = source \div p /\ r = source % p /\ source = p * q + r
    BY <2>1, Division
  <2>3. source = q * p + r
    BY <2>1, <2>2
  <2> QED
    BY <1>2, <2>1, <2>2, <2>3 DEF Truncate
<1>4. Bit(high * 2^w + low, i) = Bit(low, i)
  BY <1>1, <1>2, <1>3, BitOfLow
<1> QED
  BY <1>2, <1>3, <1>4

\* The other circuit compares the bits that leave and the sign with the sign.
LEMMA ReferenceOverflows ==
    ASSUME NEW source \in Int, NEW n \in 0 .. XLEN - 1, NEW w \in 1 .. XLEN
    PROVE  Reference!AslOverflow(source, w, n)
              <=> n # 0 /\ ChangesSign(Truncate(source, w), n, w)
<1>1. w \in Nat \ {0} /\ w \in Length /\ XLEN \in Nat /\ n \in Nat
  BY WidthPowers
<1>2. PICK u \in Word(w) : u = Truncate(source, w) /\ u \in Int
  BY OperandIsWord
<1>3. CASE n >= w
  BY <1>1, <1>2, <1>3, SameBits DEF Reference!AslOverflow, ChangesSign
<1>4. CASE n < w /\ n # 0
  <2>1. PICK m \in Nat, k \in Nat, top \in Nat :
            m = w - 1 - n /\ k = n + 1 /\ w = m + k /\ w = k + m /\ top = w - 1 /\ top = m + n
    BY <1>1, <1>4
  <2>2. m \in Length /\ k \in Length /\ 2^m \in Nat \ {0} /\ 2^k \in Nat \ {0}
    BY <1>1, <2>1, PartPowers
  <2>3. PICK low \in Word(m), y \in Word(k) : u = y * 2^m + low
    <3>1. m \in Nat /\ k \in Nat /\ w = m + k
      BY <2>1
    <3>2. u \in Word(w) /\ w \in Length
      BY <1>1, <1>2
    <3> QED
      BY <3>1, <3>2, WordSplits, ZenonT(40)
  <2>4. y \in Int /\ y \in Nat
    BY <2>2, <2>3 DEF Word
  <2>5. u \div 2^m = y
    <3>1. (y * 2^m + low) \div 2^m = y
      BY <2>2, <2>3, <2>4, PartsOfJoin
    <3> QED
      BY <2>3, <3>1
  <2>6. \A i \in 0 .. n : Bit(source, m + i) = Bit(y, i)
    <3>1. TAKE i \in 0 .. n
    <3>2. PICK whole \in Nat : whole = m + i /\ i \in Nat /\ whole \in 0 .. w - 1
      BY <1>1, <2>1
    <3>3. whole \in Length
      BY <1>1, <3>2, WidthPowers DEF Length
    <3>4. Bit(y * 2^m + low, whole) = Bit(y, i)
      <4>1. m \in Nat /\ i \in Nat /\ whole = m + i
        BY <2>1, <3>2
      <4> QED
        BY <2>3, <2>4, <3>3, <4>1, BitOfHigh
    <3>5. Bit(source, whole) = Bit(Truncate(source, w), whole)
      BY <3>2, OperandBits
    <3> QED
      BY <1>2, <2>3, <3>2, <3>4, <3>5
  <2>7. PICK sign \in {0, 1} : sign = Bit(y, n) /\ sign = Bit(source, w - 1)
    <3>1. n \in Length
      BY <1>1 DEF Length
    <3>2. n \in 0 .. n /\ m + n = w - 1
      BY <1>1, <2>1
    <3> QED
      BY <2>4, <2>6, <3>1, <3>2, LengthPower, BitIsBinary
  <2>8. (\E i \in w - 1 - n .. w - 1 : Bit(source, i) # Bit(source, w - 1))
        <=> \E i \in 0 .. n : Bit(y, i) # sign
    <3>1. \A i \in w - 1 - n .. w - 1 : i - m \in 0 .. n /\ i = m + (i - m)
      BY <1>1, <2>1
    <3>2. \A i \in 0 .. n : m + i \in w - 1 - n .. w - 1
      BY <1>1, <2>1
    <3> QED
      BY <2>6, <2>7, <3>1, <3>2, ZenonT(40)
  <2>9. (\A i \in Nat : i < k => Bit(y, i) = sign) <=> y = sign * (2^k - 1)
    <3>1. y % 2^k = y
      <4>1. Truncate(y, k) = y
        BY <2>2, <2>3, TruncateOfWord
      <4> QED
        BY <4>1 DEF Truncate
    <3>2. (\A i \in Nat : i < k => Bit(y, i) = sign) <=> y % 2^k = sign * (2^k - 1)
      BY <2>2, <2>4, <2>7, AlikeBits
    <3> QED
      BY <3>1, <3>2
  <2>10. (\E i \in 0 .. n : Bit(y, i) # sign) <=> y \notin {0, 2^k - 1}
    <3>1. \A i : i \in 0 .. n <=> i \in Nat /\ i < k
      BY <1>1, <2>1
    <3>2. \A other \in {0, 1} : y = other * (2^k - 1) => sign = other
      <4>1. TAKE other \in {0, 1}
      <4>2. HAVE y = other * (2^k - 1)
      <4>3. y % 2^k = other * (2^k - 1)
        <5>1. Truncate(y, k) = y
          BY <2>2, <2>3, TruncateOfWord
        <5> QED
          BY <4>2, <5>1 DEF Truncate
      <4>4. \A i \in Nat : i < k => Bit(y, i) = other
        BY <2>2, <2>4, <4>3, AlikeBits
      <4>5. n \in Nat /\ n < k
        BY <1>1, <2>1
      <4> QED
        BY <2>7, <4>4, <4>5
    <3>3. 0 * (2^k - 1) = 0 /\ 1 * (2^k - 1) = 2^k - 1
      BY <2>2
    <3>4. y \in {0, 2^k - 1} <=> y = sign * (2^k - 1)
      BY <2>7, <3>2, <3>3
    <3> QED
      BY <2>9, <3>1, <3>4, ZenonT(40)
  <2>11. ChangesSign(u, n, w) <=> y \notin {0, 2^k - 1}
    BY <1>1, <1>4, <2>1, <2>5 DEF ChangesSign
  <2>12. Reference!AslOverflow(source, w, n)
         <=> \E i \in w - 1 - n .. w - 1 : Bit(source, i) # Bit(source, w - 1)
    BY <1>1, <1>4, SameBits DEF Reference!AslOverflow
  <2> QED
    BY <1>2, <1>4, <2>8, <2>10, <2>11, <2>12, ZenonT(40)
<1>5. CASE n = 0
  BY <1>5 DEF Reference!AslOverflow
<1> QED
  BY <1>1, <1>3, <1>4, <1>5

-----------------------------------------------------------------------------
(* The answer to a request.                                                *)

\* The operand's width, a request's value, its carry and its overflow in the executable
\* model.
WidthOf(r) == Width[r.operand_size]

Value(r) == Model!ShiftedValue(r.operation, r.source, r.count, WidthOf(r), r.extend_in)

Carry(r) == Model!ShiftedCarry(r.operation, r.source, r.count, WidthOf(r), r.extend_in)

Overflow(r) ==
    /\ r.operation = "ASL"
    /\ AsSigned(r.source, WidthOf(r)) * 2^r.count \notin Representable(WidthOf(r), TRUE)

\* The response they make.
Answer(r) ==
    [tag |-> r.tag, result |-> Value(r), flags_valid |-> r.update_flags,
     negative |-> SignSet(Value(r), WidthOf(r)), zero |-> Value(r) = 0,
     overflow |-> Overflow(r), carry |-> Carry(r),
     extend_valid |-> RotatesExtend(r.operation),
     extend_out |-> IF RotatesExtend(r.operation) THEN Carry(r) ELSE r.extend_in = 1]

\* What the fields of a request are.
LEMMA RequestFields ==
    ASSUME NEW r \in ShiftRequest
    PROVE  /\ r.tag \in Tag /\ r.operation \in Operation /\ r.update_flags \in BOOLEAN
           /\ r.source \in Word(XLEN) /\ r.source \in Int /\ r.count \in 0 .. XLEN - 1
           /\ r.extend_in \in {0, 1} /\ r.operand_size \in OperandSize
           /\ WidthOf(r) \in 1 .. XLEN /\ XLEN % WidthOf(r) = 0
           /\ 8 * (WidthOf(r) + 1) > XLEN
<1>1. r.source \in Int
  BY LengthPower, WidthAssumption, LengthAssumption DEF ShiftRequest, Word
<1>2. r.count \in 0 .. XLEN - 1
  BY CountRange DEF ShiftRequest
<1>3. /\ WidthOf(r) \in 1 .. XLEN /\ XLEN % WidthOf(r) = 0 /\ 8 * (WidthOf(r) + 1) > XLEN
      /\ r.operand_size \in OperandSize
  <2>1. r.operand_size \in OperandSize
    BY DEF ShiftRequest
  <2> QED
    BY <2>1, WidthAssumption, LengthAssumption DEF WidthOf
<1> QED
  BY <1>1, <1>2, <1>3 DEF ShiftRequest

\* A carry is a truth value.
LEMMA CarryIsBoolean ==
    ASSUME NEW op \in Operation, NEW source, NEW n, NEW w, NEW x
    PROVE  Model!ShiftedCarry(op, source, n, w, x) \in BOOLEAN
<1>1. CASE op \in {"ASL", "LSL"}
  BY <1>1 DEF Model!ShiftedCarry
<1>2. CASE op = "ASR"
  BY <1>2 DEF Model!ShiftedCarry
<1>3. CASE op = "LSR"
  BY <1>3 DEF Model!ShiftedCarry
<1>4. CASE op = "ROL"
  BY <1>4 DEF Model!ShiftedCarry
<1>5. CASE op = "ROR"
  BY <1>5, SameBits DEF Model!ShiftedCarry
<1>6. CASE op \in {"ROXL", "ROXR"}
  BY <1>6 DEF Model!ShiftedCarry, Model!RotateExtends
<1> QED
  BY <1>1, <1>2, <1>3, <1>4, <1>5, <1>6 DEF Operation

\* The last bit out of operand v shifted or rotated by n, from it or from the result.
LastOut(op, v, n, w, result) ==
    IF op \in {"ASL", "LSL"} THEN (n # 0 /\ n <= w) /\ Bit(v, w - n) = 1
    ELSE IF op = "ASR" THEN n # 0 /\ Bit(v, IF n >= w THEN w - 1 ELSE n - 1) = 1
    ELSE IF op = "LSR" THEN (n # 0 /\ n <= w) /\ Bit(v, n - 1) = 1
    ELSE IF op = "ROL" THEN n # 0 /\ Bit(result, 0) = 1
    ELSE n # 0 /\ Bit(result, w - 1) = 1

\* It is the carry of the executable model.
LEMMA ModelCarry ==
    ASSUME NEW op \in OrdinaryOperation, NEW v, NEW n \in Nat, NEW w \in Nat, NEW x
    PROVE  Model!ShiftedCarry(op, v, n, w, x)
              <=> LastOut(op, v, n, w, Model!ShiftedValue(op, v, n, w, x))
<1> DEFINE result == Model!ShiftedValue(op, v, n, w, x)
<1>7. n # 0 /\ n <= w <=> n \in 1 .. w
  OBVIOUS
<1>8. n # 0 <=> n > 0
  OBVIOUS
<1>9. (IF n >= w THEN w - 1 ELSE n - 1) = IF n < w THEN n - 1 ELSE w - 1
  OBVIOUS
<1>10. \A u, i : Model!Bit(u, i) = Bit(u, i) /\ Model!SignSet(u, i) = (Bit(u, i - 1) = 1)
  BY SameBits DEF SignSet
<1> HIDE DEF result
<1>1. CASE op = "ASL"
  <2>1. LastOut(op, v, n, w, result) <=> (n # 0 /\ n <= w) /\ Bit(v, w - n) = 1
    BY <1>1 DEF LastOut
  <2>2. Model!ShiftedCarry(op, v, n, w, x) <=> n \in 1 .. w /\ Bit(v, w - n) = 1
    BY <1>1, <1>10, Zenon DEF Model!ShiftedCarry, Model!RotateExtends, result
  <2> QED
    BY <1>7, <2>1, <2>2, Zenon DEF result
<1>2. CASE op = "LSL"
  <2>1. LastOut(op, v, n, w, result) <=> (n # 0 /\ n <= w) /\ Bit(v, w - n) = 1
    BY <1>2 DEF LastOut
  <2>2. Model!ShiftedCarry(op, v, n, w, x) <=> n \in 1 .. w /\ Bit(v, w - n) = 1
    BY <1>2, <1>10, Zenon DEF Model!ShiftedCarry, Model!RotateExtends, result
  <2> QED
    BY <1>7, <2>1, <2>2, Zenon DEF result
<1>3. CASE op = "ASR"
  <2>1. LastOut(op, v, n, w, result) <=> n # 0 /\ Bit(v, IF n >= w THEN w - 1 ELSE n - 1) = 1
    BY <1>3 DEF LastOut
  <2>2. Model!ShiftedCarry(op, v, n, w, x) <=> n > 0 /\ Bit(v, IF n < w THEN n - 1 ELSE w - 1) = 1
    BY <1>3, <1>10, Zenon DEF Model!ShiftedCarry, Model!RotateExtends, result
  <2> QED
    BY <1>8, <1>9, <2>1, <2>2, Zenon DEF result
<1>4. CASE op = "LSR"
  <2>1. LastOut(op, v, n, w, result) <=> (n # 0 /\ n <= w) /\ Bit(v, n - 1) = 1
    BY <1>4 DEF LastOut
  <2>2. Model!ShiftedCarry(op, v, n, w, x) <=> n \in 1 .. w /\ Bit(v, n - 1) = 1
    BY <1>4, <1>10, Zenon DEF Model!ShiftedCarry, Model!RotateExtends, result
  <2> QED
    BY <1>7, <2>1, <2>2, Zenon DEF result
<1>5. CASE op = "ROL"
  <2>1. LastOut(op, v, n, w, result) <=> n # 0 /\ Bit(result, 0) = 1
    BY <1>5 DEF LastOut
  <2>2. Model!ShiftedCarry(op, v, n, w, x) <=> n > 0 /\ Bit(result, 0) = 1
    BY <1>5, <1>10, Zenon DEF Model!ShiftedCarry, Model!RotateExtends, result
  <2> QED
    BY <1>8, <2>1, <2>2, Zenon DEF result
<1>6. CASE op = "ROR"
  <2>1. LastOut(op, v, n, w, result) <=> n # 0 /\ Bit(result, w - 1) = 1
    BY <1>6 DEF LastOut
  <2>2. Model!ShiftedCarry(op, v, n, w, x) <=> n > 0 /\ Bit(result, w - 1) = 1
    BY <1>6, <1>10, Zenon DEF Model!ShiftedCarry, Model!RotateExtends, result
  <2> QED
    BY <1>8, <2>1, <2>2, Zenon DEF result
<1> QED
  BY <1>1, <1>2, <1>3, <1>4, <1>5, <1>6 DEF OrdinaryOperation, result

\* It is the network's carry.
LEMMA OrdinaryCarry ==
    ASSUME NEW op \in OrdinaryOperation, NEW v, NEW n, NEW w, NEW result
    PROVE  Datapath!FastCarry(op, v, n, w, result) <=> LastOut(op, v, n, w, result)
<1>10. \A u, i : Datapath!Bit(u, i) = Bit(u, i) /\ Datapath!SignSet(u, i) = (Bit(u, i - 1) = 1)
  BY SameBits DEF SignSet
<1>1. CASE op = "ASL"
  BY <1>1, <1>10, Zenon DEF Datapath!FastCarry, LastOut
<1>2. CASE op = "LSL"
  BY <1>2, <1>10, Zenon DEF Datapath!FastCarry, LastOut
<1>3. CASE op = "ASR"
  BY <1>3, <1>10, Zenon DEF Datapath!FastCarry, LastOut
<1>4. CASE op = "LSR"
  BY <1>4, <1>10, Zenon DEF Datapath!FastCarry, LastOut
<1>5. CASE op = "ROL"
  BY <1>5, <1>10, Zenon DEF Datapath!FastCarry, LastOut
<1>6. CASE op = "ROR"
  BY <1>6, <1>10, Zenon DEF Datapath!FastCarry, LastOut
<1> QED
  BY <1>1, <1>2, <1>3, <1>4, <1>5, <1>6 DEF OrdinaryOperation

\* It is the carry of the other circuit.
LEMMA ReferenceCarries ==
    ASSUME NEW op \in OrdinaryOperation, NEW v, NEW n, NEW w, NEW result
    PROVE  Reference!ReferenceCarry(op, v, n, w, result) <=> LastOut(op, v, n, w, result)
<1>10. \A u, i : Reference!Bit(u, i) = Bit(u, i) /\ Reference!SignSet(u, i) = (Bit(u, i - 1) = 1)
  BY SameBits DEF SignSet
<1>1. CASE op = "ASL"
  BY <1>1, <1>10, Zenon DEF Reference!ReferenceCarry, LastOut
<1>2. CASE op = "LSL"
  BY <1>2, <1>10, Zenon DEF Reference!ReferenceCarry, LastOut
<1>3. CASE op = "ASR"
  BY <1>3, <1>10, Zenon DEF Reference!ReferenceCarry, LastOut
<1>4. CASE op = "LSR"
  BY <1>4, <1>10, Zenon DEF Reference!ReferenceCarry, LastOut
<1>5. CASE op = "ROL"
  BY <1>5, <1>10, Zenon DEF Reference!ReferenceCarry, LastOut
<1>6. CASE op = "ROR"
  BY <1>6, <1>10, Zenon DEF Reference!ReferenceCarry, LastOut
<1> QED
  BY <1>1, <1>2, <1>3, <1>4, <1>5, <1>6 DEF OrdinaryOperation

\* A vector of the operand's width is a register.
LEMMA ValueIsRegister ==
    ASSUME NEW w \in 1 .. XLEN, NEW v \in Word(w)
    PROVE  v \in Word(XLEN) /\ v \in Int
<1>1. v \in Word(XLEN)
  BY WidthPowers
<1> QED
  BY <1>1, WidthPowers DEF Word

\* The unit answers an ordinary request as the model does.
LEMMA OrdinaryAnswers ==
    ASSUME NEW r \in ShiftRequest, ~RotatesExtend(r.operation)
    PROVE  OrdinaryResponse(r) = Answer(r) /\ Value(r) \in Word(WidthOf(r))
<1> DEFINE w == WidthOf(r)
           d == Datapath!FastShift(r.operation, r.source, r.count, w)
<1>1. r.operation \in OrdinaryOperation
  BY RequestFields DEF RotatesExtend, OrdinaryOperation, Operation
<1>2. r.source \in Int /\ r.count \in 0 .. XLEN - 1 /\ w \in 1 .. XLEN /\ XLEN % w = 0
  BY RequestFields
<1>3. d.result = Value(r) /\ Value(r) \in Word(w)
  BY <1>1, <1>2, OrdinaryValue DEF Value
<1>4. d.negative = SignSet(d.result, w) /\ d.zero = (d.result = 0)
      /\ d.overflow = Datapath!FastOverflow(r.operation,
             Datapath!Network(r.operation, r.source, r.count, w), r.count, w)
      /\ d.carry = Datapath!FastCarry(r.operation, r.source, r.count, w, d.result)
  BY SameBits DEF Datapath!FastShift
<1>5. d.overflow = Overflow(r)
  <2>1. d.overflow <=> Overflow(r)
    BY <1>2, NetworkOverflows DEF Overflow
  <2>2. d.overflow \in BOOLEAN /\ Overflow(r) \in BOOLEAN
    BY <1>4 DEF Datapath!FastOverflow, Overflow
  <2> QED
    BY <2>1, <2>2
<1>6. d.carry <=> Carry(r)
  <2> HIDE DEF d
  <2> QED
    BY <1>1, <1>2, <1>3, <1>4, OrdinaryCarry, ModelCarry, LengthAssumption DEF Carry, Value
<1>7. d.carry \in BOOLEAN
  BY <1>4 DEF Datapath!FastCarry
<1>8. Carry(r) \in BOOLEAN
  BY RequestFields, CarryIsBoolean DEF Carry
<1> HIDE DEF d
<1>9. OrdinaryResponse(r) =
        [tag |-> r.tag, result |-> d.result, flags_valid |-> r.update_flags,
         negative |-> d.negative, zero |-> d.zero, overflow |-> d.overflow,
         carry |-> d.carry, extend_valid |-> FALSE, extend_out |-> r.extend_in = 1]
  BY DEF OrdinaryResponse, d, WidthOf
<1>10. RotatesExtend(r.operation) = FALSE
  BY DEF RotatesExtend
<1>11. d.carry = Carry(r)
  BY <1>6, <1>7, <1>8
<1> QED
  BY <1>3, <1>4, <1>5, <1>9, <1>10, <1>11, Zenon DEF Answer

-----------------------------------------------------------------------------
(* The or of two parts of a register.                                      *)

\* f is the or of ever more of the lower bits of two vectors.
Either(f, x, y, m) ==
    f = [i \in 0 .. m |->
            IF i = 0 THEN 0
            ELSE IF Bit(x, i - 1) = 1 \/ Bit(y, i - 1) = 1 THEN f[i - 1] + 2^(i - 1)
            ELSE f[i - 1]]

\* The or of vectors that have no set bit in common is their sum.
LEMMA OrOfDisjoint ==
    ASSUME NEW m \in Length, NEW x \in Word(m), NEW y \in Word(m),
           \A i \in 0 .. m - 1 : Bit(x, i) = 0 \/ Bit(y, i) = 0
    PROVE  BitwiseOr(x, y, m) = x + y
<1> DEFINE c == [i \in 0 .. m |-> (x % 2^i) + (y % 2^i)]
           f == CHOOSE f : Either(f, x, y, m)
<1>1. m \in Nat /\ XLEN \in Nat /\ x \in Nat /\ y \in Nat
  BY LengthPower, LengthAssumption DEF Word
<1>2. c[0] = 0
  <2>1. x % 1 = 0 /\ y % 1 = 0 /\ 2^0 = 1 /\ 0 + 0 = 0
    BY <1>1
  <2>2. (x % 2^0) + (y % 2^0) = 0
    BY <2>1, ZenonT(40)
  <2> QED
    BY <1>1, <2>2
<1>3. ASSUME NEW i \in 0 .. m - 1
      PROVE  c[i + 1] = IF Bit(x, i) = 1 \/ Bit(y, i) = 1 THEN c[i] + 2^i ELSE c[i]
  <2>1. i \in Nat /\ i \in Length /\ i \in 0 .. XLEN /\ i \in 0 .. m /\ i + 1 \in 0 .. m
    BY <1>1, LengthPower DEF Length
  <2>2. PICK p \in Nat \ {0} : p = 2^i /\ 2^(i + 1) = 2 * p
    BY <2>1, LengthPower, LengthAssumption
  <2>3. PICK a \in {0, 1}, lx \in Nat :
            a = Bit(x, i) /\ lx = x % 2^i /\ x % 2^(i + 1) = lx + a * p
    <3>1. x % 2^i \in Nat /\ Bit(x, i) \in {0, 1}
          /\ x % 2^(i + 1) = (x % 2^i) + Bit(x, i) * 2^i
      <4>1. 2^i \in Nat \ {0} /\ 2^(i + 1) = 2 * 2^i
        BY <2>2
      <4> QED
        BY <1>1, <2>1, <4>1, LowBitsGrow
    <3> QED
      BY <2>2, <3>1
  <2>4. PICK b \in {0, 1}, ly \in Nat :
            b = Bit(y, i) /\ ly = y % 2^i /\ y % 2^(i + 1) = ly + b * p
    <3>1. y % 2^i \in Nat /\ Bit(y, i) \in {0, 1}
          /\ y % 2^(i + 1) = (y % 2^i) + Bit(y, i) * 2^i
      <4>1. 2^i \in Nat \ {0} /\ 2^(i + 1) = 2 * 2^i
        BY <2>2
      <4> QED
        BY <1>1, <2>1, <4>1, LowBitsGrow
    <3> QED
      BY <2>2, <3>1
  <2>5. c[i] = lx + ly /\ c[i + 1] = (lx + a * p) + (ly + b * p)
    BY <2>1, <2>3, <2>4
  <2>6. 0 * p = 0 /\ 1 * p = p
    BY <2>2
  <2>7. a = 0 \/ b = 0
    BY <2>3, <2>4
  <2> HIDE DEF c
  <2>8. CASE a = 0 /\ b = 0
    BY <2>2, <2>3, <2>4, <2>5, <2>6, <2>8
  <2>9. CASE a = 1 /\ b = 0
    BY <2>2, <2>3, <2>4, <2>5, <2>6, <2>9
  <2>10. CASE a = 0 /\ b = 1
    BY <2>2, <2>3, <2>4, <2>5, <2>6, <2>10
  <2> QED
    BY <2>3, <2>4, <2>7, <2>8, <2>9, <2>10
<1>4. Either(c, x, y, m)
  <2>1. ASSUME NEW i \in 0 .. m
        PROVE  c[i] = IF i = 0 THEN 0
                      ELSE IF Bit(x, i - 1) = 1 \/ Bit(y, i - 1) = 1 THEN c[i - 1] + 2^(i - 1)
                      ELSE c[i - 1]
    <3> HIDE DEF c
    <3>1. CASE i = 0
      BY <1>2, <3>1
    <3>2. CASE i # 0
      <4>1. PICK t \in 0 .. m - 1 : t = i - 1 /\ i = t + 1
        BY <1>1, <3>2
      <4> QED
        BY <1>3, <3>2, <4>1
    <3> QED
      BY <3>1, <3>2
  <2>2. c = [i \in 0 .. m |-> c[i]]
    OBVIOUS
  <2> HIDE DEF c
  <2> QED
    BY <2>1, <2>2 DEF Either
<1>5. Either(f, x, y, m)
  <2> HIDE DEF c
  <2> QED
    BY <1>4
<1>6. BitwiseOr(x, y, m) = f[m]
  BY DEF BitwiseOr, Either
<1>7. c[m] = x + y
  <2>1. x % 2^m = x /\ y % 2^m = y
    <3>1. Truncate(x, m) = x /\ Truncate(y, m) = y
      BY LengthPower, TruncateOfWord
    <3> QED
      BY <3>1 DEF Truncate
  <2> QED
    BY <1>1, <2>1
<1> HIDE DEF f, c
<1>8. f[0] = c[0]
  BY <1>1, <1>2, <1>5 DEF Either
<1>9. ASSUME NEW i \in 0 .. m - 1, f[i] = c[i] PROVE f[i + 1] = c[i + 1]
  <2>1. i + 1 \in 0 .. m /\ i + 1 # 0 /\ (i + 1) - 1 = i
    BY <1>1
  <2>2. f[i + 1] = IF Bit(x, i) = 1 \/ Bit(y, i) = 1 THEN f[i] + 2^i ELSE f[i]
    BY <1>5, <2>1 DEF Either
  <2> QED
    BY <1>3, <1>9, <2>2
<1>10. f[m] = c[m]
  BY <1>1, <1>8, <1>9, StepsAgree
<1> QED
  BY <1>6, <1>7, <1>10

\* A vector above another is their sum, in either order.
LEMMA OrJoins ==
    ASSUME NEW k \in Nat, NEW rest \in Nat, XLEN = k + rest,
           NEW low \in Word(k), NEW high \in Word(rest), NEW upper, upper = high * 2^k
    PROVE  /\ upper \in Word(XLEN) /\ low \in Word(XLEN) /\ upper \in Int /\ low \in Int
           /\ upper + low \in Word(XLEN)
           /\ BitwiseOr(upper, low, XLEN) = upper + low
           /\ BitwiseOr(low, upper, XLEN) = upper + low
<1>1. XLEN \in Length /\ XLEN \in Nat
  BY LengthAssumption DEF Length
<1>2. k \in Length /\ rest \in Length /\ 2^k \in Nat \ {0} /\ 2^rest \in Nat \ {0}
  BY <1>1, PartPowers
<1>3. 0 \in Word(k) /\ 0 \in Word(rest) /\ low \in Int /\ high \in Int /\ low \in 0 .. 2^k - 1
  BY <1>2 DEF Word
<1>4. upper \in Int /\ upper = high * 2^k + 0
  BY <1>2, <1>3
<1>5. upper \in Word(XLEN)
  <2>1. high * 2^k + 0 \in Word(XLEN)
    BY <1>1, <1>3, JoinIsWord
  <2> QED
    BY <1>4, <2>1
<1>6. low \in Word(XLEN)
  <2>1. 0 * 2^k + low \in Word(XLEN)
    BY <1>1, <1>3, JoinIsWord
  <2>2. 0 * 2^k + low = low
    BY <1>2, <1>3
  <2> QED
    BY <2>1, <2>2
<1>7. upper + low \in Word(XLEN)
  <2>1. high * 2^k + low \in Word(XLEN)
    BY <1>1, JoinIsWord
  <2> QED
    BY <2>1
<1>8. ASSUME NEW i \in 0 .. XLEN - 1 PROVE Bit(upper, i) = 0 \/ Bit(low, i) = 0
  <2>1. i \in Nat /\ i \in Length
    BY <1>1 DEF Length
  <2>2. PICK p \in Nat \ {0} : p = 2^i
    BY <2>1, LengthPower
  <2>3. 0 \div p = 0 /\ 0 % 2 = 0
    BY <2>2
  <2>4. CASE i < k
    <3>1. Bit(high * 2^k + 0, i) = Bit(0, i)
      BY <1>2, <1>3, <2>1, <2>4, BitOfLow
    <3> QED
      BY <1>4, <2>2, <2>3, <3>1 DEF Bit
  <2>5. CASE i >= k
    <3>1. PICK t \in Nat, pt \in Nat \ {0} : i = k + t /\ pt = 2^t /\ p = 2^k * pt
      <4>1. PICK t \in Nat : i = k + t
        BY <2>1, <2>5
      <4>2. 2^t \in Nat \ {0} /\ 2^i = 2^k * 2^t
        BY <2>1, <4>1, PartPowers
      <4> QED
        BY <2>2, <4>1, <4>2
    <3>2. PICK pk \in Nat \ {0} : pk = 2^k
      BY <1>2
    <3>3. pk * (pt - 1) >= 0 /\ pk * (pt - 1) = pk * pt - pk
      BY <3>1, <3>2
    <3>4. low \in 0 .. p - 1
      BY <1>3, <2>2, <3>1, <3>2, <3>3
    <3>5. (p * 0 + low) \div p = 0 /\ p * 0 + low = low
      BY <1>3, <2>2, <3>4, DivisionIsUnique
    <3> QED
      BY <2>2, <2>3, <3>5 DEF Bit
  <2> QED
    BY <1>2, <2>1, <2>4, <2>5
<1>9. BitwiseOr(upper, low, XLEN) = upper + low
  BY <1>1, <1>5, <1>6, <1>8, OrOfDisjoint
<1>10. BitwiseOr(low, upper, XLEN) = low + upper
  BY <1>1, <1>5, <1>6, <1>8, OrOfDisjoint
<1>11. low + upper = upper + low
  BY <1>3, <1>4
<1> QED
  BY <1>3, <1>4, <1>5, <1>6, <1>7, <1>9, <1>10, <1>11

-----------------------------------------------------------------------------
(* The two passes of a rotate through extend.                              *)

\* The ring of an operand over the extend bit.
LEMMA RingOfOperand ==
    ASSUME NEW w \in 1 .. XLEN, NEW u \in Word(w), NEW x \in {0, 1}, NEW ring, ring = u * 2 + x
    PROVE  /\ u \in Nat /\ ring \in Nat /\ ring \in Word(w + 1)
           /\ ring \div 2 = u /\ ring % 2 = x
           /\ \A k \in Nat, j \in Length :
                 j = k + 1 => ring \div 2^j = u \div 2^k /\ Bit(ring, j) = Bit(u, k)
<1>1. w \in Nat \ {0} /\ w \in Length /\ w + 1 \in Length
  BY WidthPowers
<1>2. PICK p \in Nat \ {0} : p = 2^w /\ 2^(w + 1) = 2 * p
  BY WidthPowers
<1>3. u \in 0 .. p - 1
  BY <1>2 DEF Word
<1>4. ring \in Nat /\ ring \in Word(w + 1)
  BY <1>2, <1>3 DEF Word
<1>5. ring \div 2 = u /\ ring % 2 = x
  BY <1>3
<1>6. ASSUME NEW k \in Nat, NEW j \in Length, j = k + 1
      PROVE  ring \div 2^j = u \div 2^k /\ Bit(ring, j) = Bit(u, k)
  <2>1. PICK pk \in Nat \ {0} : pk = 2^k /\ 2^j = 2 * pk
    <3>1. 1 \in Nat /\ j = 1 + k /\ 2^1 = 2
      BY <1>6
    <3>2. 2^k \in Nat \ {0} /\ 2^j = 2^1 * 2^k
      BY <3>1, PartPowers
    <3> QED
      BY <3>1, <3>2
  <2>2. ring \div (2 * pk) = (ring \div 2) \div pk
    <3>1. 2 \in Nat \ {0} /\ ring \in Int
      BY <1>4
    <3> QED
      BY <2>1, <3>1, QuotientOfQuotient, ZenonT(40)
  <2> QED
    BY <1>5, <2>1, <2>2 DEF Bit
<1> QED
  BY <1>3, <1>4, <1>5, <1>6

\* What the ring of w + 1 bits is after a rotation by k that exchanges its parts.
RingTurns(ring, k, m, below, low, high, w) ==
    /\ RotatedLeft(ring, k, w + 1) \div 2 = low * 2^below + (high \div 2)
    /\ Bit(RotatedLeft(ring, k, w + 1), 0) = Bit(ring, m)
    /\ high \div 2 \in Word(below)

\* The ring rotated to the left by k: the operand above, and the bit below it, which crossed
\* the end.
LEMMA RingParts ==
    ASSUME NEW w \in 1 .. XLEN, NEW k \in 1 .. w, NEW ring \in Word(w + 1),
           NEW m, m = w + 1 - k, NEW below, below = k - 1, NEW low \in Word(m),
           NEW high \in Word(k), ring = high * 2^m + low
    PROVE  RingTurns(ring, k, m, below, low, high, w)
<1>1. w \in Nat \ {0} /\ w + 1 \in Length /\ k \in Nat /\ m \in Nat /\ below \in Nat
      /\ w + 1 = k + m /\ k = 1 + below /\ w + 1 = m + k
  BY WidthPowers
<1>2. k \in Length /\ m \in Length
  BY <1>1, PartPowers
<1>3. PICK pb \in Nat \ {0} : pb = 2^below /\ 2^k = 2 * pb
  <2>0. 2^1 = 2
    OBVIOUS
  <2>1. PICK one \in Nat : one = 1 /\ k = one + below
    BY <1>1
  <2>2. 2^below \in Nat \ {0} /\ 2^k = 2^one * 2^below
    <3>1. below \in Nat /\ one \in Nat /\ k \in Length /\ k = one + below
      BY <1>1, <1>2, <2>1
    <3> QED
      BY <3>1, PartPowers, ZenonT(60)
  <2> QED
    BY <2>0, <2>1, <2>2
<1>4. PICK pm \in Nat \ {0} : pm = 2^m
  BY <1>2, LengthPower
<1>5. low \in Int /\ high \in 0 .. 2 * pb - 1 /\ high \in Int
  BY <1>3, <1>4 DEF Word
<1>6. RotatedLeft(ring, k, w + 1) = low * 2^k + high
  <2>1. PICK whole \in Length : whole = w + 1 /\ whole = k + m
    BY <1>1
  <2>2. RotatedLeft(high * 2^m + low, k, whole) = low * 2^k + high
    BY <1>1, <2>1, RotationExchanges
  <2> QED
    BY <2>1, <2>2
<1>7. PICK lp \in Int : lp = low * pb /\ low * 2^k = 2 * lp
  BY <1>3, <1>5
<1>8. RotatedLeft(ring, k, w + 1) = 2 * lp + high
  BY <1>6, <1>7
<1>9. (2 * lp + high) \div 2 = lp + (high \div 2) /\ (2 * lp + high) % 2 = high % 2
  BY <1>5, <1>7
<1>10. Bit(2 * lp + high, 0) = high % 2
  <2>1. 2^0 = 1 /\ (2 * lp + high) \div 1 = 2 * lp + high
    BY <1>5, <1>7
  <2> QED
    BY <1>9, <2>1, Zenon DEF Bit
<1>11. Bit(ring, m) = high % 2
  <2>1. (high * 2^m + low) \div 2^m = high
    BY <1>2, <1>5, PartsOfJoin
  <2> QED
    BY <2>1 DEF Bit
<1>12. high \div 2 \in Word(below)
  BY <1>3, <1>5 DEF Word
<1> QED
  BY <1>3, <1>7, <1>8, <1>9, <1>10, <1>11, <1>12 DEF RingTurns

\* What a shift to the left leaves of an operand.
LeavesLow(low, high, a, b, w) == Truncate((high * 2^a + low) * 2^b, w) = low * 2^b

\* It leaves the part below as many bits as it shifts.
LEMMA LowPartShifts ==
    ASSUME NEW w \in 1 .. XLEN, NEW a \in Nat, NEW b \in Nat, w = a + b,
           NEW low \in Word(a), NEW high \in Int
    PROVE  LeavesLow(low, high, a, b, w)
<1>1. w \in Length
  BY WidthPowers
<1>2. PICK pa \in Nat \ {0}, pb \in Nat \ {0} : pa = 2^a /\ pb = 2^b /\ 2^w = pa * pb
  BY <1>1, PartPowers
<1>3. low \in 0 .. pa - 1
  BY <1>2 DEF Word
<1>4. PICK pw \in Nat \ {0} : pw = pa * pb
  BY <1>2
<1>5. PICK y \in 0 .. pw - 1 : y = low * pb
  <2>1. low * pb >= 0 /\ low * pb \in Int
    BY <1>2, <1>3
  <2>2. (pa - 1 - low) * pb >= 0 /\ (pa - 1 - low) * pb = pa * pb - pb - low * pb
    BY <1>2, <1>3
  <2> QED
    BY <1>2, <1>4, <2>1, <2>2
<1>6. (high * pa + low) * pb = pw * high + y
  <2>1. (high * pa + low) * pb = (pa * pb) * high + low * pb
    BY <1>2, <1>3
  <2> QED
    BY <1>2, <1>4, <1>5, <2>1
<1>7. (pw * high + y) % pw = y
  BY <1>4, <1>5, DivisionIsUnique
<1> QED
  BY <1>2, <1>4, <1>5, <1>6, <1>7 DEF LeavesLow, Truncate

\* A vector splits into a part of a bits below one of b bits.
SplitsAt(v, a, b) == \E low \in Word(a), high \in Word(b) : v = high * 2^a + low

\* Every vector as long does.
LEMMA VectorSplits ==
    ASSUME NEW a \in Nat, NEW b \in Nat, NEW whole \in Length, whole = a + b,
           NEW v \in Word(whole)
    PROVE  SplitsAt(v, a, b)
  BY WordSplits, Zenon DEF SplitsAt

\* How the ring splits under a rotation to the left: the parts the passes keep.
LeftParts(u, ring, value, n, m, below, w) ==
    \E low \in Word(m), high \in Word(below) :
        /\ Truncate(Truncate(value, w) * 2^below, w) = low * 2^below
        /\ u \div 2^m = high
        /\ RotatedLeft(ring, n, w + 1) \div 2 = low * 2^below + high
        /\ Bit(RotatedLeft(ring, n, w + 1), 0) = Bit(ring, m)
        /\ Truncate(value, w) = Truncate(ring, w) /\ value \in Int

\* The passes of a rotation to the left, whose first partial result is above.
LEMMA LeftPasses ==
    ASSUME NEW w \in 1 .. XLEN, NEW u \in Word(w), NEW x \in {0, 1}, NEW n \in 1 .. w,
           NEW ring, ring = u * 2 + x, NEW value, value = Truncate(2 * u, w) + x,
           NEW m \in Nat, NEW below \in Nat, w = m + below, n = below + 1
    PROVE  LeftParts(u, ring, value, n, m, below, w)
<1>1. /\ w \in Nat \ {0} /\ w \in Length /\ w + 1 \in Length /\ n \in Nat /\ m \in Nat
      /\ below \in Nat /\ w + 1 = m + n /\ w = m + below
  BY WidthPowers
<1>2. n \in Length /\ m \in Length /\ below \in Length
  <2>1. m \in Length /\ below \in Length
    BY <1>1, PartPowers
  <2>2. n \in Length
    <3>1. PICK whole \in Length : whole = w + 1 /\ whole = m + n
      BY <1>1
    <3> QED
      BY <1>1, <3>1, PartPowers
  <2> QED
    BY <2>1, <2>2
<1>3. /\ u \in Nat /\ ring \in Nat /\ ring \in Word(w + 1)
      /\ \A k \in Nat, j \in Length :
            j = k + 1 => ring \div 2^j = u \div 2^k /\ Bit(ring, j) = Bit(u, k)
  BY RingOfOperand
<1>4. PICK low \in Word(m), upper \in Word(n) : ring = upper * 2^m + low
  <2>1. PICK whole \in Length : whole = w + 1 /\ whole = m + n
    BY <1>1
  <2>2. ring \in Word(whole)
    BY <1>3, <2>1
  <2>3. m \in Nat /\ n \in Nat /\ whole \in Length /\ whole = m + n
    BY <1>1, <2>1
  <2> QED
    BY <2>2, <2>3, WordSplits, ZenonT(40)
<1>5. upper \in Int /\ low \in Int /\ ring \in Int
  BY <1>2, <1>3, <1>4, LengthPower DEF Word
<1>6. /\ RotatedLeft(ring, n, w + 1) \div 2 = low * 2^below + (upper \div 2)
      /\ Bit(RotatedLeft(ring, n, w + 1), 0) = Bit(ring, m)
      /\ upper \div 2 \in Word(below)
  <2>1. /\ ring \in Word(w + 1) /\ m = w + 1 - n /\ below = n - 1
        /\ ring = upper * 2^m + low
    BY <1>1, <1>3, <1>4
  <2>2. RingTurns(ring, n, m, below, low, upper, w)
    BY <1>4, <2>1, RingParts
  <2> QED
    BY <2>2 DEF RingTurns
<1>7. PICK pw \in Nat \ {0} : pw = 2^w
  BY WidthPowers
<1>8. Truncate(value, w) = Truncate(ring, w) /\ value \in Int
  <2>1. 2 * u \in Int
    BY <1>3
  <2>2. PICK q \in Int, r \in 0 .. pw - 1 :
            q = (2 * u) \div pw /\ r = (2 * u) % pw /\ 2 * u = pw * q + r
    BY <1>7, <2>1, Division, ZenonT(40)
  <2>3. PICK y \in Int : y = r + x
    BY <1>7, <2>2
  <2>4. value = y
    BY <1>7, <2>2, <2>3 DEF Truncate
  <2>5. ring = y + pw * q
    <3>1. pw * q \in Int /\ u * 2 = 2 * u
      BY <1>3, <1>7, <2>2
    <3> QED
      BY <2>2, <2>3, <3>1
  <2>6. (y + pw * q) % pw = y % pw
    <3>1. y \in Int /\ q \in Int /\ pw \in Nat \ {0}
      BY <1>7, <2>2, <2>3
    <3> QED
      BY <3>1, RemainderOfSum
  <2> QED
    BY <1>7, <2>3, <2>4, <2>5, <2>6 DEF Truncate
<1>9. Truncate(Truncate(value, w) * 2^below, w) = low * 2^below
  <2>1. PICK pb \in Int : pb = 2^below
    BY <1>2, LengthPower
  <2>2. ProductRemainder(ring, pb, pw)
    BY <1>5, <1>7, <2>1, RemainderOfProduct
  <2>3. Truncate(Truncate(ring, w) * 2^below, w) = Truncate(ring * 2^below, w)
    BY <1>7, <2>1, <2>2 DEF ProductRemainder, Truncate
  <2>4. Truncate(ring * 2^below, w) = low * 2^below
    <3>1. m \in Nat /\ below \in Nat /\ w = m + below
      BY <1>1
    <3>2. LeavesLow(low, upper, m, below, w)
      BY <1>4, <1>5, <3>1, LowPartShifts
    <3> QED
      BY <1>4, <3>2 DEF LeavesLow
  <2> QED
    BY <1>8, <2>3, <2>4
<1>10. u \div 2^m = upper \div 2
  <2>1. PICK j \in Length : j = m + 1
    <3>1. m + 1 <= w + 1
      BY <1>1
    <3> QED
      BY <1>1, <3>1, LengthAssumption DEF Length
  <2>2. ring \div 2^j = u \div 2^m
    BY <1>1, <1>3, <2>1
  <2>3. PICK pm \in Nat \ {0} : pm = 2^m /\ 2^j = pm * 2
    <3>1. 1 \in Nat /\ 2^1 = 2
      OBVIOUS
    <3>2. 2^m \in Nat \ {0} /\ 2^j = 2^m * 2^1
      BY <1>1, <2>1, <3>1, PartPowers
    <3> QED
      BY <3>1, <3>2
  <2>4. ring \div (pm * 2) = (ring \div pm) \div 2
    <3>1. 2 \in Nat \ {0}
      OBVIOUS
    <3> QED
      BY <1>5, <2>3, <3>1, QuotientOfQuotient, ZenonT(40)
  <2>5. (upper * 2^m + low) \div 2^m = upper
    BY <1>2, <1>4, <1>5, PartsOfJoin
  <2> QED
    BY <1>4, <2>2, <2>3, <2>4, <2>5
<1> QED
  BY <1>4, <1>6, <1>8, <1>9, <1>10 DEF LeftParts

\* How the ring splits under a rotation to the right.
RightParts(u, ring, value, m, below, w) ==
    \E low \in Word(m), high \in Word(below) :
        /\ value \div 2^below = low
        /\ Truncate(u * 2^m, w) = high * 2^m
        /\ RotatedLeft(ring, m, w + 1) \div 2 = high * 2^m + low
        /\ Bit(RotatedLeft(ring, m, w + 1), 0) = Bit(ring, below + 1)
        /\ value \in Word(w)
        /\ below >= 1 => Bit(value, below - 1) = Bit(u, below)

\* The passes of a rotation to the right, whose first partial result is below.
LEMMA RightPasses ==
    ASSUME NEW w \in 1 .. XLEN, NEW u \in Word(w), NEW x \in {0, 1}, NEW n \in 1 .. w,
           NEW ring, ring = u * 2 + x, NEW value, value = u \div 2 + x * 2^(w - 1),
           NEW m \in Nat, NEW below \in Nat, w = below + m, n = below + 1
    PROVE  RightParts(u, ring, value, m, below, w)
<1>1. /\ w \in Nat \ {0} /\ w \in Length /\ n \in Nat /\ m \in Nat /\ below \in Nat
      /\ w = below + m /\ m \in 1 .. w /\ n = w + 1 - m /\ w - 1 \in Length
  BY WidthPowers
<1>2. PICK top \in Nat : top = m - 1 /\ w - 1 = below + top
  BY <1>1
<1>3. m \in Length /\ below \in Length /\ top \in Length
  <2>1. m \in Length /\ below \in Length
    <3>1. w \in Length
      BY <1>1
    <3> QED
      BY <3>1, PartPowers, ZenonT(40)
  <2>2. PICK length \in Length : length = below + top
    BY <1>1, <1>2
  <2> QED
    BY <1>1, <2>1, <2>2, PartPowers
<1>4. PICK pb \in Nat \ {0}, q \in Nat \ {0}, half \in Nat \ {0} :
          /\ pb = 2^below /\ 2^n = 2 * pb /\ q = 2^top /\ 2^m = 2 * q
          /\ half = 2^(w - 1) /\ half = pb * q /\ 2^w = 2 * half
  <2>1. PICK pb \in Nat \ {0} : pb = 2^below /\ 2^n = 2 * pb
    <3>1. below \in 0 .. XLEN /\ n = below + 1
      BY <1>1, WidthPowers
    <3> QED
      BY <1>3, <3>1, LengthPower, LengthAssumption
  <2>2. PICK q \in Nat \ {0} : q = 2^top /\ 2^m = 2 * q
    <3>1. top \in 0 .. XLEN /\ m = top + 1
      BY <1>1, <1>2, WidthPowers
    <3> QED
      BY <1>3, <3>1, LengthPower, LengthAssumption
  <2>3. PICK half \in Nat \ {0} : half = 2^(w - 1) /\ 2^w = 2 * half
    BY WidthPowers
  <2>4. half = pb * q
    <3>1. PICK length \in Length : length = below + top /\ length = w - 1
      BY <1>1, <1>2
    <3>2. 2^length = 2^below * 2^top
      BY <1>1, <3>1, PartPowers
    <3> QED
      BY <2>1, <2>2, <2>3, <3>1, <3>2
  <2> QED
    BY <2>1, <2>2, <2>3, <2>4
<1>5. PICK part \in Word(below), upper \in Word(m) : u = upper * 2^below + part
  <2>1. w \in Length
    BY <1>1
  <2>2. SplitsAt(u, below, m)
    BY <2>1, VectorSplits
  <2> QED
    BY <2>2 DEF SplitsAt
<1>6. /\ part \in 0 .. pb - 1 /\ upper \in 0 .. 2 * q - 1 /\ part \in Int /\ upper \in Int
      /\ u \in 0 .. 2 * half - 1 /\ u \in Int /\ u = upper * pb + part
  BY <1>4, <1>5 DEF Word
<1>7. Truncate(u * 2^m, w) = part * 2^m
  <2>1. LeavesLow(part, upper, below, m, w)
    BY <1>1, <1>5, <1>6, LowPartShifts
  <2> QED
    BY <1>5, <2>1 DEF LeavesLow
<1>8. PICK lower \in Word(n) : lower = 2 * part + x /\ lower \in Int
  BY <1>4, <1>6 DEF Word
<1>9. ring = upper * 2^n + lower /\ ring \in Word(w + 1)
  <2>1. (upper * pb + part) * 2 + x = upper * (2 * pb) + (2 * part + x)
    BY <1>4, <1>6
  <2>2. ring \in Word(w + 1)
    BY RingOfOperand
  <2> QED
    BY <1>4, <1>6, <1>8, <2>1, <2>2
<1>10. /\ RotatedLeft(ring, m, w + 1) \div 2 = lower * 2^top + (upper \div 2)
       /\ Bit(RotatedLeft(ring, m, w + 1), 0) = Bit(ring, n)
       /\ upper \div 2 \in Word(top)
  <2>1. /\ ring \in Word(w + 1) /\ n = w + 1 - m /\ top = m - 1 /\ m \in 1 .. w
        /\ ring = upper * 2^n + lower
    BY <1>1, <1>2, <1>9
  <2>2. RingTurns(ring, m, n, top, lower, upper, w)
    BY <1>5, <1>8, <2>1, RingParts
  <2> QED
    BY <2>2 DEF RingTurns
<1>11. PICK xq \in Int, y \in 0 .. q - 1, low \in Word(m) :
           /\ y = upper \div 2 /\ xq = x * q /\ low = xq + y
  <2>1. PICK y \in 0 .. q - 1 : y = upper \div 2
    BY <1>4, <1>10 DEF Word
  <2>2. PICK xq \in {0, q} : xq = x * q
    BY <1>4
  <2>3. xq + y \in 0 .. 2 * q - 1
    BY <1>4, <2>1, <2>2
  <2>4. xq + y \in Word(m)
    BY <1>4, <2>3 DEF Word
  <2> QED
    BY <1>4, <2>1, <2>2, <2>4
<1>12. lower * 2^top + (upper \div 2) = part * 2^m + low
  <2>1. (2 * part + x) * q = part * (2 * q) + x * q
    BY <1>4, <1>6
  <2> QED
    BY <1>4, <1>6, <1>8, <1>11, <2>1
<1>13. PICK v \in 0 .. half - 1 : v = u \div 2 /\ v \in Int
  BY <1>4, <1>6
<1>14. value = pb * xq + v /\ value = x * half + v
  <2>1. x * (pb * q) = pb * (x * q)
    BY <1>4
  <2>2. x * half \in Int
    BY <1>4
  <2> QED
    BY <1>4, <1>11, <1>13, <2>1, <2>2
<1>15. value \in Word(w)
  <2>1. x * half \in {0, half}
    BY <1>4
  <2> QED
    BY <1>4, <1>13, <1>14, <2>1 DEF Word
<1>16. v \div pb = y
  <2>1. 2 \in Nat \ {0} /\ pb * 2 = 2 * pb
    BY <1>4
  <2>2. u \div (2 * pb) = (u \div 2) \div pb
    BY <1>4, <1>6, <2>1, QuotientOfQuotient, ZenonT(40)
  <2>3. u \div (pb * 2) = (u \div pb) \div 2
    <3>1. 2 \in Nat \ {0} /\ u \in Int /\ pb \in Nat \ {0}
      BY <1>4, <1>6
    <3> QED
      BY <3>1, QuotientOfQuotient, ZenonT(40)
  <2>4. (upper * 2^below + part) \div 2^below = upper
    BY <1>3, <1>5, <1>6, PartsOfJoin
  <2> QED
    BY <1>4, <1>5, <1>11, <1>13, <2>1, <2>2, <2>3, <2>4
<1>17. value \div 2^below = low
  <2>1. (pb * xq + v) \div pb = xq + (v \div pb)
    BY <1>4, <1>11, <1>13, QuotientOfSum
  <2> QED
    BY <1>4, <1>11, <1>14, <1>16, <2>1
<1>18. ASSUME below >= 1 PROVE Bit(value, below - 1) = Bit(u, below)
  <2>1. PICK j \in Nat : j = below - 1 /\ below = j + 1 /\ j < w - 1
    BY <1>1, <1>18
  <2>2. j \in Length
    BY <1>1, <2>1, LengthAssumption DEF Length
  <2>3. PICK pj \in Nat \ {0} : pj = 2^j /\ pb = 2 * pj
    <3>1. j \in 0 .. XLEN
      BY <1>1, <2>1, WidthPowers
    <3> QED
      BY <1>4, <2>1, <2>2, <3>1, LengthPower, LengthAssumption
  <2>4. Bit(x * 2^(w - 1) + v, j) = Bit(v, j)
    <3>1. PICK length \in Length : length = w - 1
      BY <1>1
    <3>2. v \in Word(length)
      BY <1>4, <1>13, <3>1 DEF Word
    <3>3. Bit(x * 2^length + v, j) = Bit(v, j)
      BY <2>1, <3>1, <3>2, BitOfLow
    <3> QED
      BY <3>1, <3>3
  <2>5. u \div (2 * pj) = (u \div 2) \div pj
    <3>1. 2 \in Nat \ {0}
      OBVIOUS
    <3> QED
      BY <1>6, <2>3, <3>1, QuotientOfQuotient, ZenonT(60)
  <2> QED
    BY <1>4, <1>13, <1>14, <2>1, <2>3, <2>4, <2>5 DEF Bit
<1> QED
  BY <1>5, <1>7, <1>10, <1>11, <1>12, <1>15, <1>17, <1>18 DEF RightParts

-----------------------------------------------------------------------------
(* The two passes of a request.                                            *)

\* The count is reduced modulo the ring, by subtractions.
LEMMA CountIsReduced ==
    ASSUME NEW r \in ShiftRequest
    PROVE  /\ ReducedCount(r.count, WidthOf(r)) = r.count % (WidthOf(r) + 1)
           /\ r.count % (WidthOf(r) + 1) \in 0 .. WidthOf(r)
           /\ r.count % (WidthOf(r) + 1) \in 0 .. XLEN - 1
<1> DEFINE count == r.count
<1>1. PICK n \in Nat \ {0} : n = WidthOf(r) + 1 /\ 8 * n > XLEN
  BY RequestFields, LengthAssumption
<1>2. count \in 0 .. XLEN - 1 /\ XLEN \in Nat
  BY RequestFields, LengthAssumption
<1> HIDE DEF count
<1>3. PICK one \in Int : one = Reduced(count, 4 * n) /\ one \in 0 .. 4 * n - 1
                         /\ (one = count \/ one = count - 4 * n)
  BY <1>1, <1>2 DEF Reduced
<1>4. PICK two \in Int : two = Reduced(one, 2 * n) /\ two \in 0 .. 2 * n - 1
                         /\ (two = one \/ two = one - 2 * n)
  BY <1>1, <1>3 DEF Reduced
<1>5. PICK three \in Int : three = Reduced(two, n) /\ three \in 0 .. n - 1
                           /\ (three = two \/ three = two - n)
  BY <1>1, <1>4 DEF Reduced
<1>6. PICK k \in 0 .. 7 : count = n * k + three
  <2>1. PICK a \in {0, 4}, b \in {0, 2}, c \in {0, 1} :
            count = n * a + one /\ one = n * b + two /\ two = n * c + three
    <3>1. \E a \in {0, 4} : count = n * a + one
      BY <1>1, <1>2, <1>3
    <3>2. \E b \in {0, 2} : one = n * b + two
      BY <1>1, <1>3, <1>4
    <3>3. \E c \in {0, 1} : two = n * c + three
      BY <1>1, <1>4, <1>5
    <3> QED
      BY <3>1, <3>2, <3>3
  <2>2. a + b + c \in 0 .. 7 /\ n * (a + b + c) = n * a + n * b + n * c
    <3>1. a \in 0 .. 4 /\ b \in 0 .. 2 /\ c \in 0 .. 1
      OBVIOUS
    <3>2. a + b + c \in 0 .. 7
      BY <3>1
    <3>3. n * (a + b + c) = n * a + n * b + n * c
      <4>1. \A x, y, z \in Int : n * (x + y + z) = n * x + n * y + n * z
        BY <1>1
      <4>2. a \in Int /\ b \in Int /\ c \in Int
        BY <3>1
      <4> QED
        BY <4>1, <4>2
    <3> QED
      BY <3>2, <3>3
  <2>3. count = n * (a + b + c) + three
    BY <1>1, <1>3, <1>4, <1>5, <2>1, <2>2
  <2> QED
    BY <2>2, <2>3
<1>7. count % n = three
  <2>1. (n * k + three) % n = three
    <3>1. n \in Nat \ {0} /\ k \in Int /\ three \in 0 .. n - 1
      BY <1>1, <1>5, <1>6
    <3> QED
      BY <3>1, DivisionIsUnique, ZenonT(40)
  <2> QED
    BY <1>6, <2>1
<1>8. ReducedCount(count, WidthOf(r)) = three
  BY <1>1, <1>3, <1>4, <1>5 DEF ReducedCount
<1>9. three \in 0 .. WidthOf(r) /\ WidthOf(r) \in Int
  BY <1>1, <1>5, RequestFields, LengthAssumption
<1>10. three \in 0 .. XLEN - 1
  BY <1>1, <1>2, <1>5, <1>6
<1> QED
  BY <1>1, <1>7, <1>8, <1>9, <1>10 DEF count

\* A request's operand, its ring, and the passes' count.
OperandOf(r) == Truncate(r.source, WidthOf(r))

RingOf(r) == OperandOf(r) * 2 + r.extend_in

RoxCount(r) == r.count % (WidthOf(r) + 1)

\* The rotated ring of the executable model.
LEMMA ModelRing ==
    ASSUME NEW r \in ShiftRequest, RotatesExtend(r.operation), NEW ring,
           ring = RotatedLeft(RingOf(r), Distance(r.operation, RoxCount(r), WidthOf(r) + 1),
                              WidthOf(r) + 1)
    PROVE  Value(r) = ring \div 2 /\ Carry(r) = (Bit(ring, 0) = 1)
<1>1. Model!RotatedRing(r.operation, r.source, r.count, WidthOf(r), r.extend_in) = ring
  <2>1. \A v, k, i : Model!RotatedLeft(v, k, i) = RotatedLeft(v, k, i)
                     /\ Model!Truncate(v, i) = Truncate(v, i)
    BY SameBits
  <2>2. CASE r.operation = "ROXL"
    <3>1. Distance(r.operation, RoxCount(r), WidthOf(r) + 1) = RoxCount(r)
      BY <2>2 DEF Distance
    <3> QED
      BY <2>1, <2>2, <3>1, Zenon DEF Model!RotatedRing, RingOf, OperandOf, RoxCount
  <2>3. CASE r.operation = "ROXR"
    <3>1. r.operation \notin {"ROL", "ROXL"} /\ r.operation # "ROXL"
      BY <2>3
    <3>2. Distance(r.operation, RoxCount(r), WidthOf(r) + 1)
              = (WidthOf(r) + 1 - RoxCount(r)) % (WidthOf(r) + 1)
      <4>1. RoxCount(r) \in Int /\ WidthOf(r) \in Int
        BY CountIsReduced, RequestFields, LengthAssumption DEF RoxCount
      <4> QED
        BY <3>1, <4>1, SMT DEF Distance
    <3> QED
      BY <2>1, <3>1, <3>2, Zenon DEF Model!RotatedRing, RingOf, OperandOf, RoxCount
  <2> QED
    BY <2>2, <2>3 DEF RotatesExtend
<1>2. CASE r.operation = "ROXL"
  BY <1>1, <1>2, SameBits DEF Value, Carry, Model!ShiftedValue, Model!ShiftedCarry,
     Model!RotateExtends
<1>3. CASE r.operation = "ROXR"
  BY <1>1, <1>3, SameBits DEF Value, Carry, Model!ShiftedValue, Model!ShiftedCarry,
     Model!RotateExtends
<1> QED
  BY <1>2, <1>3 DEF RotatesExtend

\* The bits a pass's shifts leave out last.
LeftOut(v, n, w) == n # 0 /\ n <= w /\ Bit(v, w - n) = 1

RightOut(v, n, w) == n # 0 /\ n <= w /\ Bit(v, n - 1) = 1

\* A pass's shift to the left.
LEMMA PassLeft ==
    ASSUME NEW v \in Int, NEW n \in 0 .. XLEN - 1, NEW w \in 1 .. XLEN
    PROVE  /\ Datapath!FastShift("LSL", v, n, w).result = Truncate(Truncate(v, w) * 2^n, w)
           /\ Datapath!FastShift("LSL", v, n, w).carry = LeftOut(v, n, w)
<1>1. Datapath!FastShift("LSL", v, n, w).result = Truncate(Truncate(v, w) * 2^n, w)
  BY LeftShifts
<1>2. PICK result : Datapath!FastShift("LSL", v, n, w).carry
                        = Datapath!FastCarry("LSL", v, n, w, result)
  BY DEF Datapath!FastShift
<1>3. Datapath!FastCarry("LSL", v, n, w, result) = (n # 0 /\ n <= w /\ Bit(v, w - n) = 1)
  <2>1. \A u, i : Datapath!Bit(u, i) = Bit(u, i)
    BY SameBits
  <2> QED
    BY <2>1, Zenon DEF Datapath!FastCarry
<1> QED
  BY <1>1, <1>2, <1>3 DEF LeftOut

\* A pass's shift to the right.
LEMMA PassRight ==
    ASSUME NEW v \in Int, NEW n \in 0 .. XLEN - 1, NEW w \in 1 .. XLEN
    PROVE  /\ Datapath!FastShift("LSR", v, n, w).result = Truncate(v, w) \div 2^n
           /\ Datapath!FastShift("LSR", v, n, w).carry = RightOut(v, n, w)
<1>1. Datapath!FastShift("LSR", v, n, w).result = Truncate(v, w) \div 2^n
  BY NetworkShiftsRight DEF RightShifted
<1>2. PICK result : Datapath!FastShift("LSR", v, n, w).carry
                        = Datapath!FastCarry("LSR", v, n, w, result)
  BY DEF Datapath!FastShift
<1>3. Datapath!FastCarry("LSR", v, n, w, result) = (n # 0 /\ n <= w /\ Bit(v, n - 1) = 1)
  <2>1. \A u, i : Datapath!Bit(u, i) = Bit(u, i)
    BY SameBits
  <2> QED
    BY <2>1, Zenon DEF Datapath!FastCarry
<1> QED
  BY <1>1, <1>2, <1>3 DEF RightOut

\* What the second pass makes of a request.
Second(r) ==
    LET m == WidthOf(r) + 1 - RoxCount(r)
    IN  IF m = XLEN THEN 0
        ELSE Datapath!FastShift(IF r.operation = "ROXR" THEN "LSL" ELSE "LSR", OperandOf(r),
                                Truncate(m, Stages), WidthOf(r)).result

\* The bit the first pass keeps.
FirstOut(r) ==
    IF RoxCount(r) = 1 THEN RotatedByOne(r, WidthOf(r)).out ELSE FirstPass(r).carry

\* The complement of the count is within the network unless it is the register.
LEMMA ComplementIsCount ==
    ASSUME NEW m \in 1 .. XLEN, m # XLEN
    PROVE  Truncate(m, Stages) = m /\ m \in 0 .. XLEN - 1
<1>1. m \in Word(Stages) /\ XLEN \in Nat
  BY CountRange, LengthAssumption
<1> QED
  BY <1>1, TruncateOfWord, WidthAssumption

\* What the passes of a request make.
PassesMake(r) ==
    /\ FirstPass(r).result \in Int /\ Second(r) \in Int
    /\ BitwiseOr(FirstPass(r).result, Second(r), XLEN) = Value(r)
    /\ FirstPass(r).result + Second(r) = Value(r)
    /\ FirstOut(r) = Carry(r)

\* The passes of a rotation to the left make the model's.
LEMMA LeftPassesMake ==
    ASSUME NEW r \in ShiftRequest, r.operation = "ROXL", RoxCount(r) # 0
    PROVE  PassesMake(r)
<1> DEFINE w == WidthOf(r)
           u == OperandOf(r)
           x == r.extend_in
           n == RoxCount(r)
           ring == RingOf(r)
           value == Truncate(2 * u, w) + x
           m == w + 1 - n
           below == n - 1
           rotated == RotatedLeft(ring, n, w + 1)
<1>1. w \in 1 .. XLEN /\ r.source \in Int /\ x \in {0, 1} /\ XLEN \in Nat /\ w \in Nat
  BY RequestFields, LengthAssumption
<1>2. u \in Word(w) /\ u \in Int
  BY <1>1, OperandIsWord DEF OperandOf
<1>3. n \in 1 .. w /\ n \in 0 .. XLEN - 1 /\ n = ReducedCount(r.count, w)
  BY CountIsReduced DEF RoxCount
<1>4. below \in 0 .. XLEN - 1 /\ below \in Nat /\ m \in 1 .. XLEN /\ m \in Nat /\ XLEN \in Length
      /\ w = m + below
  BY <1>1, <1>3, WidthPowers
<1>5. ring = u * 2 + x
  BY DEF RingOf
<1>20. m = w + 1 - n /\ below = n - 1 /\ value = Truncate(2 * u, w) + x
       /\ rotated = RotatedLeft(ring, n, w + 1)
  OBVIOUS
<1> HIDE DEF w, u, x, n, ring, m, below, value, rotated
<1>6. PICK low \in Word(m), high \in Word(below) :
          /\ Truncate(Truncate(value, w) * 2^below, w) = low * 2^below
          /\ u \div 2^m = high
          /\ rotated \div 2 = low * 2^below + high
          /\ Bit(rotated, 0) = Bit(ring, m)
          /\ Truncate(value, w) = Truncate(ring, w) /\ value \in Int
  <2>1. /\ w \in 1 .. XLEN /\ u \in Word(w) /\ x \in {0, 1} /\ n \in 1 .. w
        /\ ring = u * 2 + x /\ value = Truncate(2 * u, w) + x
        /\ m \in Nat /\ below \in Nat /\ w = m + below /\ n = below + 1
    <3>1. w \in 1 .. XLEN /\ x \in {0, 1} /\ n \in 1 .. w /\ m \in Nat /\ below \in Nat
      BY <1>1, <1>3, <1>4
    <3>2. w = m + below /\ n = below + 1
      BY <1>3, <1>4, <1>20
    <3> QED
      BY <1>2, <1>5, <1>20, <3>1, <3>2
  <2>2. LeftParts(u, ring, value, n, m, below, w)
    BY <2>1, LeftPasses
  <2> QED
    BY <1>20, <2>1, <2>2 DEF LeftParts
<1>7. RotatedByOne(r, w) = [value |-> value, out |-> SignSet(u, w)]
  BY DEF RotatedByOne, value, u, x, w, OperandOf
<1>8. FirstPass(r) = Datapath!FastShift("LSL", value, below, w)
  BY <1>3, <1>7, <1>20 DEF FirstPass, WidthOf, w
<1>9. FirstPass(r).result = low * 2^below
  BY <1>1, <1>4, <1>6, <1>8, PassLeft
<1>10. Second(r) = high
  <2>1. CASE m # XLEN
    <3>1. Truncate(m, Stages) = m /\ m \in 0 .. XLEN - 1
      BY <1>4, <2>1, ComplementIsCount
    <3>2. Truncate(u, w) = u
      BY <1>1, <1>2, WidthPowers, TruncateOfWord
    <3>3. Datapath!FastShift("LSR", u, m, w).result = Truncate(u, w) \div 2^m
      BY <1>1, <1>2, <3>1, PassRight
    <3> QED
      BY <1>6, <1>20, <2>1, <3>1, <3>2, <3>3 DEF Second, u, n, w
  <2>2. CASE m = XLEN
    <3>1. below = 0
      BY <1>1, <1>3, <1>20, <2>2
    <3>2. high = 0
      <4>1. high \in 0 .. 2^0 - 1 /\ 2^0 = 1
        BY <1>6, <3>1 DEF Word
      <4> QED
        BY <4>1
    <3> QED
      BY <1>20, <2>2, <3>2 DEF Second, n, w
  <2> QED
    BY <2>1, <2>2
<1>11. Value(r) = rotated \div 2 /\ Carry(r) = (Bit(rotated, 0) = 1)
  <2>1. rotated = RotatedLeft(RingOf(r), Distance(r.operation, RoxCount(r), WidthOf(r) + 1),
                              WidthOf(r) + 1)
    BY DEF Distance, rotated, ring, n, w
  <2> QED
    BY <2>1, ModelRing DEF RotatesExtend
<1>12. PICK rest \in Nat : rest = XLEN - below /\ XLEN = below + rest /\ m <= rest
  BY <1>1, <1>3, <1>4, <1>20
<1>13. low \in Word(rest)
  <2>1. 2^m \in Nat /\ 2^rest \in Nat /\ 2^m <= 2^rest
    <3>1. PICK t \in Nat : rest = m + t
      <4>1. rest - m \in Nat /\ rest = m + (rest - m)
        BY <1>4, <1>12
      <4> QED
        BY <4>1
    <3>2. rest \in Length
      <4>1. rest <= XLEN + 1
        BY <1>4, <1>12
      <4> QED
        BY <1>1, <1>12, <4>1 DEF Length
    <3>3. PICK pm \in Nat \ {0}, pt \in Nat \ {0} : pm = 2^m /\ 2^rest = pm * pt
      <4>1. 2^m \in Nat \ {0} /\ 2^t \in Nat \ {0} /\ 2^rest = 2^m * 2^t
        BY <1>4, <3>1, <3>2, PartPowers
      <4> QED
        BY <4>1
    <3>4. pm * (pt - 1) >= 0 /\ pm * (pt - 1) = pm * pt - pm
      BY <3>3
    <3> QED
      BY <3>3, <3>4
  <2> QED
    BY <1>6, <2>1, WordIsMonotone
<1>14. PICK upper : upper = low * 2^below
  OBVIOUS
<1>15. /\ BitwiseOr(upper, high, XLEN) = upper + high /\ upper \in Int /\ high \in Int
  BY <1>4, <1>6, <1>12, <1>13, <1>14, OrJoins
<1>16. FirstOut(r) = (Bit(ring, m) = 1)
  <2>1. CASE n = 1
    <3>1. m = w /\ w = (w - 1) + 1 /\ w - 1 \in Nat /\ w \in Length
      BY <1>1, <1>20, <2>1, WidthPowers
    <3>2. \A k \in Nat, j \in Length : j = k + 1 => Bit(ring, j) = Bit(u, k)
      <4>1. w \in 1 .. XLEN /\ u \in Word(w) /\ x \in {0, 1} /\ ring = u * 2 + x
        BY <1>1, <1>2, <1>5
      <4> QED
        BY <4>1, RingOfOperand
    <3>3. Bit(ring, w) = Bit(u, w - 1)
      BY <3>1, <3>2
    <3> QED
      BY <1>7, <2>1, <3>1, <3>3 DEF FirstOut, SignSet, n, w
  <2>2. CASE n # 1
    <3>1. below # 0 /\ below <= w /\ w - below = m /\ m \in 0 .. w - 1
      BY <1>1, <1>3, <1>20, <2>2
    <3>2. FirstPass(r).carry = (Bit(value, m) = 1)
      <4>1. w \in 1 .. XLEN /\ below \in 0 .. XLEN - 1 /\ value \in Int
        BY <1>1, <1>4, <1>6
      <4>2. FirstPass(r).carry = LeftOut(value, below, w)
        BY <1>8, <4>1, PassLeft
      <4> QED
        BY <3>1, <4>2 DEF LeftOut
    <3>3. Bit(value, m) = Bit(ring, m)
      <4>1. ring \in Int
        BY <1>1, <1>2, <1>5
      <4>2. Bit(value, m) = Bit(Truncate(value, w), m) /\ Bit(ring, m) = Bit(Truncate(ring, w), m)
        BY <1>1, <1>6, <3>1, <4>1, OperandBits
      <4> QED
        BY <1>6, <4>2
    <3> QED
      BY <2>2, <3>2, <3>3 DEF FirstOut, n
  <2> QED
    BY <2>1, <2>2
<1> QED
  BY <1>6, <1>9, <1>10, <1>11, <1>14, <1>15, <1>16 DEF PassesMake

\* The passes of a rotation to the right make the model's.
LEMMA RightPassesMake ==
    ASSUME NEW r \in ShiftRequest, r.operation = "ROXR", RoxCount(r) # 0
    PROVE  PassesMake(r)
<1> DEFINE w == WidthOf(r)
           u == OperandOf(r)
           x == r.extend_in
           n == RoxCount(r)
           ring == RingOf(r)
           value == u \div 2 + x * 2^(w - 1)
           m == w + 1 - n
           below == n - 1
           rotated == RotatedLeft(ring, m, w + 1)
<1>1. w \in 1 .. XLEN /\ r.source \in Int /\ x \in {0, 1} /\ XLEN \in Nat /\ w \in Nat
  BY RequestFields, LengthAssumption
<1>2. u \in Word(w) /\ u \in Int
  BY <1>1, OperandIsWord DEF OperandOf
<1>3. n \in 1 .. w /\ n \in 0 .. XLEN - 1 /\ n = ReducedCount(r.count, w)
  BY CountIsReduced DEF RoxCount
<1>4. below \in 0 .. XLEN - 1 /\ below \in Nat /\ m \in 1 .. XLEN /\ m \in Nat /\ XLEN \in Length
      /\ w = below + m /\ n = below + 1
  BY <1>1, <1>3, WidthPowers
<1>5. ring = u * 2 + x
  BY DEF RingOf
<1>20. m = w + 1 - n /\ below = n - 1 /\ value = u \div 2 + x * 2^(w - 1)
       /\ rotated = RotatedLeft(ring, m, w + 1)
  OBVIOUS
<1> HIDE DEF w, u, x, n, ring, m, below, value, rotated
<1>6. PICK low \in Word(m), high \in Word(below) :
          /\ value \div 2^below = low
          /\ Truncate(u * 2^m, w) = high * 2^m
          /\ rotated \div 2 = high * 2^m + low
          /\ Bit(rotated, 0) = Bit(ring, n)
          /\ value \in Word(w)
          /\ below >= 1 => Bit(value, below - 1) = Bit(u, below)
  <2>1. /\ w \in 1 .. XLEN /\ u \in Word(w) /\ x \in {0, 1} /\ n \in 1 .. w
        /\ ring = u * 2 + x /\ value = u \div 2 + x * 2^(w - 1)
        /\ m \in Nat /\ below \in Nat /\ w = below + m /\ n = below + 1
    <3>1. w \in 1 .. XLEN /\ x \in {0, 1} /\ n \in 1 .. w /\ m \in Nat /\ below \in Nat
      BY <1>1, <1>3, <1>4
    <3> QED
      BY <1>2, <1>4, <1>5, <1>20, <3>1
  <2>2. RightParts(u, ring, value, m, below, w)
    BY <2>1, RightPasses
  <2> QED
    BY <1>4, <1>20, <2>2 DEF RightParts
<1>7. RotatedByOne(r, w) = [value |-> value, out |-> Bit(u, 0) = 1]
  BY <1>20 DEF RotatedByOne, u, x, w, OperandOf
<1>8. FirstPass(r) = Datapath!FastShift("LSR", value, below, w)
  BY <1>3, <1>7, <1>20 DEF FirstPass, WidthOf, w
<1>9. FirstPass(r).result = low
  <2>1. w \in 1 .. XLEN /\ below \in 0 .. XLEN - 1 /\ value \in Int
    BY <1>1, <1>4, <1>6, WidthPowers DEF Word
  <2>2. Truncate(value, w) = value
    BY <1>1, <1>6, WidthPowers, TruncateOfWord
  <2>3. FirstPass(r).result = Truncate(value, w) \div 2^below
    BY <1>8, <2>1, PassRight
  <2> QED
    BY <1>6, <2>2, <2>3
<1>10. Second(r) = high * 2^m
  <2>1. CASE m # XLEN
    <3>1. Truncate(m, Stages) = m /\ m \in 0 .. XLEN - 1
      BY <1>4, <2>1, ComplementIsCount
    <3>2. Truncate(u, w) = u
      BY <1>1, <1>2, WidthPowers, TruncateOfWord
    <3>3. Datapath!FastShift("LSL", u, m, w).result = Truncate(Truncate(u, w) * 2^m, w)
      BY <1>1, <1>2, <3>1, PassLeft
    <3> QED
      BY <1>6, <1>20, <2>1, <3>1, <3>2, <3>3 DEF Second, u, n, w
  <2>2. CASE m = XLEN
    <3>1. below = 0
      BY <1>1, <1>3, <1>20, <2>2
    <3>2. high = 0
      <4>1. high \in 0 .. 2^0 - 1 /\ 2^0 = 1
        BY <1>6, <3>1 DEF Word
      <4> QED
        BY <4>1
    <3>3. high * 2^m = 0
      <4>1. PICK p \in Int : p = 2^m
        BY <1>1, <1>4, <2>2, LengthPower
      <4> QED
        BY <3>2, <4>1
    <3> QED
      BY <1>20, <2>2, <3>3 DEF Second, n, w
  <2> QED
    BY <2>1, <2>2
<1>11. Value(r) = rotated \div 2 /\ Carry(r) = (Bit(rotated, 0) = 1)
  <2>1. Distance(r.operation, RoxCount(r), w + 1) = m
    <3>1. PICK i \in Nat \ {0} : i = w + 1
      BY <1>1
    <3>2. \A k, j : Distance(r.operation, k, j) = (j - k) % j
      <4>1. r.operation \notin {"ROL", "ROXL"}
        OBVIOUS
      <4> QED
        BY <4>1, Zenon DEF Distance
    <3>3. Distance(r.operation, RoxCount(r), i) = (i - RoxCount(r)) % i
      BY <3>2, ZenonT(40)
    <3>4. i - RoxCount(r) = m /\ m \in 0 .. i - 1
      BY <1>1, <1>3, <1>20, <3>1 DEF n
    <3>5. m % i = m
      BY <3>1, <3>4
    <3> QED
      BY <3>1, <3>3, <3>4, <3>5
  <2>2. rotated = RotatedLeft(RingOf(r), Distance(r.operation, RoxCount(r), WidthOf(r) + 1),
                              WidthOf(r) + 1)
    BY <1>20, <2>1 DEF ring, w
  <2> QED
    BY <2>2, ModelRing DEF RotatesExtend
<1>12. PICK rest \in Nat : rest = XLEN - m /\ XLEN = m + rest /\ below <= rest
  BY <1>1, <1>3, <1>4, <1>20
<1>13. high \in Word(rest)
  <2>1. 2^below \in Nat /\ 2^rest \in Nat /\ 2^below <= 2^rest
    <3>1. PICK t \in Nat : rest = below + t
      <4>1. rest - below \in Nat /\ rest = below + (rest - below)
        BY <1>4, <1>12
      <4> QED
        BY <4>1
    <3>2. rest \in Length
      <4>1. rest <= XLEN + 1
        BY <1>4, <1>12
      <4> QED
        BY <1>1, <1>12, <4>1 DEF Length
    <3>3. PICK pm \in Nat \ {0}, pt \in Nat \ {0} : pm = 2^below /\ 2^rest = pm * pt
      <4>1. 2^below \in Nat \ {0} /\ 2^t \in Nat \ {0} /\ 2^rest = 2^below * 2^t
        BY <1>4, <3>1, <3>2, PartPowers
      <4> QED
        BY <4>1
    <3>4. pm * (pt - 1) >= 0 /\ pm * (pt - 1) = pm * pt - pm
      BY <3>3
    <3> QED
      BY <3>3, <3>4
  <2> QED
    BY <1>6, <2>1, WordIsMonotone
<1>14. PICK upper : upper = high * 2^m
  OBVIOUS
<1>15. BitwiseOr(low, upper, XLEN) = upper + low /\ upper \in Int /\ low \in Int
  BY <1>4, <1>6, <1>12, <1>13, <1>14, OrJoins
<1>16. FirstOut(r) = (Bit(ring, n) = 1)
  <2>1. PICK k \in Nat, j \in Length : k = below /\ j = n /\ j = k + 1
    <3>1. n \in Length
      BY <1>1, <1>3, WidthPowers DEF Length
    <3> QED
      BY <1>4, <3>1
  <2>2. Bit(ring, j) = Bit(u, k)
    <3>1. w \in 1 .. XLEN /\ u \in Word(w) /\ x \in {0, 1} /\ ring = u * 2 + x
      BY <1>1, <1>2, <1>5
    <3> QED
      BY <2>1, <3>1, RingOfOperand
  <2>3. CASE n = 1
    <3>1. k = 0
      BY <1>20, <2>1, <2>3
    <3> QED
      BY <1>7, <2>1, <2>2, <2>3, <3>1 DEF FirstOut, n, w
  <2>4. CASE n # 1
    <3>1. below # 0 /\ below <= w /\ below >= 1
      BY <1>1, <1>3, <1>20, <2>4
    <3>2. w \in 1 .. XLEN /\ below \in 0 .. XLEN - 1 /\ value \in Int
      BY <1>1, <1>4, <1>6, WidthPowers DEF Word
    <3>3. FirstPass(r).carry = RightOut(value, below, w)
      BY <1>8, <3>2, PassRight
    <3>4. FirstPass(r).carry = (Bit(value, below - 1) = 1)
      BY <3>1, <3>3 DEF RightOut
    <3> QED
      BY <1>6, <2>1, <2>2, <2>4, <3>1, <3>4 DEF FirstOut, n
  <2> QED
    BY <2>3, <2>4
<1>17. low + upper = upper + low
  BY <1>15
<1> QED
  BY <1>6, <1>9, <1>10, <1>11, <1>14, <1>15, <1>16, <1>17 DEF PassesMake

\* What a rotate through extend is about.
LEMMA OperandFields ==
    ASSUME NEW r \in ShiftRequest
    PROVE  /\ OperandOf(r) \in Word(WidthOf(r)) /\ OperandOf(r) \in Word(XLEN)
           /\ OperandOf(r) \in Int /\ OperandOf(r) >= 0 /\ WidthOf(r) \in 1 .. XLEN
           /\ WidthOf(r) + 1 \in Length /\ 2^(WidthOf(r) - 1) \in Int
           /\ RoxCount(r) \in 0 .. WidthOf(r)
<1>1. WidthOf(r) \in 1 .. XLEN /\ r.source \in Int
  BY RequestFields
<1>2. OperandOf(r) \in Word(WidthOf(r))
  BY <1>1, OperandIsWord DEF OperandOf
<1>3. WidthOf(r) + 1 \in Length /\ 2^(WidthOf(r) - 1) \in Int
  BY <1>1, WidthPowers
<1>4. RoxCount(r) \in 0 .. WidthOf(r)
  BY CountIsReduced DEF RoxCount
<1>5. OperandOf(r) \in Word(XLEN) /\ OperandOf(r) \in Int
  BY <1>1, <1>2, ValueIsRegister
<1>6. OperandOf(r) >= 0
  <2>1. PICK p \in Nat : p = 2^WidthOf(r)
    BY <1>1, WidthPowers
  <2> QED
    BY <1>2, <2>1 DEF Word
<1> QED
  BY <1>1, <1>2, <1>3, <1>4, <1>5, <1>6

\* A count of whole turns leaves the ring as it is.
LEMMA WholeTurns ==
    ASSUME NEW r \in ShiftRequest, RotatesExtend(r.operation), RoxCount(r) = 0
    PROVE  Value(r) = OperandOf(r) /\ Carry(r) = (r.extend_in = 1)
<1>0. PICK w \in 1 .. XLEN, x \in {0, 1}, whole \in Length :
          w = WidthOf(r) /\ x = r.extend_in /\ whole = w + 1
  BY RequestFields, OperandFields
<1>1. PICK u \in Word(w) : u = OperandOf(r) /\ u \in Int /\ u >= 0
  BY <1>0, OperandFields
<1>2. PICK ring \in Nat : ring = u * 2 + x /\ ring \in Word(whole)
  <2>1. PICK ring : ring = u * 2 + x
    OBVIOUS
  <2> QED
    BY <1>0, <1>1, <2>1, RingOfOperand
<1>3. RotatedLeft(ring, 0, whole) = ring
  BY <1>1, <1>2, WholeTurn
<1>4. Distance(r.operation, 0, whole) = 0
  <2>1. whole \in Nat \ {0} /\ (whole - 0) % whole = 0
    <3>1. whole \in Nat \ {0}
      BY <1>0
    <3> QED
      BY <3>1
  <2>2. Distance(r.operation, 0, whole) = IF r.operation \in {"ROL", "ROXL"} THEN 0
                                          ELSE (whole - 0) % whole
    BY Zenon DEF Distance
  <2> QED
    BY <2>1, <2>2
<1>5. Value(r) = ring \div 2 /\ Carry(r) = (Bit(ring, 0) = 1)
  <2>1. ring = RotatedLeft(RingOf(r), Distance(r.operation, RoxCount(r), WidthOf(r) + 1),
                           WidthOf(r) + 1)
    BY <1>0, <1>1, <1>2, <1>3, <1>4 DEF RingOf
  <2> QED
    BY <2>1, ModelRing
<1>7. ring \div 2 = u /\ ring % 2 = x
  BY <1>1, <1>2
<1>8. Bit(ring, 0) = x
  <2>1. 2^0 = 1 /\ ring \div 1 = ring
    BY <1>2
  <2> QED
    BY <1>7, <2>1, Zenon DEF Bit
<1> QED
  BY <1>0, <1>1, <1>5, <1>7, <1>8

\* What the model answers fits the operand.
LEMMA ValueFits ==
    ASSUME NEW r \in ShiftRequest
    PROVE  Value(r) \in Word(WidthOf(r)) /\ Value(r) \in Word(XLEN) /\ Value(r) \in Int
<1>1. Value(r) \in Word(WidthOf(r))
  <2>1. CASE ~RotatesExtend(r.operation)
    BY <2>1, OrdinaryAnswers
  <2>2. CASE RotatesExtend(r.operation)
    <3>0. PICK w \in 1 .. XLEN, x \in {0, 1}, whole \in Length :
              w = WidthOf(r) /\ x = r.extend_in /\ whole = w + 1
      BY RequestFields, OperandFields
    <3>1. PICK u \in Word(w), k \in 0 .. whole :
              u = OperandOf(r) /\ k = Distance(r.operation, RoxCount(r), whole)
      <4>1. whole \in Nat \ {0} /\ RoxCount(r) \in 0 .. whole
        BY <3>0, OperandFields
      <4>2. (whole - RoxCount(r)) % whole \in 0 .. whole
        BY <4>1
      <4>3. Distance(r.operation, RoxCount(r), whole)
                = IF r.operation \in {"ROL", "ROXL"} THEN RoxCount(r)
                  ELSE (whole - RoxCount(r)) % whole
        BY Zenon DEF Distance
      <4> QED
        BY <3>0, <4>1, <4>2, <4>3, OperandFields
    <3>2. PICK ring \in Nat : ring = u * 2 + x /\ ring \in Word(whole)
      <4>1. PICK ring : ring = u * 2 + x
        OBVIOUS
      <4> QED
        BY <3>0, <3>1, <4>1, RingOfOperand
    <3>3. PICK turned \in Word(whole) : turned = RotatedLeft(ring, k, whole)
      BY <3>0, <3>1, <3>2, RotationIsWord
    <3>4. Value(r) = turned \div 2
      <4>1. turned = RotatedLeft(RingOf(r), Distance(r.operation, RoxCount(r), WidthOf(r) + 1),
                                 WidthOf(r) + 1)
        BY <3>0, <3>1, <3>2, <3>3 DEF RingOf
      <4> QED
        BY <2>2, <4>1, ModelRing
    <3>5. PICK p \in Nat \ {0} : p = 2^w /\ 2^whole = 2 * p
      <4>1. 1 \in Nat /\ 2^1 = 2 /\ w \in Nat /\ whole = 1 + w
        BY <3>0
      <4>2. 2^w \in Nat \ {0} /\ 2^whole = 2^1 * 2^w
        BY <3>0, <4>1, PartPowers
      <4> QED
        BY <4>1, <4>2
    <3>6. turned \in 0 .. 2 * p - 1
      BY <3>3, <3>5 DEF Word
    <3>7. turned \div 2 \in 0 .. p - 1
      BY <3>5, <3>6
    <3> QED
      BY <3>0, <3>4, <3>5, <3>7 DEF Word
  <2> QED
    BY <2>1, <2>2
<1> QED
  BY <1>1, RequestFields, ValueIsRegister

\* What the model answers is a response.
LEMMA AnswerIsTyped ==
    ASSUME NEW r \in ShiftRequest
    PROVE  Answer(r) \in ShiftResponse
<1>1. Carry(r) \in BOOLEAN
  BY RequestFields, CarryIsBoolean DEF Carry
<1>2. Overflow(r) \in BOOLEAN /\ SignSet(Value(r), WidthOf(r)) \in BOOLEAN
      /\ RotatesExtend(r.operation) \in BOOLEAN /\ (Value(r) = 0) \in BOOLEAN
      /\ (r.extend_in = 1) \in BOOLEAN
  BY DEF Overflow, SignSet, RotatesExtend
<1>3. r.tag \in Tag /\ r.update_flags \in BOOLEAN
  BY RequestFields
<1> QED
  BY <1>1, <1>2, <1>3, ValueFits DEF Answer, ShiftResponse

\* What the edge that accepts a rotate through extend leaves in the registers is typed.
LEMMA PassIsTyped ==
    ASSUME NEW r \in ShiftRequest, RotatesExtend(r.operation)
    PROVE  FirstPartial(r) \in RoxState /\ PendingResponse(r) \in ShiftResponse
<1>1. WidthOf(r) \in 1 .. XLEN /\ r.source \in Int /\ OperandOf(r) \in Word(XLEN)
  BY RequestFields, OperandFields
<1>2. ReducedCount(r.count, WidthOf(r)) = RoxCount(r) /\ RoxCount(r) \in 0 .. XLEN - 1
  BY CountIsReduced DEF RoxCount
<1>3. RotatedByOne(r, WidthOf(r)).out \in BOOLEAN /\ RotatedByOne(r, WidthOf(r)).value \in Int
  <2>1. PICK u \in Int, half \in Int, x \in Int :
            u = Truncate(r.source, WidthOf(r)) /\ half = 2^(WidthOf(r) - 1) /\ x = r.extend_in
    BY RequestFields, OperandFields DEF OperandOf
  <2>2. u \div 2 + x * half \in Int
    BY <2>1
  <2>3. Truncate(2 * u, WidthOf(r)) + x \in Int
    <3>1. PICK v \in Int : v = 2 * u
      BY <2>1
    <3>2. Truncate(v, WidthOf(r)) \in Int
      BY <1>1, <3>1, OperandIsWord, ValueIsRegister
    <3> QED
      BY <2>1, <3>1, <3>2
  <2> QED
    BY <2>1, <2>2, <2>3 DEF RotatedByOne, SignSet
<1>4. PICK op \in {"LSR", "LSL"}, v \in Int, n \in 0 .. XLEN - 1 :
          FirstPass(r) = Datapath!FastShift(op, v, n, WidthOf(r))
  <2>1. PICK op \in {"LSR", "LSL"} : op = IF r.operation = "ROXR" THEN "LSR" ELSE "LSL"
    OBVIOUS
  <2>2. CASE RoxCount(r) = 0
    <3>1. FirstPass(r) = Datapath!FastShift(op, OperandOf(r), 0, WidthOf(r))
      BY <1>2, <2>1, <2>2 DEF FirstPass, WidthOf, OperandOf
    <3>2. OperandOf(r) \in Int /\ 0 \in 0 .. XLEN - 1
      BY <1>2, OperandFields, LengthAssumption
    <3> QED
      BY <3>1, <3>2
  <2>3. CASE RoxCount(r) # 0
    <3>1. FirstPass(r) = Datapath!FastShift(op, RotatedByOne(r, WidthOf(r)).value,
                                            RoxCount(r) - 1, WidthOf(r))
      BY <1>2, <2>1, <2>3 DEF FirstPass, WidthOf
    <3>2. RoxCount(r) - 1 \in 0 .. XLEN - 1
      BY <1>2, <2>3, LengthAssumption
    <3> QED
      BY <1>3, <3>1, <3>2
  <2> QED
    BY <2>2, <2>3
<1>5. FirstPass(r).result \in Word(XLEN) /\ FirstPass(r).carry \in BOOLEAN
  <2>1. op \in OrdinaryOperation /\ XLEN % WidthOf(r) = 0
    BY RequestFields DEF OrdinaryOperation
  <2>2. FirstPass(r).result \in Word(WidthOf(r))
    BY <1>1, <1>4, <2>1, OrdinaryValue
  <2>3. FirstPass(r).carry \in BOOLEAN
    BY <1>4 DEF Datapath!FastShift, Datapath!FastCarry
  <2> QED
    BY <1>1, <2>2, <2>3, ValueIsRegister
<1>6. r.tag \in Tag /\ r.operand_size \in OperandSize /\ r.update_flags \in BOOLEAN
  BY RequestFields
<1>7. RoxCount(r) \in Word(Stages)
  BY <1>2, CountRange
<1>8. (r.operation = "ROXR") \in BOOLEAN /\ (r.extend_in = 1) \in BOOLEAN
  OBVIOUS
<1>9. FirstPartial(r) \in RoxState
  <2>1. FirstPartial(r)
            = [first_partial |-> FirstPass(r).result, effective_count |-> RoxCount(r),
               operand_size |-> r.operand_size, right |-> r.operation = "ROXR",
               extend_in |-> r.extend_in = 1,
               first_extend_out |-> FirstOut(r), update_flags |-> r.update_flags]
    BY <1>2 DEF FirstPartial, FirstOut, WidthOf
  <2>2. FirstOut(r) \in BOOLEAN
    BY <1>3, <1>5 DEF FirstOut
  <2> QED
    BY <1>5, <1>6, <1>7, <1>8, <2>1, <2>2 DEF RoxState
<1> QED
  BY <1>1, <1>6, <1>9 DEF PendingResponse, ShiftResponse, OperandOf, WidthOf

\* The second pass answers a rotate through extend as the model does, and its two shifts
\* never produce a bit both.
LEMMA PassesJoin ==
    ASSUME NEW r \in ShiftRequest, RotatesExtend(r.operation),
           response_state = PendingResponse(r), rox = FirstPartial(r)
    PROVE  /\ rox.effective_count = RoxCount(r)
           /\ RoxResponse = Answer(r)
           /\ rox.effective_count # 0 => RoxResult = rox.first_partial + SecondPartial
<1>1. rox = [first_partial |-> FirstPass(r).result, effective_count |-> RoxCount(r),
             operand_size |-> r.operand_size, right |-> r.operation = "ROXR",
             extend_in |-> r.extend_in = 1,
             first_extend_out |-> FirstOut(r), update_flags |-> r.update_flags]
  <2>1. ReducedCount(r.count, WidthOf(r)) = RoxCount(r)
    BY CountIsReduced DEF RoxCount
  <2> QED
    BY <2>1 DEF FirstPartial, FirstOut, WidthOf
<1>2. /\ rox.first_partial = FirstPass(r).result /\ rox.effective_count = RoxCount(r)
      /\ Width[rox.operand_size] = WidthOf(r) /\ rox.right = (r.operation = "ROXR")
      /\ rox.extend_in = (r.extend_in = 1) /\ rox.first_extend_out = FirstOut(r)
      /\ rox.update_flags = r.update_flags
  BY <1>1 DEF WidthOf
<1>3. response_state
          = [tag |-> r.tag, result |-> OperandOf(r), flags_valid |-> FALSE,
             negative |-> FALSE, zero |-> FALSE, overflow |-> FALSE, carry |-> FALSE,
             extend_valid |-> FALSE, extend_out |-> FALSE]
  BY DEF PendingResponse, OperandOf, WidthOf
<1>4. SecondPartial = Second(r)
  <2>1. ComplementCount = WidthOf(r) + 1 - RoxCount(r)
    BY <1>2 DEF ComplementCount
  <2>2. response_state.result = OperandOf(r)
    BY <1>3
  <2> QED
    BY <1>2, <2>1, <2>2 DEF SecondPartial, Second
<1>5. RoxCount(r) # 0 => PassesMake(r)
  BY LeftPassesMake, RightPassesMake DEF RotatesExtend
<1>6. RoxResult = Value(r) /\ RoxExtend = Carry(r)
  <2>1. CASE RoxCount(r) = 0
    <3>1. RoxResult = OperandOf(r) /\ RoxExtend = (r.extend_in = 1)
      BY <1>2, <1>3, <2>1 DEF RoxResult, RoxExtend
    <3> QED
      BY <2>1, <3>1, WholeTurns
  <2>2. CASE RoxCount(r) # 0
    BY <1>2, <1>4, <1>5, <2>2 DEF PassesMake, RoxResult, RoxExtend
  <2> QED
    BY <2>1, <2>2
<1>7. RoxResponse = Answer(r)
  <2>1. RoxResponse
            = [tag |-> r.tag, result |-> RoxResult, flags_valid |-> rox.update_flags,
               negative |-> SignSet(RoxResult, Width[rox.operand_size]),
               zero |-> RoxResult = 0, overflow |-> FALSE, carry |-> RoxExtend,
               extend_valid |-> TRUE, extend_out |-> RoxExtend]
    <3>1. response_state.tag = r.tag
      BY <1>3
    <3> QED
      BY <3>1 DEF RoxResponse
  <2>2. Overflow(r) = FALSE /\ RotatesExtend(r.operation) = TRUE
    BY DEF Overflow, RotatesExtend
  <2> QED
    BY <1>2, <1>6, <2>1, <2>2 DEF Answer
<1>8. rox.effective_count # 0 => RoxResult = rox.first_partial + SecondPartial
  BY <1>2, <1>4, <1>5, <1>6 DEF PassesMake
<1> QED
  BY <1>2, <1>7, <1>8

-----------------------------------------------------------------------------
(* The reference circuit.                                                  *)

\* Its ring is the executable model's, for both directions.
LEMMA ReferenceRing ==
    ASSUME NEW r \in ShiftRequest, RotatesExtend(r.operation), NEW ring,
           ring = Reference!RotatedRing(r.operation, r.source, r.count, WidthOf(r), r.extend_in)
    PROVE  Value(r) = ring \div 2 /\ Carry(r) = (Bit(ring, 0) = 1)
<1>1. PICK w \in 1 .. XLEN, x \in {0, 1}, whole \in Length :
          w = WidthOf(r) /\ x = r.extend_in /\ whole = w + 1 /\ whole > 0 /\ whole \in Nat
  BY RequestFields, OperandFields
<1>2. PICK v \in Word(whole) : v = RingOf(r) /\ v \in Int
  <2>0. PICK u \in Word(w) : u = OperandOf(r)
    BY <1>1, OperandFields
  <2>1. PICK v : v = u * 2 + x
    OBVIOUS
  <2>2. v \in Nat /\ v \in Word(w + 1)
    BY <1>1, <2>1, RingOfOperand
  <2> QED
    BY <1>1, <2>0, <2>1, <2>2 DEF RingOf
<1>3. PICK k \in 0 .. XLEN - 1 : k = RoxCount(r) /\ k <= whole /\ k \in 0 .. whole - 1
  BY <1>1, CountIsReduced DEF RoxCount
<1>4. Reference!ReduceModulo(r.count, whole) = k
  <2>1. ReducedCount(r.count, w) = k
    BY <1>1, <1>3, CountIsReduced DEF RoxCount
  <2>2. Reference!ReduceModulo(r.count, w + 1) = ReducedCount(r.count, w)
    BY Zenon DEF Reference!ReduceModulo, ReducedCount, Reduced
  <2> QED
    BY <1>1, <2>1, <2>2
<1>5. ring = Reference!BarrelRotate(r.operation, v, k, whole)
  <2>1. Reference!Truncate(r.source, w) * 2 + r.extend_in = v
    BY <1>1, <1>2, SameBits DEF RingOf, OperandOf
  <2> QED
    BY <1>1, <1>4, <2>1 DEF Reference!RotatedRing
<1>6. ring = Turned(r.operation, v, k, whole)
  <2>1. Reversed(v, whole) \in Word(whole)
    BY <1>1, <1>2, ReversedIsWord
  <2>2. Reference!BarrelRotateLeft(v, k, whole) = RotatedLeft(v, k, whole)
    BY <1>1, <1>2, <1>3, BarrelRotates
  <2>3. Reference!BarrelRotateLeft(Reversed(v, whole), k, whole)
            = RotatedLeft(Reversed(v, whole), k, whole)
    BY <1>1, <1>3, <2>1, BarrelRotates
  <2> QED
    BY <1>5, <2>2, <2>3, SameBits
    DEF Reference!BarrelRotate, Reference!Right, Turned, RotatesExtend
<1>7. ring = RotatedLeft(v, Distance(r.operation, k, whole), whole)
  <2>1. r.operation \in {"ROL", "ROR", "ROXL", "ROXR"}
    BY DEF RotatesExtend
  <2> QED
    BY <1>1, <1>2, <1>3, <1>6, <2>1, TurnedLeft
<1>8. ring = RotatedLeft(RingOf(r), Distance(r.operation, RoxCount(r), WidthOf(r) + 1),
                         WidthOf(r) + 1)
  BY <1>1, <1>2, <1>3, <1>7
<1> QED
  BY <1>8, ModelRing

\* Its comparison of the bits that leave the operand finds the model's overflow.
LEMMA ReferenceOverflow ==
    ASSUME NEW r \in ShiftRequest
    PROVE  (r.operation = "ASL" /\ Reference!AslOverflow(r.source, WidthOf(r), r.count))
               = Overflow(r)
<1>1. PICK w \in 1 .. XLEN, n \in 0 .. XLEN - 1, v \in Int :
          w = WidthOf(r) /\ n = r.count /\ v = r.source
  BY RequestFields
<1>2. PICK u \in Word(w) : u = Truncate(v, w)
  BY OperandIsWord
<1>3. PICK a \in Int : a = AsSigned(v, w) /\ a = AsSigned(u, w) /\ a \in Representable(w, TRUE)
  BY <1>2, OperandValue
<1>4. Reference!AslOverflow(v, w, n) <=> n # 0 /\ ChangesSign(u, n, w)
  BY <1>2, ReferenceOverflows
<1>5. ChangesSign(u, n, w) <=> AsSigned(u, w) * 2^n \notin Representable(w, TRUE)
  <2>1. n \in 0 .. XLEN
    BY LengthAssumption
  <2> QED
    BY <2>1, SignChanges, ZenonT(40)
<1>6. ASSUME n = 0 PROVE AsSigned(u, w) * 2^n \in Representable(w, TRUE)
  <2>1. 2^0 = 1 /\ a * 1 = a
    BY <1>3
  <2> QED
    BY <1>3, <1>6, <2>1, ZenonT(40)
<1>7. Reference!AslOverflow(v, w, n) <=> AsSigned(v, w) * 2^n \notin Representable(w, TRUE)
  BY <1>3, <1>4, <1>5, <1>6, ZenonT(40)
<1>8. (r.operation = "ASL" /\ Reference!AslOverflow(r.source, WidthOf(r), r.count))
          <=> Overflow(r)
  BY <1>1, <1>7, Zenon DEF Overflow
<1>9. Overflow(r) \in BOOLEAN
      /\ (r.operation = "ASL" /\ Reference!AslOverflow(r.source, WidthOf(r), r.count)) \in BOOLEAN
  BY DEF Overflow
<1> QED
  BY <1>8, <1>9, ZenonT(40)

\* The outputs of the reference for a request.
ReferenceOutputs(r) ==
    Reference!ShiftRotate(r.operation, r.source, r.count, WidthOf(r), r.extend_in,
                          r.update_flags)

\* Every output of the reference is the model's answer.
LEMMA ReferenceAnswers ==
    ASSUME NEW r \in ShiftRequest
    PROVE  \A output \in DOMAIN ReferenceOutputs(r) :
              Answer(r)[output] = ReferenceOutputs(r)[output]
<1> DEFINE w == WidthOf(r)
           ring == Reference!RotatedRing(r.operation, r.source, r.count, w, r.extend_in)
           ordinary == IF Reference!PlainRotate(r.operation)
                       THEN Reference!Rotated(r.operation, r.source, r.count, w)
                       ELSE Reference!Shifted(r.operation, r.source, r.count, w)
           value == IF RotatesExtend(r.operation) THEN ring \div 2 ELSE ordinary
           extend == IF RotatesExtend(r.operation) THEN Bit(ring, 0) = 1 ELSE r.extend_in = 1
           carry == IF RotatesExtend(r.operation) THEN extend
                    ELSE Reference!ReferenceCarry(r.operation, r.source, r.count, w, value)
           overflow == r.operation = "ASL" /\ Reference!AslOverflow(r.source, w, r.count)
<1>1. ReferenceOutputs(r)
          = [result |-> value, negative |-> SignSet(value, w), zero |-> value = 0,
             overflow |-> overflow, carry |-> carry, flags_valid |-> r.update_flags,
             extend_out |-> extend, extend_valid |-> RotatesExtend(r.operation)]
  BY SameBits, ZenonT(40)
  DEF ReferenceOutputs, Reference!ShiftRotate, Reference!ExtendRotate, RotatesExtend
<1>2. overflow = Overflow(r)
  BY ReferenceOverflow
<1>3. /\ r.source \in Int /\ r.count \in 0 .. XLEN - 1 /\ w \in 1 .. XLEN
      /\ XLEN % w = 0 /\ r.count \in Nat /\ w \in Nat
  BY RequestFields, LengthAssumption
<1>4. CASE RotatesExtend(r.operation)
  <2>1. Value(r) = ring \div 2 /\ Carry(r) = (Bit(ring, 0) = 1)
    BY <1>4, ReferenceRing
  <2>2. value = Value(r) /\ extend = Carry(r) /\ carry = Carry(r)
    BY <1>4, <2>1
  <2>3. PICK out, valid : out = Carry(r) /\ valid = RotatesExtend(r.operation)
    OBVIOUS
  <2> HIDE DEF value, extend, carry, overflow, ring, ordinary
  <2>4. Answer(r) = [tag |-> r.tag, result |-> Value(r), flags_valid |-> r.update_flags,
                     negative |-> SignSet(Value(r), w), zero |-> Value(r) = 0,
                     overflow |-> Overflow(r), carry |-> out, extend_valid |-> valid,
                     extend_out |-> out]
    BY <1>4, <2>3 DEF Answer
  <2>5. ReferenceOutputs(r)
          = [result |-> Value(r), negative |-> SignSet(Value(r), w), zero |-> Value(r) = 0,
             overflow |-> Overflow(r), carry |-> out, flags_valid |-> r.update_flags,
             extend_out |-> out, extend_valid |-> valid]
    BY <1>1, <1>2, <2>2, <2>3
  <2> QED
    BY <2>4, <2>5
<1>5. CASE ~RotatesExtend(r.operation)
  <2>1. r.operation \in OrdinaryOperation
    BY <1>5, RequestFields DEF RotatesExtend, OrdinaryOperation, Operation
  <2>2. ordinary = Value(r)
    BY <1>3, <2>1, ReferenceValue DEF Value
  <2>3. value = Value(r) /\ extend = (r.extend_in = 1)
    BY <1>5, <2>2
  <2>4. carry = Carry(r)
    <3>1. carry <=> LastOut(r.operation, r.source, r.count, w, Value(r))
      BY <1>5, <2>1, <2>3, ReferenceCarries
    <3>2. Carry(r) <=> LastOut(r.operation, r.source, r.count, w, Value(r))
      BY <1>3, <2>1, ModelCarry DEF Carry, Value
    <3>3. carry \in BOOLEAN
      BY <1>5 DEF Reference!ReferenceCarry
    <3>4. Carry(r) \in BOOLEAN
      BY RequestFields, CarryIsBoolean DEF Carry
    <3> QED
      BY <3>1, <3>2, <3>3, <3>4, ZenonT(40)
  <2> HIDE DEF value, extend, carry, overflow, ring, ordinary
  <2> QED
    BY <1>1, <1>2, <1>5, <2>3, <2>4 DEF Answer
<1> QED
  BY <1>4, <1>5

\* What a consumer sees of an answer is what the executable model prescribes.
LEMMA AnswerIsArchitectural ==
    ASSUME NEW r \in ShiftRequest
    PROVE  Visible(Answer(r)) = Architectural(r)
<1>1. r.count % XLEN = r.count
  BY RequestFields, LengthAssumption
<1>2. Model!RotateExtends(r.operation) = RotatesExtend(r.operation)
  BY DEF Model!RotateExtends, RotatesExtend
<1>3. Model!ShiftRotate(r.operation, r.source, r.count, WidthOf(r), r.extend_in,
                        r.update_flags)
          = [value |-> Value(r),
             flags |-> IF r.update_flags
                       THEN [negative |-> SignSet(Value(r), WidthOf(r)), zero |-> Value(r) = 0,
                             overflow |-> Overflow(r), carry |-> Carry(r)]
                       ELSE None,
             extend |-> IF RotatesExtend(r.operation) THEN Carry(r) ELSE None]
  <2>1. \A a, b : Model!Representable(a, b) = Representable(a, b)
    BY DEF Model!Representable, Representable
  <2> QED
    BY <1>1, <1>2, <2>1, SameBits, Zenon DEF Model!ShiftRotate, Value, Carry, Overflow
<1> QED
  BY <1>3 DEF Visible, VisibleFlags, Answer, Architectural, WidthOf

-----------------------------------------------------------------------------
(* The invariant.                                                          *)

\* Between the passes the registers are those of the request under way.
PassUnderWay ==
    state = "ROX_SECOND" =>
        /\ request \in Request /\ RotatesExtend(request.operation)
        /\ response_state = PendingResponse(request)
        /\ rox = FirstPartial(request)

\* The response register holds the model's answer.
ResponseIsAnswer ==
    response_valid => request \in Request /\ response_state = Answer(request)

\* A request the last edge accepted is answered, or between its passes.
EdgeIsUnderWay ==
    LET r == edge.request
    IN  (r # None /\ r.tag # edge.squash) =>
            /\ state = IF RotatesExtend(r.operation) THEN "ROX_SECOND" ELSE "RESPONSE"
            /\ response_state.tag = r.tag

SharedInvariant == TypeOK /\ PassUnderWay /\ ResponseIsAnswer /\ EdgeIsUnderWay

\* What an edge samples is typed.
LEMMA EdgeIsTyped ==
    /\ ResetEdge \in EdgeRecord(Request)
    /\ \A req \in Request \cup {None}, sq \in Tag \cup {None}, rdy \in BOOLEAN :
          ClockEdge(req, sq, rdy) \in EdgeRecord(Request)
  BY DEF ResetEdge, ClockEdge, EdgeRecord

\* A unit just powered up holds the invariant.
LEMMA InitIsInvariant == Init => SharedInvariant
  BY EdgeIsTyped
  DEF Init, SharedInvariant, TypeOK, PassUnderWay, ResponseIsAnswer, EdgeIsUnderWay,
      ResetEdge, response_valid

\* Reset leaves the registers, which no longer belong to a request.
LEMMA ResetKeepsInvariant == SharedInvariant /\ Reset => SharedInvariant'
<1> SUFFICES ASSUME SharedInvariant, Reset PROVE SharedInvariant'
  OBVIOUS
<1>1. /\ state' = "IDLE" /\ request' = None /\ edge' = ResetEdge
      /\ response_state' = response_state /\ rox' = rox
  BY DEF Reset
<1>2. TypeOK'
  BY <1>1, EdgeIsTyped DEF SharedInvariant, TypeOK
<1>3. edge'.request = None
  BY <1>1 DEF ResetEdge
<1> QED
  BY <1>1, <1>2, <1>3
  DEF SharedInvariant, PassUnderWay, ResponseIsAnswer, EdgeIsUnderWay, response_valid

\* An ordinary operation is answered by the edge that accepts it.
LEMMA OrdinaryKeepsInvariant ==
    ASSUME SharedInvariant, NEW r \in Request, NEW sq \in Tag \cup {None},
           NEW rdy \in BOOLEAN, AcceptOrdinary(r, sq, rdy)
    PROVE  SharedInvariant'
<1>1. /\ state' = "RESPONSE" /\ request' = r /\ edge' = ClockEdge(r, sq, rdy)
      /\ response_state' = OrdinaryResponse(r) /\ rox' = rox
      /\ ~RotatesExtend(r.operation) /\ r \in ShiftRequest
  BY RequestAssumption DEF AcceptOrdinary
<1>2. response_state' = Answer(r) /\ response_state' \in ShiftResponse
      /\ response_state'.tag = r.tag
  <2>1. OrdinaryResponse(r) = Answer(r)
    BY <1>1, OrdinaryAnswers
  <2>2. Answer(r) \in ShiftResponse /\ Answer(r).tag = r.tag
    BY <1>1, AnswerIsTyped DEF Answer
  <2> QED
    BY <1>1, <2>1, <2>2
<1>3. TypeOK'
  <2>1. edge' \in EdgeRecord(Request)
    BY <1>1, EdgeIsTyped
  <2> QED
    BY <1>1, <1>2, <2>1 DEF SharedInvariant, TypeOK
<1>4. edge'.request = r
  BY <1>1 DEF ClockEdge
<1> QED
  BY <1>1, <1>2, <1>3, <1>4
  DEF SharedInvariant, PassUnderWay, ResponseIsAnswer, EdgeIsUnderWay, response_valid

\* A rotate through extend starts its passes.
LEMMA RoxKeepsInvariant ==
    ASSUME SharedInvariant, NEW r \in Request, NEW sq \in Tag \cup {None},
           NEW rdy \in BOOLEAN, AcceptRox(r, sq, rdy)
    PROVE  SharedInvariant'
<1>1. /\ state' = "ROX_SECOND" /\ request' = r /\ edge' = ClockEdge(r, sq, rdy)
      /\ response_state' = PendingResponse(r) /\ rox' = FirstPartial(r)
      /\ RotatesExtend(r.operation) /\ r \in ShiftRequest
  BY RequestAssumption DEF AcceptRox
<1>2. response_state' \in ShiftResponse /\ rox' \in RoxState
  BY <1>1, PassIsTyped
<1>3. response_state'.tag = r.tag
  BY <1>1 DEF PendingResponse
<1>4. TypeOK'
  <2>1. edge' \in EdgeRecord(Request)
    BY <1>1, EdgeIsTyped
  <2> QED
    BY <1>1, <1>2, <2>1 DEF SharedInvariant, TypeOK
<1>5. edge'.request = r
  BY <1>1 DEF ClockEdge
<1>6. PassUnderWay'
  <2>1. FirstPartial(r) = FirstPartial(r)'
    BY DEF FirstPartial
  <2> QED
    BY <1>1, <2>1 DEF PassUnderWay
<1> QED
  BY <1>1, <1>3, <1>4, <1>5, <1>6
  DEF SharedInvariant, ResponseIsAnswer, EdgeIsUnderWay, response_valid

\* The second pass answers.
LEMMA SecondPassKeepsInvariant ==
    ASSUME SharedInvariant, NEW sq \in Tag \cup {None}, NEW rdy \in BOOLEAN,
           SecondPass(sq, rdy)
    PROVE  SharedInvariant'
<1>1. /\ state = "ROX_SECOND" /\ state' = "RESPONSE" /\ edge' = ClockEdge(None, sq, rdy)
      /\ response_state' = RoxResponse /\ rox' = rox /\ request' = request
  BY DEF SecondPass
<1>2. /\ request \in Request /\ request \in ShiftRequest /\ RotatesExtend(request.operation)
      /\ response_state = PendingResponse(request) /\ rox = FirstPartial(request)
  BY <1>1, RequestAssumption DEF SharedInvariant, PassUnderWay
<1>3. response_state' = Answer(request) /\ response_state' \in ShiftResponse
  BY <1>1, <1>2, PassesJoin, AnswerIsTyped
<1>4. TypeOK'
  <2>1. edge' \in EdgeRecord(Request)
    BY <1>1, EdgeIsTyped
  <2> QED
    BY <1>1, <1>3, <2>1 DEF SharedInvariant, TypeOK
<1>5. edge'.request = None
  BY <1>1 DEF ClockEdge
<1> QED
  BY <1>1, <1>2, <1>3, <1>4, <1>5
  DEF SharedInvariant, PassUnderWay, ResponseIsAnswer, EdgeIsUnderWay, response_valid

\* A step that leaves the registers, and accepts nothing, keeps it.
LEMMA QuietStepKeepsInvariant ==
    ASSUME SharedInvariant, edge' \in EdgeRecord(Request),
           edge'.request = None \/ edge'.request.tag = edge'.squash,
           state' = state \/ state' = "IDLE",
           response_state' = response_state, rox' = rox, request' = request
    PROVE  SharedInvariant'
<1>1. TypeOK'
  BY DEF SharedInvariant, TypeOK
<1>2. EdgeIsUnderWay'
  BY DEF EdgeIsUnderWay
<1>3. CASE state' = state
  BY <1>1, <1>2, <1>3
  DEF SharedInvariant, PassUnderWay, ResponseIsAnswer, response_valid
<1>4. CASE state' = "IDLE"
  BY <1>1, <1>2, <1>4
  DEF SharedInvariant, PassUnderWay, ResponseIsAnswer, response_valid
<1> QED
  BY <1>3, <1>4

\* Every step keeps the invariant.
LEMMA StepKeepsInvariant == SharedInvariant /\ [Next]_vars => SharedInvariant'
<1> SUFFICES ASSUME SharedInvariant, [Next]_vars PROVE SharedInvariant'
  OBVIOUS
<1>1. CASE Reset
  BY <1>1, ResetKeepsInvariant
<1>2. CASE UNCHANGED vars
  BY <1>2
  DEF vars, SharedInvariant, TypeOK, PassUnderWay, ResponseIsAnswer, EdgeIsUnderWay,
      response_valid
<1>3. ASSUME NEW sq \in Tag \cup {None}, NEW rdy \in BOOLEAN, Clock(sq, rdy)
      PROVE  SharedInvariant'
  <2>0. \A req \in Request \cup {None} :
            /\ ClockEdge(req, sq, rdy) \in EdgeRecord(Request)
            /\ ClockEdge(req, sq, rdy).request = req /\ ClockEdge(req, sq, rdy).squash = sq
    BY EdgeIsTyped DEF ClockEdge
  <2>1. ASSUME NEW r \in Request, AcceptOrdinary(r, sq, rdy) PROVE SharedInvariant'
    BY <2>1, OrdinaryKeepsInvariant
  <2>2. ASSUME NEW r \in Request, AcceptRox(r, sq, rdy) PROVE SharedInvariant'
    BY <2>2, RoxKeepsInvariant
  <2>3. ASSUME NEW req \in Request \cup {None}, AcceptNothing(req, sq, rdy)
        PROVE  SharedInvariant'
    BY <2>0, <2>3, QuietStepKeepsInvariant DEF AcceptNothing
  <2>4. CASE Hold(sq, rdy)
    BY <2>0, <2>4, QuietStepKeepsInvariant DEF Hold
  <2>5. CASE Cancel(sq, rdy)
    BY <2>0, <2>5, QuietStepKeepsInvariant DEF Cancel
  <2>6. CASE SecondPass(sq, rdy)
    BY <2>6, SecondPassKeepsInvariant
  <2> QED
    BY <1>3, <2>1, <2>2, <2>3, <2>4, <2>5, <2>6 DEF Clock
<1> QED
  BY <1>1, <1>2, <1>3 DEF Next

\* The invariant holds.
LEMMA SharedInvariantHolds == Spec => []SharedInvariant
<1>1. Init => SharedInvariant
  BY InitIsInvariant
<1>2. SharedInvariant /\ [Next]_vars => SharedInvariant'
  BY StepKeepsInvariant
<1> QED
  BY <1>1, <1>2, PTL DEF Spec

\* The registers of m64k_shift_rotate_shared keep their declared widths: no stage, of
\* either pass, leaves a bit above its operand, and a reduced count fits its register.
THEOREM SharedIsTyped == Spec => []TypeOK
<1>1. SharedInvariant => TypeOK
  BY DEF SharedInvariant
<1> QED
  BY <1>1, SharedInvariantHolds, PTL

\* Between the passes of a rotate through extend the registers are one request's, with the
\* count reduced to its ring, and the two shifts of the one network, whose counts add to
\* the ring's length, never produce a bit both: their or is their sum.
THEOREM PassesComplement == Spec => []PassesAreComplementary
<1>1. SharedInvariant => PassesAreComplementary
  <2> SUFFICES ASSUME SharedInvariant, state = "ROX_SECOND"
               PROVE  /\ response_state = PendingResponse(request)
                      /\ rox.effective_count
                             = request.count % (Width[request.operand_size] + 1)
                      /\ rox.effective_count # 0
                             => RoxResult = rox.first_partial + SecondPartial
    BY DEF PassesAreComplementary
  <2>1. /\ request \in ShiftRequest /\ RotatesExtend(request.operation)
        /\ response_state = PendingResponse(request) /\ rox = FirstPartial(request)
    BY RequestAssumption DEF SharedInvariant, PassUnderWay
  <2> QED
    BY <2>1, PassesJoin DEF RoxCount, WidthOf
<1> QED
  BY <1>1, SharedInvariantHolds, PTL

\* The shared network answers every operation with the outputs of the circuit that has a
\* barrel for each family: results, flags, carries and extend bits, for every operand,
\* count and size, of one pass and of two.
THEOREM SharedMatchesReference == Spec => []MatchesReference
<1>1. SharedInvariant => MatchesReference
  <2> SUFFICES ASSUME SharedInvariant, response_valid PROVE MatchesReference
    BY DEF MatchesReference
  <2>1. request \in ShiftRequest /\ response_state = Answer(request)
    BY RequestAssumption DEF SharedInvariant, ResponseIsAnswer
  <2>2. \A output \in DOMAIN ReferenceOutputs(request) :
            response_state[output] = ReferenceOutputs(request)[output]
    BY <2>1, ReferenceAnswers
  <2> QED
    BY <2>2 DEF MatchesReference, ReferenceOutputs, WidthOf
<1> QED
  BY <1>1, SharedInvariantHolds, PTL

\* A step from a state whose last edge accepted a request finds it answered, or answers,
\* cancels or resets it, whatever was accepted or published before.
LEMMA StepIsTimely ==
    ASSUME SharedInvariant, [Next]_vars, vars' # vars,
           edge.request # None, edge.request.tag # edge.squash
    PROVE  IF ~RotatesExtend(edge.request.operation)
           THEN response_valid /\ response_state.tag = edge.request.tag
           ELSE /\ ~response_valid
                /\ \/ edge'.reset
                   \/ edge'.squash = edge.request.tag
                   \/ response_valid' /\ response_state'.tag = edge.request.tag
<1>1. /\ state = IF RotatesExtend(edge.request.operation) THEN "ROX_SECOND" ELSE "RESPONSE"
      /\ response_state.tag = edge.request.tag
  BY DEF SharedInvariant, EdgeIsUnderWay
<1>2. CASE ~RotatesExtend(edge.request.operation)
  BY <1>1, <1>2 DEF response_valid
<1>3. CASE RotatesExtend(edge.request.operation)
  <2>1. state = "ROX_SECOND" /\ ~response_valid
    BY <1>1, <1>3 DEF response_valid
  <2>2. CASE Reset
    BY <1>3, <2>1, <2>2 DEF Reset, ResetEdge
  <2>3. ASSUME NEW sq \in Tag \cup {None}, NEW rdy \in BOOLEAN, Clock(sq, rdy)
        PROVE  \/ edge'.squash = edge.request.tag
               \/ response_valid' /\ response_state'.tag = edge.request.tag
    <3>1. Cancel(sq, rdy) \/ SecondPass(sq, rdy)
      BY <2>1, <2>3 DEF Clock, Vacant, Hold, response_valid
    <3>2. CASE Cancel(sq, rdy)
      BY <1>1, <3>2 DEF Cancel, ClockEdge
    <3>3. CASE SecondPass(sq, rdy)
      BY <1>1, <3>3 DEF SecondPass, RoxResponse, response_valid
    <3> QED
      BY <3>1, <3>2, <3>3
  <2> QED
    BY <1>3, <2>1, <2>2, <2>3 DEF Next
<1> QED
  BY <1>2, <1>3

\* An ordinary operation is answered at the edge that accepts it and a rotate through
\* extend at the next, unless that edge squashes its tag or resets the unit.
THEOREM SharedLatencyIsFixed == Spec => LatencyIsFixed
<1>1. SharedInvariant /\ [Next]_vars
      => [LET r == edge.request
          IN  (r # None /\ r.tag # edge.squash) =>
               IF ~RotatesExtend(r.operation)
               THEN response_valid /\ response_state.tag = r.tag
               ELSE /\ ~response_valid
                    /\ \/ edge'.reset
                       \/ edge'.squash = r.tag
                       \/ response_valid' /\ response_state'.tag = r.tag]_vars
  BY StepIsTimely
<1> QED
  BY <1>1, SharedInvariantHolds, PTL DEF Spec, LatencyIsFixed

-----------------------------------------------------------------------------
(* The unit it implements.                                                 *)

Inflight == IF state = "ROX_SECOND" THEN <<request>> ELSE <<>>
Published == IF response_valid THEN Visible(response_state) ELSE None

\* A step that samples an edge and leaves what the unit's squash leaves of the operations
\* it owns is a step of the unit.
LEMMA ClockImplements ==
    ASSUME NEW req \in Request \cup {None}, NEW sq \in Tag \cup {None}, NEW rdy \in BOOLEAN,
           edge' = ClockEdge(req, sq, rdy),
           NEW queue,
           queue = Surviving(Inflight \o (IF req = None THEN <<>> ELSE <<req>>), sq),
           \/ /\ Inflight' = queue
              /\ Published' = IF rdy THEN None ELSE Published
           \/ /\ Published = None \/ rdy
              /\ queue # <<>>
              /\ Inflight' = Tail(queue)
              /\ Published' = Architectural(Head(queue))
    PROVE  Unit!Clock
<1>1. /\ edge' \in Unit!Sample /\ ~edge'.reset
      /\ edge'.request = req /\ edge'.squash = sq /\ edge'.response_ready = rdy
  BY EdgeIsTyped DEF Unit!Sample, EdgeRecord, ClockEdge
<1>2. Unit!Surviving(Inflight \o Unit!Offered(edge'), edge'.squash) = queue
  <2>1. Unit!Offered(edge') = IF req = None THEN <<>> ELSE <<req>>
    BY <1>1 DEF Unit!Offered
  <2>2. \A held, squash : Unit!Surviving(held, squash) = Surviving(held, squash)
    BY DEF Unit!Surviving, Surviving
  <2> QED
    BY <1>1, <2>1, <2>2, ZenonT(40)
<1>3. Unit!Keep(queue) \/ Unit!Publish(queue)
  BY <1>1 DEF Unit!Keep, Unit!Publish, Inflight, Published
<1>4. Len(Inflight') <= 1
  BY DEF Inflight
<1> QED
  BY <1>1, <1>2, <1>3, <1>4 DEF Unit!Clock, Inflight

\* What survives of the operation between its passes and of the one offered.
LEMMA SharedSurvivors ==
    ASSUME NEW op, NEW squash
    PROVE  /\ Surviving(<<>> \o <<>>, squash) = <<>>
           /\ Surviving(<<>> \o <<op>>, squash) = IF op.tag = squash THEN <<>> ELSE <<op>>
           /\ Surviving(<<op>> \o <<>>, squash) = IF op.tag = squash THEN <<>> ELSE <<op>>
  BY ShortListsConcatenate, EmptySurvives, OneSurvives, ZenonT(40)

\* Reset and power up are the unit's.
LEMMA ResetImplements == (Init => Unit!Init) /\ (Reset => Unit!Reset)
  BY DEF Init, Unit!Init, Reset, Unit!Reset, response_valid, ResetEdge, Unit!ResetEdge

\* Every step of the shared unit is a step of the unit it promises to be.
LEMMA StepImplements ==
    SharedInvariant /\ SharedInvariant' /\ [Next]_vars => [Unit!Next]_Unit!vars
<1> SUFFICES ASSUME SharedInvariant, SharedInvariant', [Next]_vars
             PROVE  [Unit!Next]_Unit!vars
  OBVIOUS
<1>1. CASE Reset
  BY <1>1, ResetImplements DEF Unit!Next
<1>2. CASE UNCHANGED vars
  BY <1>2 DEF vars, Unit!vars, response_valid, Visible, VisibleFlags
<1>3. response_valid' => Published' = Architectural(request')
  <2>1. ASSUME response_valid' PROVE Published' = Architectural(request')
    <3>1. request' \in ShiftRequest /\ response_state' = Answer(request')
      BY <2>1, RequestAssumption DEF SharedInvariant, ResponseIsAnswer
    <3>2. Visible(Answer(request')) = Architectural(request')
      BY <3>1, AnswerIsArchitectural
    <3> QED
      BY <2>1, <3>1, <3>2 DEF Published
  <2> QED
    BY <2>1
<1>4. ASSUME state = "ROX_SECOND"
      PROVE  /\ request \in Request /\ response_state.tag = request.tag
             /\ Inflight = <<request>> /\ Published = None
  BY <1>4
  DEF SharedInvariant, PassUnderWay, PendingResponse, Inflight, Published, response_valid
<1>5. ASSUME NEW sq \in Tag \cup {None}, NEW rdy \in BOOLEAN, Clock(sq, rdy)
      PROVE  Unit!Clock
  <2> DEFINE Left(req) == Surviving(Inflight \o (IF req = None THEN <<>> ELSE <<req>>), sq)
  <2>0. None \in Request \cup {None}
    OBVIOUS
  <2>7. ASSUME Vacant(rdy) PROVE Inflight = <<>> /\ (Published = None \/ rdy)
    BY <2>7 DEF Vacant, Inflight, Published, response_valid
  <2>8. \A op : Head(<<op>>) = op /\ Tail(<<op>>) = <<>> /\ <<op>> # <<>>
    OBVIOUS
  <2>1. ASSUME NEW r \in Request, AcceptOrdinary(r, sq, rdy) PROVE Unit!Clock
    <3>1. /\ Vacant(rdy) /\ r # None /\ r.tag # sq /\ edge' = ClockEdge(r, sq, rdy)
          /\ request' = r /\ state' = "RESPONSE"
      BY <2>1, RequestAssumption DEF AcceptOrdinary, RequestReady
    <3>2. Left(r) = <<r>>
      BY <2>7, <3>1, SharedSurvivors
    <3>3. Inflight' = <<>> /\ Published' = Architectural(r)
      BY <1>3, <3>1 DEF Inflight, response_valid
    <3> QED
      BY <2>7, <2>8, <3>1, <3>2, <3>3, ClockImplements
  <2>2. ASSUME NEW r \in Request, AcceptRox(r, sq, rdy) PROVE Unit!Clock
    <3>1. /\ Vacant(rdy) /\ r # None /\ r.tag # sq /\ edge' = ClockEdge(r, sq, rdy)
          /\ request' = r /\ state' = "ROX_SECOND"
      BY <2>2, RequestAssumption DEF AcceptRox, RequestReady
    <3>2. Left(r) = <<r>>
      BY <2>7, <3>1, SharedSurvivors
    <3>3. Inflight' = <<r>> /\ Published' = None
      BY <3>1 DEF Inflight, Published, response_valid
    <3>4. Published' = IF rdy THEN None ELSE Published
      BY <2>7, <3>1, <3>3
    <3> QED
      BY <3>1, <3>2, <3>3, <3>4, ClockImplements
  <2>3. ASSUME NEW req \in Request \cup {None}, AcceptNothing(req, sq, rdy)
        PROVE  Unit!Clock
    <3>1. /\ Vacant(rdy) /\ Inflight' = <<>> /\ Published' = None
          /\ edge' = ClockEdge(req, sq, rdy) /\ (req # None => req.tag = sq)
      BY <2>3 DEF AcceptNothing, Inflight, Published, response_valid
    <3>2. Left(req) = <<>>
      BY <2>7, <3>1, SharedSurvivors
    <3>3. Published' = IF rdy THEN None ELSE Published
      BY <2>7, <3>1
    <3> QED
      BY <3>1, <3>2, <3>3, ClockImplements
  <2>4. CASE Hold(sq, rdy)
    <3>1. /\ edge' = ClockEdge(None, sq, rdy) /\ ~rdy
          /\ Inflight = <<>> /\ Inflight' = <<>> /\ Published' = Published
      BY <2>4 DEF Hold, Inflight, Published, response_valid
    <3>2. Left(None) = <<>>
      BY <3>1, SharedSurvivors
    <3> QED
      BY <2>0, <3>1, <3>2, ClockImplements
  <2>5. CASE Cancel(sq, rdy)
    <3>1. /\ state = "ROX_SECOND" /\ sq = response_state.tag
          /\ edge' = ClockEdge(None, sq, rdy) /\ Inflight' = <<>> /\ Published' = None
      BY <2>5 DEF Cancel, Inflight, Published, response_valid
    <3>2. Left(None) = <<>>
      BY <1>4, <3>1, SharedSurvivors
    <3> QED
      BY <1>4, <2>0, <3>1, <3>2, ClockImplements
  <2>6. CASE SecondPass(sq, rdy)
    <3>1. /\ state = "ROX_SECOND" /\ sq # response_state.tag
          /\ edge' = ClockEdge(None, sq, rdy) /\ Inflight' = <<>>
          /\ request' = request /\ response_valid'
      BY <2>6 DEF SecondPass, Inflight, response_valid
    <3>2. Left(None) = <<request>>
      BY <1>4, <3>1, SharedSurvivors
    <3>3. Published' = Architectural(request)
      BY <1>3, <3>1
    <3> QED
      BY <1>4, <2>0, <2>8, <3>1, <3>2, <3>3, ClockImplements
  <2> QED
    BY <1>5, <2>1, <2>2, <2>3, <2>4, <2>5, <2>6 DEF Clock
<1> QED
  BY <1>1, <1>2, <1>5 DEF Next, Unit!Next

\* m64k_shift_rotate_shared is a tagged execution unit of capacity one with the executable
\* model as its outcome: it answers each request it accepted at most once, drops exactly
\* the operation between its passes whose tag is squashed, never takes back a response, and
\* accepts while its last response is consumed without mixing the two.
THEOREM SharedImplementsUnit == Spec => ImplementsUnit
<1>1. Init => Unit!Init
  BY ResetImplements
<1> QED
  BY <1>1, SharedInvariantHolds, StepImplements, PTL DEF Spec, ImplementsUnit, Unit!Spec
=============================================================================
