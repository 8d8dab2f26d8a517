------------------------- MODULE ScalarDividerProofs ------------------------
(***************************************************************************)
(* Theorems about ScalarDivider, for every register width, set of operand  *)
(* sizes and set of requests its assumptions allow.                        *)
(***************************************************************************)
EXTENDS ScalarDivider, ExecuteBackendProofs

-----------------------------------------------------------------------------
(* The powers of two the registers are measured by.                        *)

\* The powers of two up to the dividend register's are powers.
LEMMA DividendPowersAdd ==
    \A m, n \in Nat : m + n <= 2 * XLEN => 2^m \in Nat \ {0} /\ 2^(m + n) = 2^m * 2^n
<1>1. 2 * XLEN \in Nat
  BY WidthAssumption
<1> QED
  BY <1>1, PowerAssumption, PowersAdd

\* And so are those of two widths of a register.
LEMMA PowersOfRegister ==
    \A m, n \in 0 .. XLEN : 2^m \in Nat \ {0} /\ 2^(m + n) = 2^m * 2^n
<1>1. \A m, n \in 0 .. XLEN : m \in Nat /\ n \in Nat /\ m + n <= 2 * XLEN
  BY WidthAssumption
<1> QED
  BY <1>1, DividendPowersAdd

\* A size's vectors are vectors of the register.
LEMMA SizeFits ==
    ASSUME NEW w \in 0 .. XLEN
    PROVE  2^w \in Nat \ {0} /\ 2^XLEN \in Nat \ {0} /\ 2^w <= 2^XLEN
<1>1. XLEN \in Nat /\ XLEN - w \in 0 .. XLEN /\ XLEN = w + (XLEN - w) /\ XLEN \in 0 .. XLEN
  BY WidthAssumption
<1>2. PICK n \in 0 .. XLEN : XLEN = w + n
  BY <1>1
<1>3. 2^w \in Nat \ {0} /\ 2^n \in Nat \ {0} /\ 2^(w + n) = 2^w * 2^n
  BY PowersOfRegister
<1>4. ASSUME NEW a \in Nat \ {0}, NEW b \in Nat \ {0} PROVE a <= a * b
  OBVIOUS
<1> QED
  BY <1>1, <1>2, <1>3, <1>4, PowersOfRegister

\* The dividend register holds a multiple of four vectors.
LEMMA DividendRegisterSize ==
    \E quarter \in Nat \ {0} : 2^(2 * XLEN) = 4 * quarter
<1>1. XLEN - 1 \in 0 .. XLEN /\ XLEN \in 0 .. XLEN /\ 1 \in 0 .. XLEN
      /\ XLEN = 1 + (XLEN - 1) /\ 2 * XLEN = XLEN + XLEN
  BY WidthAssumption
<1>2. PICK n \in 0 .. XLEN : XLEN = 1 + n
  BY <1>1
<1>3. 2^(2 * XLEN) = 2^XLEN * 2^XLEN
  BY <1>1, PowersOfRegister
<1>4. 2^XLEN = 2 * 2^n /\ 2^n \in Nat \ {0}
  <2>1. 2^(1 + n) = 2^1 * 2^n /\ 2^n \in Nat \ {0}
    BY <1>1, PowersOfRegister
  <2>2. 2^1 = 2
    OBVIOUS
  <2> QED
    BY <1>2, <2>1, <2>2
<1>5. ASSUME NEW h \in Nat \ {0}
      PROVE  h * h \in Nat \ {0} /\ (2 * h) * (2 * h) = 4 * (h * h)
  OBVIOUS
<1> QED
  BY <1>3, <1>4, <1>5

\* The dividend register holds at least one vector.
LEMMA DividendRegisterPower == 2^(2 * XLEN) \in Nat \ {0}
  BY DividendRegisterSize

\* The powers that select the two bits an iteration consumes are positive.
LEMMA DividendPowers ==
    ASSUME NEW n \in {2 * XLEN, 2 * XLEN - 1, 2 * XLEN - 2}
    PROVE  2^n \in Nat \ {0}
<1>1. XLEN \in 0 .. XLEN /\ XLEN - 1 \in 0 .. XLEN /\ XLEN - 2 \in 0 .. XLEN
  BY WidthAssumption
<1>2. PICK k \in 0 .. XLEN : n = XLEN + k
  BY <1>1, WidthAssumption
<1>3. 2^(XLEN + k) = 2^XLEN * 2^k /\ 2^XLEN \in Nat \ {0} /\ 2^k \in Nat \ {0}
  BY <1>1, PowersOfRegister
<1>4. ASSUME NEW a \in Nat \ {0}, NEW b \in Nat \ {0} PROVE a * b \in Nat \ {0}
  OBVIOUS
<1> QED
  BY <1>2, <1>3, <1>4

-----------------------------------------------------------------------------
(* What an accepted request puts in the registers.                         *)

\* The fields of a request the dispatcher may present have their types.
LEMMA RequestFields ==
    ASSUME NEW r \in Request
    PROVE  /\ r \in DivideRequest
           /\ r.tag \in Tag /\ r.operand_size \in OperandSize /\ r.result_form \in Form
           /\ r.signed_operation \in BOOLEAN /\ r.double_width_dividend \in BOOLEAN
           /\ r.update_flags \in BOOLEAN
           /\ r.dividend_low \in Int /\ r.dividend_high \in Int /\ r.divisor \in Int
<1>1. r \in DivideRequest
  BY RequestAssumption
<1>2. Word(XLEN) \subseteq Int
  BY SizeFits, WidthAssumption DEF Word
<1> QED
  BY <1>1, <1>2 DEF DivideRequest

\* The operand width of a request is at least two and fits the register.
LEMMA RequestWidthFits ==
    ASSUME NEW r \in Request
    PROVE  /\ RequestWidth(r) \in 2 .. XLEN
           /\ 2^RequestWidth(r) \in Nat \ {0}
           /\ Word(RequestWidth(r)) \subseteq Word(XLEN)
<1>1. RequestWidth(r) \in 2 .. XLEN
  BY RequestFields, WidthAssumption DEF RequestWidth
<1>2. RequestWidth(r) \in 0 .. XLEN
  BY <1>1, WidthAssumption
<1> QED
  BY <1>1, <1>2, SizeFits, WordIsMonotone

\* The divisor's magnitude fits the divisor register.
LEMMA DivisorIsWord ==
    ASSUME NEW r \in Request
    PROVE  DivisorMagnitude(r) \in Word(XLEN)
<1>1. TruncatedDivisor(r) \in Word(RequestWidth(r))
  BY RequestFields, RequestWidthFits, TruncateIsWord DEF TruncatedDivisor
<1>2. TruncatedDivisor(r) \in Int
  BY <1>1, RequestWidthFits DEF Word
<1>3. Negated(TruncatedDivisor(r), RequestWidth(r)) \in Word(RequestWidth(r))
  BY <1>2, RequestWidthFits, NegatedIsWord
<1> QED
  BY <1>1, <1>3, RequestWidthFits DEF DivisorMagnitude

\* The dividend's width is within the powers the assumption covers.
LEMMA DividendWidthFits ==
    ASSUME NEW r \in Request
    PROVE  /\ 2^DividendWidth(r) \in Nat \ {0}
           /\ 2^(2 * XLEN - DividendWidth(r)) \in Nat \ {0}
<1> DEFINE w == RequestWidth(r)
<1>1. w \in 0 .. XLEN /\ XLEN - w \in 0 .. XLEN /\ XLEN \in 0 .. XLEN /\ XLEN \in Nat
  BY RequestWidthFits, WidthAssumption
<1>2. ASSUME NEW a \in 0 .. XLEN, NEW b \in 0 .. XLEN PROVE 2^(a + b) \in Nat \ {0}
  BY PowersOfRegister
<1>3. CASE r.double_width_dividend
  <2>1. DividendWidth(r) = w + w /\ 2 * XLEN - DividendWidth(r) = (XLEN - w) + (XLEN - w)
    BY <1>1, <1>3 DEF DividendWidth
  <2> QED
    BY <1>1, <1>2, <2>1
<1>4. CASE ~r.double_width_dividend
  <2>1. DividendWidth(r) = w /\ 2 * XLEN - DividendWidth(r) = XLEN + (XLEN - w)
    BY <1>1, <1>4 DEF DividendWidth
  <2> QED
    BY <1>1, <1>2, <2>1, RequestWidthFits
<1> QED
  BY <1>3, <1>4

\* The aligned dividend fits the double-width dividend register.
LEMMA DividendIsWord ==
    ASSUME NEW r \in Request
    PROVE  AlignedDividend(r) \in Word(2 * XLEN)
<1> DEFINE w == RequestWidth(r)
<1>1. 2^w \in Nat \ {0}
  BY RequestWidthFits
<1>2. Truncate(r.dividend_low, w) \in Int /\ Truncate(r.dividend_high, w) \in Int
  BY <1>1, RequestFields, TruncateIsWord DEF Word
<1>3. RawDividend(r) \in Int
  BY <1>1, <1>2 DEF RawDividend
<1>4. DividendMagnitude(r) \in Int
  BY <1>3, DividendWidthFits DEF DividendMagnitude
<1>5. DividendMagnitude(r) * 2^(2 * XLEN - DividendWidth(r)) \in Int
  BY <1>4, DividendWidthFits
<1> QED
  BY <1>5, DividendRegisterPower, TruncateIsWord DEF AlignedDividend

-----------------------------------------------------------------------------
(* What an iteration leaves in the registers.                              *)

\* A restoring step leaves a register-wide remainder and produces one bit.
LEMMA RestoreIsWord ==
    ASSUME NEW p \in Int, NEW b \in Int, NEW d \in Int
    PROVE  /\ Restore(p, b, d).remainder \in Word(XLEN)
           /\ Restore(p, b, d).bit \in {0, 1}
<1>1. 2 * p + b \in Int /\ 2 * p + b - d \in Int
  OBVIOUS
<1>2. 2^XLEN \in Nat \ {0}
  BY SizeFits, WidthAssumption
<1>3. /\ Truncate(2 * p + b, XLEN) \in Word(XLEN)
      /\ Truncate(2 * p + b - d, XLEN) \in Word(XLEN)
  BY <1>1, <1>2, TruncateIsWord
<1> QED
  BY <1>3 DEF Restore

\* Two cascaded restoring steps leave the datapath registers within their widths.
LEMMA StepsAreTyped ==
    ASSUME TypeOK
    PROVE  /\ SecondStep.remainder \in Word(XLEN)
           /\ NextDividendQuotient \in Word(2 * XLEN)
<1>1. /\ Word(XLEN) \subseteq Int /\ Word(2 * XLEN) \subseteq Int
  BY SizeFits, WidthAssumption, DividendRegisterPower DEF Word
<1>2. partial_remainder \in Int /\ divisor_magnitude \in Int /\ dividend_quotient \in Int
  BY <1>1 DEF TypeOK
<1>3. /\ Bit(dividend_quotient, 2 * XLEN - 1) \in Int
      /\ Bit(dividend_quotient, 2 * XLEN - 2) \in Int
  BY <1>2, DividendPowers, BitIsBinary
<1>4. FirstStep.remainder \in Int /\ FirstStep.bit \in {0, 1}
  BY <1>1, <1>2, <1>3, RestoreIsWord DEF FirstStep
<1>5. SecondStep.remainder \in Word(XLEN) /\ SecondStep.bit \in {0, 1}
  BY <1>2, <1>3, <1>4, RestoreIsWord DEF SecondStep
<1>6. 2 * FirstStep.bit + SecondStep.bit \in 0 .. 3
  BY <1>4, <1>5
<1>7. PICK quarter \in Nat \ {0} : 2^(2 * XLEN) = 4 * quarter
  BY DividendRegisterSize
<1>8. Truncate(dividend_quotient * 4, 2 * XLEN) + (2 * FirstStep.bit + SecondStep.bit)
          \in Word(2 * XLEN)
  BY <1>2, <1>6, <1>7, TwoBitsShiftedIn
<1>9. Truncate(dividend_quotient * 4, 2 * XLEN) \in Int
  BY <1>1, <1>2, DividendRegisterPower, TruncateIsWord
<1>10. NextDividendQuotient =
        Truncate(dividend_quotient * 4, 2 * XLEN) + (2 * FirstStep.bit + SecondStep.bit)
  BY <1>4, <1>5, <1>9 DEF NextDividendQuotient
<1> QED
  BY <1>5, <1>8, <1>10

\* Two results are a pair of results.
LEMMA PairIsTyped ==
    ASSUME NEW S, NEW a \in S, NEW b \in S
    PROVE  <<a, b>> \in [1 .. 2 -> S]
  OBVIOUS

\* A result built from typed parts is a result record.
LEMMA ResultIsTyped ==
    ASSUME NEW valid \in BOOLEAN, NEW role \in Role, NEW v \in Word(XLEN)
    PROVE  Result(valid, role, v) \in ResultRecord
  BY DEF Result, ResultRecord

\* Zero is a value of the register and of the dividend register.
LEMMA ZeroIsWord == 0 \in Word(XLEN) /\ 0 \in Word(2 * XLEN)
  BY SizeFits, WidthAssumption, DividendRegisterPower DEF Word

\* The response of an operation that has produced nothing is typed.
LEMMA EmptyResponseIsTyped ==
    ASSUME NEW tag \in Tag, NEW role0 \in Role, NEW role1 \in Role
    PROVE  EmptyResponse(tag, role0, role1) \in DivideResponse
<1>1. Result(FALSE, role0, 0) \in ResultRecord /\ Result(FALSE, role1, 0) \in ResultRecord
  BY ResultIsTyped, ZeroIsWord
<1>2. <<Result(FALSE, role0, 0), Result(FALSE, role1, 0)>> \in [1 .. 2 -> ResultRecord]
  BY <1>1, PairIsTyped
<1> QED
  BY <1>2 DEF EmptyResponse, DivideResponse, Fault

\* A result with its sign restored in the operand width fits the register.
LEMMA SignedWordFits ==
    ASSUME TypeOK, NEW v \in Int, NEW negative \in BOOLEAN
    PROVE  WithSign(v, negative) \in Word(XLEN)
<1>1. operand_width \in 0 .. XLEN /\ XLEN \in 0 .. XLEN
  BY WidthAssumption DEF TypeOK
<1>2. /\ 2^operand_width \in Nat \ {0}
      /\ Word(operand_width) \subseteq Word(XLEN)
  BY <1>1, SizeFits, WordIsMonotone
<1>3. Negated(v, operand_width) \in Word(operand_width)
  BY <1>2, NegatedIsWord
<1>4. Truncate(v, operand_width) \in Word(operand_width)
  BY <1>2, TruncateIsWord
<1> QED
  BY <1>2, <1>3, <1>4 DEF WithSign

\* Overwriting every field but the tag with typed values keeps a response typed.
LEMMA UpdatedResponseIsTyped ==
    ASSUME NEW rsp \in DivideResponse, NEW count \in 0 .. 2,
           NEW results \in [1 .. 2 -> ResultRecord], NEW valid \in BOOLEAN,
           NEW negative \in BOOLEAN, NEW zero \in BOOLEAN,
           NEW faults \in BOOLEAN, NEW fault \in Fault
    PROVE  [rsp EXCEPT !.result_count = count, !.results = results,
                       !.flags_valid = valid, !.negative = negative, !.zero = zero,
                       !.overflow = FALSE, !.carry = FALSE,
                       !.fault_valid = faults, !.fault = fault] \in DivideResponse
  BY DEF DivideResponse

\* What the last iteration publishes, fault or results, is a typed response.
LEMMA FinishedResponseIsTyped ==
    ASSUME TypeOK, NEW magnitude \in Int, NEW remainder \in Int
    PROVE  FinishedResponse(magnitude, remainder) \in DivideResponse
<1> DEFINE q == WithSign(Truncate(magnitude, XLEN), quotient_negative)
           r == WithSign(remainder, remainder_negative)
           form == operation.result_form
           flag_value == IF form = "REMAINDER" THEN r ELSE q
<1>1. response \in DivideResponse
  BY DEF TypeOK, DivideResponse
<1>2. Truncate(magnitude, XLEN) \in Int
  BY SizeFits, WidthAssumption, TruncateIsWord DEF Word
<1>3. q \in Word(XLEN) /\ r \in Word(XLEN)
  BY <1>2, SignedWordFits DEF TypeOK
<1>4. /\ Result(TRUE, "REMAINDER", r) \in ResultRecord
      /\ Result(FALSE, "QUOTIENT", 0) \in ResultRecord
      /\ Result(TRUE, "QUOTIENT", q) \in ResultRecord
      /\ Result(form = "QUOTIENT_REMAINDER", "REMAINDER",
                IF form = "QUOTIENT_REMAINDER" THEN r ELSE 0) \in ResultRecord
  BY <1>3, ResultIsTyped, ZeroIsWord DEF Role
<1>5. [i \in 1 .. 2 |-> Result(FALSE, response.results[i].role, 0)]
          \in [1 .. 2 -> ResultRecord]
  BY <1>1, ZeroIsWord, ResultIsTyped DEF DivideResponse, ResultRecord
<1>6. /\ <<Result(TRUE, "REMAINDER", r), Result(FALSE, "QUOTIENT", 0)>>
            \in [1 .. 2 -> ResultRecord]
      /\ <<Result(TRUE, "QUOTIENT", q),
           Result(form = "QUOTIENT_REMAINDER", "REMAINDER",
                  IF form = "QUOTIENT_REMAINDER" THEN r ELSE 0)>>
            \in [1 .. 2 -> ResultRecord]
  BY <1>4, PairIsTyped
<1>7. /\ operation.update_flags \in BOOLEAN
      /\ SignSet(flag_value, operand_width) \in BOOLEAN
      /\ (Truncate(flag_value, operand_width) = 0) \in BOOLEAN
  BY DEF TypeOK, SignSet
<1>8. CASE form # "REMAINDER" /\ QuotientOverflows(magnitude)
  <2>1. "QUOTIENT_OVERFLOW" \in Fault /\ 0 \in 0 .. 2
    BY DEF Fault
  <2> HIDE DEF q, r, flag_value
  <2> QED
    BY <1>1, <1>5, <1>8, <2>1, UpdatedResponseIsTyped DEF FinishedResponse
<1>9. CASE ~(form # "REMAINDER" /\ QuotientOverflows(magnitude))
  <2> DEFINE count == IF form = "QUOTIENT_REMAINDER" THEN 2 ELSE 1
             results == IF form = "REMAINDER"
                        THEN <<Result(TRUE, "REMAINDER", r), Result(FALSE, "QUOTIENT", 0)>>
                        ELSE <<Result(TRUE, "QUOTIENT", q),
                               Result(form = "QUOTIENT_REMAINDER", "REMAINDER",
                                      IF form = "QUOTIENT_REMAINDER" THEN r ELSE 0)>>
             negative == SignSet(flag_value, operand_width)
             zero == Truncate(flag_value, operand_width) = 0
  <2>1. "NONE" \in Fault /\ count \in 0 .. 2
    BY DEF Fault
  <2>2. results \in [1 .. 2 -> ResultRecord]
    BY <1>6
  <2>3. negative \in BOOLEAN /\ zero \in BOOLEAN
    BY <1>7
  <2>4. FinishedResponse(magnitude, remainder) =
          [response EXCEPT !.result_count = count, !.results = results,
                           !.flags_valid = operation.update_flags,
                           !.negative = negative, !.zero = zero,
                           !.overflow = FALSE, !.carry = FALSE,
                           !.fault_valid = FALSE, !.fault = "NONE"]
    BY <1>9, Zenon DEF FinishedResponse
  <2> HIDE DEF count, results, negative, zero
  <2>5. PICK update_flags \in BOOLEAN, n \in BOOLEAN, z \in BOOLEAN :
          update_flags = operation.update_flags /\ n = negative /\ z = zero
    BY <1>7, <2>3, Zenon
  <2>6. [response EXCEPT !.result_count = count, !.results = results,
                         !.flags_valid = update_flags, !.negative = n, !.zero = z,
                         !.overflow = FALSE, !.carry = FALSE,
                         !.fault_valid = FALSE, !.fault = "NONE"] \in DivideResponse
    BY <1>1, <2>1, <2>2 DEF DivideResponse
  <2> QED
    BY <2>4, <2>5, <2>6, Zenon
<1> QED
  BY <1>8, <1>9

-----------------------------------------------------------------------------
(* Type correctness.                                                       *)

\* What a clock edge samples is typed.
LEMMA EdgeIsTyped ==
    /\ ResetEdge \in EdgeRecord(Request)
    /\ \A req \in Request \cup {None}, sq \in Tag \cup {None}, rdy \in BOOLEAN :
          ClockEdge(req, sq, rdy) \in EdgeRecord(Request)
  BY DEF ResetEdge, ClockEdge, EdgeRecord

\* What a cleared divider holds is typed.
LEMMA ClearedIsTyped ==
    /\ Cleared.state = "IDLE"
    /\ Cleared.operation \in [tag : Tag, result_form : Form,
                              signed : BOOLEAN, update_flags : BOOLEAN]
    /\ Cleared.response \in DivideResponse
    /\ 0 \in 0 .. XLEN
  BY TagAssumption, WidthAssumption, EmptyResponseIsTyped DEF Cleared, Form, Role

\* The registers are typed when the divider powers up in reset.
LEMMA InitIsTyped == Init => TypeOK
<1> SUFFICES ASSUME Init PROVE TypeOK
  OBVIOUS
<1>1. /\ state \in {"IDLE", "ITERATE", "RESPONSE"}
      /\ operation \in [tag : Tag, result_form : Form,
                        signed : BOOLEAN, update_flags : BOOLEAN]
      /\ response \in DivideResponse
  BY ClearedIsTyped DEF Init
<1>2. quotient_negative \in BOOLEAN /\ remainder_negative \in BOOLEAN
  BY Zenon DEF Init
<1>3. /\ operand_width \in 0 .. XLEN /\ iterations_remaining \in 0 .. 255
      /\ divisor_magnitude \in Word(XLEN) /\ partial_remainder \in Word(XLEN)
      /\ dividend_quotient \in Word(2 * XLEN)
  BY ClearedIsTyped, ZeroIsWord DEF Init
<1>4. request \in Request \cup {None} /\ edge \in EdgeRecord(Request)
  BY EdgeIsTyped DEF Init
<1> QED
  BY <1>1, <1>2, <1>3, <1>4 DEF TypeOK, DivideResponse

\* Reset leaves every register typed.
LEMMA ResetKeepsTypes == Reset => TypeOK'
<1> SUFFICES ASSUME Reset PROVE TypeOK'
  OBVIOUS
<1>1. /\ state' \in {"IDLE", "ITERATE", "RESPONSE"}
      /\ operation' \in [tag : Tag, result_form : Form,
                         signed : BOOLEAN, update_flags : BOOLEAN]
      /\ response' \in DivideResponse
  BY ClearedIsTyped DEF Reset
<1>2. quotient_negative' \in BOOLEAN /\ remainder_negative' \in BOOLEAN
  BY Zenon DEF Reset
<1>3. /\ operand_width' \in 0 .. XLEN /\ iterations_remaining' \in 0 .. 255
      /\ divisor_magnitude' \in Word(XLEN) /\ partial_remainder' \in Word(XLEN)
      /\ dividend_quotient' \in Word(2 * XLEN)
  BY ClearedIsTyped, ZeroIsWord DEF Reset
<1>4. request' \in Request \cup {None} /\ edge' \in EdgeRecord(Request)
  BY EdgeIsTyped DEF Reset
<1> QED
  BY <1>1, <1>2, <1>3, <1>4 DEF TypeOK, DivideResponse

\* Accepting a request leaves every register typed.
LEMMA AcceptKeepsTypes ==
    ASSUME TypeOK, NEW r \in Request, NEW sq \in Tag \cup {None}, NEW rdy \in BOOLEAN,
           Accept(r, sq, rdy)
    PROVE  TypeOK'
<1>1. operation' \in [tag : Tag, result_form : Form,
                      signed : BOOLEAN, update_flags : BOOLEAN]
  BY RequestFields DEF Accept
<1>2. quotient_negative' \in BOOLEAN /\ remainder_negative' \in BOOLEAN
  BY DEF Accept, DividendIsNegative
<1>3. operand_width' \in 0 .. XLEN /\ iterations_remaining' \in 0 .. 255
  <2>1. operand_width' = RequestWidth(r)
    BY DEF Accept
  <2>2. iterations_remaining' \in {RequestWidth(r), RequestWidth(r) \div 2}
    BY DEF Accept
  <2>3. RequestWidth(r) \in 2 .. XLEN /\ XLEN \in 2 .. 255
    BY RequestWidthFits, WidthAssumption
  <2> QED
    BY <2>1, <2>2, <2>3
<1>4. /\ divisor_magnitude' \in Word(XLEN)
      /\ dividend_quotient' \in Word(2 * XLEN)
      /\ partial_remainder' \in Word(XLEN)
  BY DivisorIsWord, DividendIsWord, ZeroIsWord DEF Accept
<1>5. state' \in {"IDLE", "ITERATE", "RESPONSE"} /\ response' \in DivideResponse
  <2> DEFINE empty == EmptyResponse(r.tag, "QUOTIENT", "REMAINDER")
  <2>1. empty \in DivideResponse
    BY RequestFields, EmptyResponseIsTyped DEF Role
  <2>2. [empty EXCEPT !.fault_valid = TRUE, !.fault = "ZERO"] \in DivideResponse
    <3> HIDE DEF empty
    <3> QED
      BY <2>1 DEF DivideResponse, Fault
  <2> QED
    BY <2>1, <2>2 DEF Accept
<1>6. request' \in Request \cup {None} /\ edge' \in EdgeRecord(Request)
  BY EdgeIsTyped DEF Accept
<1> QED
  BY <1>1, <1>2, <1>3, <1>4, <1>5, <1>6 DEF TypeOK, DivideResponse

\* An iteration leaves the datapath registers within their widths.
LEMMA StepDatapathKeepsTypes ==
    ASSUME TypeOK, StepDatapath
    PROVE  /\ dividend_quotient' \in Word(2 * XLEN)
           /\ partial_remainder' \in Word(XLEN)
           /\ iterations_remaining' \in 0 .. 255
<1>1. iterations_remaining - 1 \in Int
  BY DEF TypeOK
<1> QED
  BY <1>1, StepsAreTyped DEF StepDatapath

\* The last iteration leaves every register typed.
LEMMA FinishKeepsTypes ==
    ASSUME TypeOK, NEW sq \in Tag \cup {None}, NEW rdy \in BOOLEAN, Finish(sq, rdy)
    PROVE  TypeOK'
<1>1. NextDividendQuotient \in Int /\ SecondStep.remainder \in Int
  BY StepsAreTyped, SizeFits, WidthAssumption, DividendRegisterPower DEF Word
<1>2. response' \in DivideResponse
  BY <1>1, FinishedResponseIsTyped DEF Finish
<1>3. StepDatapath /\ state' = "RESPONSE" /\ UNCHANGED <<control, request>>
      /\ edge' \in EdgeRecord(Request)
  BY EdgeIsTyped DEF Finish
<1> QED
  BY <1>2, <1>3, StepDatapathKeepsTypes DEF TypeOK, DivideResponse, control

\* Every clock edge that finds the divider well typed leaves it so.
LEMMA StepKeepsTypes == TypeOK /\ [Next]_vars => TypeOK'
<1> SUFFICES ASSUME TypeOK, [Next]_vars PROVE TypeOK'
  OBVIOUS
<1>1. CASE Reset
  BY <1>1, ResetKeepsTypes
<1>2. CASE UNCHANGED vars
  BY <1>2 DEF TypeOK, vars, control, datapath
<1>3. ASSUME NEW sq \in Tag \cup {None}, NEW rdy \in BOOLEAN, Clock(sq, rdy)
      PROVE  TypeOK'
  <2>1. ASSUME NEW r \in Request, Accept(r, sq, rdy) PROVE TypeOK'
    BY <2>1, AcceptKeepsTypes
  <2>2. ASSUME NEW req \in Request \cup {None}, AcceptNothing(req, sq, rdy) PROVE TypeOK'
    BY <2>2, EdgeIsTyped DEF AcceptNothing, TypeOK, control, datapath
  <2>3. CASE Cancel(sq, rdy)
    <3>1. state' = "IDLE" /\ edge' \in EdgeRecord(Request)
          /\ UNCHANGED <<control, datapath, response, request>>
      BY <2>3, EdgeIsTyped DEF Cancel
    <3> QED
      BY <3>1 DEF TypeOK, control, datapath
  <2>4. CASE Iterate(sq, rdy)
    <3>1. StepDatapath /\ UNCHANGED <<state, control, response, request>>
          /\ edge' \in EdgeRecord(Request)
      BY <2>4, EdgeIsTyped DEF Iterate
    <3> QED
      BY <3>1, StepDatapathKeepsTypes DEF TypeOK, control
  <2>5. CASE Finish(sq, rdy)
    BY <2>5, FinishKeepsTypes
  <2>6. CASE Respond(sq, rdy)
    BY <2>6, EdgeIsTyped DEF Respond, TypeOK, control, datapath
  <2> QED
    BY <1>3, <2>1, <2>2, <2>3, <2>4, <2>5, <2>6 DEF Clock
<1> QED
  BY <1>1, <1>2, <1>3 DEF Next

\* Every register of the divider stays within its width, and the result roles,
\* counts and faults stay legal, for every width of the register.
THEOREM DividerIsTyped == Spec => []TypeOK
  BY InitIsTyped, StepKeepsTypes, PTL DEF Spec

-----------------------------------------------------------------------------
(* The recurrence.                                                         *)

\* The registers of a division under way are those of the accepted request.
OperationUnderWay ==
    state = "ITERATE" =>
        /\ request \in Request
        /\ TruncatedDivisor(request) # 0
        /\ operation = [tag |-> request.tag, result_form |-> request.result_form,
                        signed |-> request.signed_operation,
                        update_flags |-> request.update_flags]
        /\ quotient_negative = (DividendIsNegative(request) # DivisorIsNegative(request))
        /\ remainder_negative = DividendIsNegative(request)
        /\ operand_width = RequestWidth(request)
        /\ divisor_magnitude = DivisorMagnitude(request)
        /\ response = EmptyResponse(request.tag, "QUOTIENT", "REMAINDER")

\* With left bits of dividend r still to come, register dq holds them above the quotient
\* bits made so far, and with remainder p they reassemble the dividend.
Reassembles(r, dq, p, left) ==
    /\ left >= 0 /\ left <= DividendWidth(r)
    /\ p \in 0 .. DivisorMagnitude(r) - 1
    /\ \E quotient \in Word(DividendWidth(r) - left), rest \in Word(left) :
          /\ dq = rest * 2^(2 * XLEN - left) + quotient
          /\ DividendMagnitude(r) =
                (quotient * DivisorMagnitude(r) + p) * 2^left + rest

\* Recurrence, and that nothing but zeros separates the two parts of the register.
RecurrenceInvariant ==
    state = "ITERATE" =>
        /\ iterations_remaining >= 1
        /\ Reassembles(request, dividend_quotient, partial_remainder,
                       2 * iterations_remaining)

\* A restoring step is one step of long division.
LEMMA RestoreDivides ==
    ASSUME NEW d \in Word(XLEN), NEW p \in 0 .. d - 1, NEW b \in {0, 1}
    PROVE  /\ Restore(p, b, d).bit \in {0, 1}
           /\ Restore(p, b, d).remainder \in 0 .. d - 1
           /\ 2 * p + b = d * Restore(p, b, d).bit + Restore(p, b, d).remainder
<1>1. 2^XLEN \in Nat \ {0}
  BY SizeFits, WidthAssumption
<1>2. d \in Nat /\ d < 2^XLEN
  BY <1>1 DEF Word
<1>3. \A v \in 0 .. d - 1 : Truncate(v, XLEN) = v
  BY <1>1, <1>2, TruncateOfWord DEF Word
<1>4. CASE 2 * p + b >= d
  <2>1. 2 * p + b - d \in 0 .. d - 1
    BY <1>2, <1>4
  <2>2. Truncate(2 * p + b - d, XLEN) = 2 * p + b - d
    BY <1>3, <2>1
  <2>3. Restore(p, b, d) = [remainder |-> 2 * p + b - d, bit |-> 1]
    BY <1>2, <1>4, <2>2 DEF Restore
  <2> QED
    BY <1>2, <2>1, <2>3
<1>5. CASE ~(2 * p + b >= d)
  <2>1. 2 * p + b \in 0 .. d - 1
    BY <1>2, <1>5
  <2>2. Restore(p, b, d) = [remainder |-> 2 * p + b, bit |-> 0]
    BY <1>3, <1>5, <2>1 DEF Restore
  <2> QED
    BY <1>2, <2>1, <2>2
<1> QED
  BY <1>4, <1>5

\* The two highest bits of a register whose upper part is rest and whose lower is q, and
\* what is left when they are shifted out.
LEMMA TopBits ==
    ASSUME NEW l \in Nat \ {0}, NEW m \in Nat \ {0}, NEW q \in 0 .. m - 1,
           NEW rest \in 0 .. 4 * l - 1
    PROVE  \E b1 \in {0, 1}, b2 \in {0, 1}, less \in 0 .. l - 1 :
              /\ rest = (2 * b1 + b2) * l + less
              /\ ((rest * m + q) \div (2 * (l * m))) % 2 = b1
              /\ ((rest * m + q) \div (l * m)) % 2 = b2
              /\ ((rest * m + q) * 4) % (4 * (l * m)) = less * (4 * m) + 4 * q
<1>1. PICK b1 \in {0, 1}, b2 \in {0, 1}, less \in 0 .. l - 1 :
          rest = (2 * b1 + b2) * l + less
  <2>1. CASE rest < l
    BY <2>1
  <2>2. CASE rest >= l /\ rest < 2 * l
    <3>1. rest = (2 * 0 + 1) * l + (rest - l) /\ rest - l \in 0 .. l - 1
      BY <2>2
    <3> QED
      BY <3>1
  <2>3. CASE rest >= 2 * l /\ rest < 3 * l
    <3>1. rest = (2 * 1 + 0) * l + (rest - 2 * l) /\ rest - 2 * l \in 0 .. l - 1
      BY <2>3
    <3> QED
      BY <3>1
  <2>4. CASE rest >= 3 * l
    <3>1. rest = (2 * 1 + 1) * l + (rest - 3 * l) /\ rest - 3 * l \in 0 .. l - 1
      BY <2>4
    <3> QED
      BY <3>1
  <2> QED
    BY <2>1, <2>2, <2>3, <2>4
<1>2. PICK k \in Nat \ {0} : k = l * m
  OBVIOUS
<1>3. PICK low \in 0 .. k - 1 : low = less * m + q
  <2>1. less * m + q \in Nat
    OBVIOUS
  <2>2. less * m + m <= l * m
    <3>1. PICK c \in Nat : l = less + 1 + c
      BY <1>1
    <3>2. l * m = less * m + m + c * m /\ c * m >= 0
      BY <3>1
    <3> QED
      BY <3>2
  <2>3. less * m + q < k
    BY <1>2, <2>2
  <2> QED
    BY <2>1, <2>3
<1>4. rest * m + q = (2 * b1 + b2) * k + low
  <2>1. \A x, y \in Nat : (x * l + y) * m = x * (l * m) + y * m
    OBVIOUS
  <2>2. 2 * b1 + b2 \in Nat
    BY <1>1
  <2> QED
    BY <1>1, <1>2, <1>3, <2>1, <2>2
<1>5. PICK v \in Nat : v = rest * m + q /\ v = (2 * b1 + b2) * k + low
  BY <1>4
<1>6. v \div (2 * k) = b1
  <2>1. b2 * k + low \in 0 .. 2 * k - 1 /\ v = (2 * k) * b1 + (b2 * k + low)
    BY <1>1, <1>3, <1>5
  <2>2. 2 * k \in Nat \ {0}
    BY <1>2
  <2> QED
    BY <2>1, <2>2, DivisionIsUnique
<1>7. v \div k = 2 * b1 + b2
  <2>1. v = k * (2 * b1 + b2) + low /\ 2 * b1 + b2 \in Int
    BY <1>1, <1>5
  <2> QED
    BY <1>3, <2>1, DivisionIsUnique
<1>8. (v * 4) % (4 * k) = 4 * low
  <2>1. 4 * low \in 0 .. 4 * k - 1 /\ v * 4 = (4 * k) * (2 * b1 + b2) + 4 * low
        /\ 2 * b1 + b2 \in Int /\ 4 * k \in Nat \ {0}
    BY <1>1, <1>3, <1>5
  <2> QED
    BY <2>1, DivisionIsUnique
<1>9. 4 * low = less * (4 * m) + 4 * q
  BY <1>3
<1>10. b1 % 2 = b1 /\ (2 * b1 + b2) % 2 = b2
  BY <1>1
<1> QED
  BY <1>1, <1>2, <1>5, <1>6, <1>7, <1>8, <1>9, <1>10

\* Two restoring steps take two bits of the dividend.
LEMMA StepsReassemble ==
    ASSUME TypeOK, state = "ITERATE", OperationUnderWay, RecurrenceInvariant
    PROVE  Reassembles(request, NextDividendQuotient, SecondStep.remainder,
                       2 * (iterations_remaining - 1))
<1> DEFINE d == DivisorMagnitude(request)
           wide == DividendWidth(request)
           left == 2 * iterations_remaining
           less == 2 * (iterations_remaining - 1)
<1>1. /\ request \in Request /\ divisor_magnitude = d
      /\ iterations_remaining >= 1 /\ left >= 0 /\ left <= wide
      /\ partial_remainder \in 0 .. d - 1
  BY DEF OperationUnderWay, RecurrenceInvariant, Reassembles
<1>2. PICK quotient \in Word(wide - left), rest \in Word(left) :
          /\ dividend_quotient = rest * 2^(2 * XLEN - left) + quotient
          /\ DividendMagnitude(request) = (quotient * d + partial_remainder) * 2^left + rest
  BY DEF RecurrenceInvariant, Reassembles
<1>3. /\ iterations_remaining \in Nat /\ less \in Nat /\ left = less + 2
      /\ XLEN \in Nat /\ wide \in Nat /\ wide <= 2 * XLEN /\ 2 * XLEN - left \in Nat
      /\ wide - left \in Nat /\ 2 * XLEN - wide \in Nat
  <2>1. wide \in Nat /\ wide <= 2 * XLEN /\ XLEN \in Nat
    BY <1>1, RequestWidthFits, WidthAssumption, RequestFields DEF DividendWidth
  <2> HIDE DEF wide
  <2> QED
    BY <1>1, <2>1 DEF TypeOK
<1> DEFINE l == 2^less
           m == 2^(2 * XLEN - left)
           n == 2^(wide - left)
           k == 2^(2 * XLEN - wide)
<1> HIDE DEF d, wide, left, less
<1>4. /\ 2^2 = 4 /\ 2^1 = 2
  OBVIOUS
<1>5. /\ l \in Nat \ {0} /\ m \in Nat \ {0} /\ n \in Nat \ {0} /\ k \in Nat \ {0}
      /\ 2^left = 4 * l
      /\ 2^(2 * XLEN) = 4 * (l * m)
      /\ 2^(2 * XLEN - 1) = 2 * (l * m)
      /\ 2^(2 * XLEN - 2) = l * m
      /\ 2^(2 * XLEN - less) = 4 * m
      /\ 2^(wide - less) = 4 * n
      /\ m = n * k
  <2>1. PICK a \in Nat, b \in Nat, c \in Nat :
            a = 2 * XLEN - left /\ b = wide - left /\ c = 2 * XLEN - wide
    BY <1>3
  <2>2. /\ left = less + 2 /\ less + 2 <= 2 * XLEN
        /\ 2 * XLEN = (less + a) + 2 /\ 2 * XLEN - 1 = (less + a) + 1
        /\ 2 * XLEN - 2 = less + a /\ less + a \in Nat
        /\ 2 * XLEN - less = a + 2 /\ a + 2 <= 2 * XLEN
        /\ wide - less = b + 2 /\ b + 2 <= 2 * XLEN
        /\ a = b + c /\ b + c <= 2 * XLEN
    BY <1>3, <2>1
  <2>3. \A x, y \in Nat : x + y <= 2 * XLEN => 2^x \in Nat \ {0} /\ 2^(x + y) = 2^x * 2^y
    BY DividendPowersAdd
  <2>4. /\ 2^(less + 2) = 2^less * 2^2 /\ 2^less \in Nat \ {0}
        /\ 2^(a + 2) = 2^a * 2^2 /\ 2^a \in Nat \ {0}
        /\ 2^(b + 2) = 2^b * 2^2 /\ 2^b \in Nat \ {0}
        /\ 2^(b + c) = 2^b * 2^c
    BY <1>3, <2>1, <2>2, <2>3
  <2>5. 2^c \in Nat \ {0}
    <3>1. c + 0 <= 2 * XLEN
      BY <2>2, <1>3
    <3> QED
      BY <2>1, <2>3, <3>1
  <2>6. /\ 2^((less + a) + 2) = 2^(less + a) * 2^2
        /\ 2^((less + a) + 1) = 2^(less + a) * 2^1
        /\ 2^(less + a) = 2^less * 2^a
    <3>1. PICK e \in Nat : e = less + a
      BY <2>2
    <3>2. e + 2 <= 2 * XLEN /\ e + 1 <= 2 * XLEN
      BY <1>3, <2>2, <3>1
    <3>3. 2^(e + 2) = 2^e * 2^2 /\ 2^(e + 1) = 2^e * 2^1
      BY <2>3, <3>2
    <3>4. 2^(less + a) = 2^less * 2^a
      BY <1>3, <2>1, <2>2, <2>3
    <3> QED
      BY <3>1, <3>3, <3>4
  <2>7. l * m \in Nat /\ \A x \in Nat : x * 4 = 4 * x /\ x * 2 = 2 * x
    BY <2>1, <2>4
  <2> QED
    BY <1>4, <2>1, <2>2, <2>4, <2>5, <2>6, <2>7
<1> HIDE DEF l, m, n, k
<1>6. rest \in 0 .. 4 * l - 1 /\ quotient \in 0 .. n - 1 /\ quotient \in 0 .. m - 1
  <2>1. n <= n * k
    BY <1>5
  <2> QED
    BY <1>5, <2>1 DEF Word, n
<1>7. PICK b1 \in {0, 1}, b2 \in {0, 1}, lower \in 0 .. l - 1 :
          /\ rest = (2 * b1 + b2) * l + lower
          /\ ((rest * m + quotient) \div (2 * (l * m))) % 2 = b1
          /\ ((rest * m + quotient) \div (l * m)) % 2 = b2
          /\ ((rest * m + quotient) * 4) % (4 * (l * m)) = lower * (4 * m) + 4 * quotient
  <2>1. l \in Nat \ {0} /\ m \in Nat \ {0}
    BY <1>5
  <2> QED
    BY <1>6, <2>1, TopBits, ZenonT(60)
<1>8. dividend_quotient = rest * m + quotient
  BY <1>2 DEF m
<1>9. /\ Bit(dividend_quotient, 2 * XLEN - 1) = b1
      /\ Bit(dividend_quotient, 2 * XLEN - 2) = b2
      /\ Truncate(dividend_quotient * 4, 2 * XLEN) = lower * (4 * m) + 4 * quotient
  BY <1>5, <1>7, <1>8 DEF Bit, Truncate
<1>10. d \in Word(XLEN)
  BY <1>1, DivisorIsWord DEF d
<1>11. /\ FirstStep.bit \in {0, 1} /\ FirstStep.remainder \in 0 .. d - 1
       /\ 2 * partial_remainder + b1 = d * FirstStep.bit + FirstStep.remainder
  BY <1>1, <1>9, <1>10, RestoreDivides DEF FirstStep
<1>12. /\ SecondStep.bit \in {0, 1} /\ SecondStep.remainder \in 0 .. d - 1
       /\ 2 * FirstStep.remainder + b2 = d * SecondStep.bit + SecondStep.remainder
  BY <1>1, <1>9, <1>10, <1>11, RestoreDivides DEF SecondStep
<1>13. PICK c1 \in {0, 1}, c2 \in {0, 1}, p1 \in 0 .. d - 1, p2 \in 0 .. d - 1 :
          c1 = FirstStep.bit /\ c2 = SecondStep.bit
          /\ p1 = FirstStep.remainder /\ p2 = SecondStep.remainder
  BY <1>11, <1>12
<1>14. PICK made \in Nat : made = 4 * quotient + 2 * c1 + c2
  BY <1>6
<1>15. NextDividendQuotient = lower * (4 * m) + made
  BY <1>9, <1>5, <1>6, <1>13, <1>14 DEF NextDividendQuotient
<1>16. made \in 0 .. 4 * n - 1
  BY <1>5, <1>6, <1>13, <1>14
<1>17. PICK p \in 0 .. d - 1 : p = partial_remainder
  BY <1>1
<1>18. d \in Nat
  BY <1>10, SizeFits, WidthAssumption DEF Word
<1>19. made * d + p2 = 4 * (quotient * d + p) + 2 * b1 + b2
  <2>1. 2 * p + b1 = d * c1 + p1 /\ 2 * p1 + b2 = d * c2 + p2
    BY <1>11, <1>12, <1>13, <1>17
  <2>2. made * d = 4 * (quotient * d) + 2 * (d * c1) + d * c2
    BY <1>6, <1>13, <1>14, <1>18
  <2>3. PICK x \in Nat, y \in Nat, z \in Nat :
            x = quotient * d /\ y = d * c1 /\ z = d * c2
    <3>1. quotient * d \in Nat /\ d * c1 \in Nat /\ d * c2 \in Nat
      BY <1>6, <1>13, <1>18
    <3> QED
      BY <3>1
  <2>4. p \in Nat /\ p1 \in Nat /\ p2 \in Nat
    BY <1>13, <1>17, <1>18
  <2>5. ASSUME NEW e \in Int, e = 4 * x + 2 * y + z PROVE e + p2 = 4 * (x + p) + 2 * b1 + b2
    BY <2>1, <2>3, <2>4, <2>5, <1>7
  <2>6. made * d \in Int
    BY <1>14, <1>18
  <2> QED
    BY <2>2, <2>3, <2>5, <2>6
<1>20. DividendMagnitude(request) = (made * d + p2) * l + lower
  <2>1. DividendMagnitude(request) = (quotient * d + p) * (4 * l) + rest
    BY <1>2, <1>5, <1>17
  <2>2. PICK x \in Nat : x = quotient * d + p
    BY <1>6, <1>17, <1>18
  <2>3. (4 * x + 2 * b1 + b2) * l + lower = x * (4 * l) + ((2 * b1 + b2) * l + lower)
    BY <1>5, <1>7, <2>2
  <2> QED
    BY <1>7, <1>19, <2>1, <2>2, <2>3
<1>21. made \in Word(wide - less) /\ lower \in Word(less)
  BY <1>5, <1>16 DEF Word, l
<1>22. less >= 0 /\ less <= wide
  BY <1>1, <1>3
<1> QED
  BY <1>5, <1>13, <1>15, <1>20, <1>21, <1>22 DEF Reassembles, d, wide, less, l

-----------------------------------------------------------------------------
(* What the operands of a request mean.                                    *)

\* The powers of two an operand and a double-width dividend are measured by.
LEMMA OperandPowers ==
    ASSUME NEW r \in Request
    PROVE  \E half \in Nat \ {0} :
              /\ 2^(RequestWidth(r) - 1) = half
              /\ 2^RequestWidth(r) = 2 * half
              /\ 2^(2 * RequestWidth(r)) = (2 * half) * (2 * half)
              /\ 2^(2 * RequestWidth(r) - 1) = half * (2 * half)
<1>1. PICK n \in Nat : n = RequestWidth(r) - 1 /\ n + 1 = RequestWidth(r)
  BY RequestWidthFits, WidthAssumption
<1>2. n + 1 <= XLEN /\ XLEN \in Nat
  BY <1>1, RequestWidthFits, WidthAssumption
<1>3. \A x, y \in Nat : x + y <= 2 * XLEN => 2^x \in Nat \ {0} /\ 2^(x + y) = 2^x * 2^y
  BY DividendPowersAdd
<1>4. 2^1 = 2
  OBVIOUS
<1>5. 2^n \in Nat \ {0} /\ 2^(n + 1) = 2^n * 2^1
  <2>1. n + 1 <= 2 * XLEN /\ 1 \in Nat
    BY <1>2
  <2> QED
    BY <1>3, <2>1
<1>6. PICK m \in Nat : m = n + 1
  OBVIOUS
<1>7. 2^(m + m) = 2^m * 2^m /\ 2^(n + m) = 2^n * 2^m
  <2>1. m + m <= 2 * XLEN /\ n + m <= 2 * XLEN
    BY <1>2, <1>6
  <2> QED
    BY <1>3, <2>1
<1>8. m + m = 2 * RequestWidth(r) /\ n + m = 2 * RequestWidth(r) - 1
  BY <1>1, <1>6
<1>9. PICK half \in Nat \ {0} : half = 2^n /\ 2^m = 2 * half
  BY <1>4, <1>5, <1>6
<1> QED
  BY <1>1, <1>6, <1>7, <1>8, <1>9

\* The dividend and divisor of a request as the executable model reads them.
DividendOf(r) == AsOperand(RawDividend(r), DividendWidth(r), r.signed_operation)
DivisorOf(r) == AsOperand(r.divisor, RequestWidth(r), r.signed_operation)

\* The dividend registers hold the sign and the magnitude of the dividend, and the most
\* negative dividend keeps its magnitude.
LEMMA DividendMeans ==
    ASSUME NEW r \in Request
    PROVE  /\ RawDividend(r) \in Word(DividendWidth(r))
           /\ DividendOf(r) \in Int
           /\ DividendMagnitude(r) \in Word(DividendWidth(r))
           /\ DividendMagnitude(r) = Magnitude(DividendOf(r))
           /\ DividendIsNegative(r) <=> DividendOf(r) < 0
<1> DEFINE w == RequestWidth(r)
           wide == DividendWidth(r)
           high == Truncate(r.dividend_high, w)
           low == Truncate(r.dividend_low, w)
<1>1. PICK half \in Nat \ {0} :
          2^(w - 1) = half /\ 2^w = 2 * half /\ 2^(2 * w) = (2 * half) * (2 * half)
          /\ 2^(2 * w - 1) = half * (2 * half)
  BY OperandPowers
<1>2. r.dividend_low \in Int /\ r.dividend_high \in Int /\ r.signed_operation \in BOOLEAN
      /\ r.double_width_dividend \in BOOLEAN
  BY RequestFields
<1>3. high \in 0 .. 2 * half - 1 /\ low \in 0 .. 2 * half - 1
  BY <1>1, <1>2, TruncateIsWord DEF Word
<1>4. /\ SignSet(r.dividend_high, w) <=> high >= half
      /\ SignSet(r.dividend_low, w) <=> low >= half
  BY <1>1, <1>2, SignIsUpperHalf
<1> HIDE DEF w, high, low
<1>5. PICK top \in Nat \ {0}, raw \in Nat :
          /\ 2^(wide - 1) = top /\ 2^wide = 2 * top
          /\ RawDividend(r) = raw /\ raw < 2 * top
          /\ (IF r.double_width_dividend THEN high ELSE low) >= half <=> raw >= top
  <2>1. CASE r.double_width_dividend
    <3>1. wide = 2 * w /\ RawDividend(r) = high * 2^w + low
      BY <2>1 DEF RawDividend, DividendWidth, w, high, low
    <3>2. PICK top \in Nat \ {0} : top = half * (2 * half) /\ (2 * half) * (2 * half) = 2 * top
      OBVIOUS
    <3>3. PICK raw \in Nat : raw = high * (2 * half) + low
      BY <1>3
    <3>4. ASSUME NEW k \in Nat, high >= k PROVE raw >= k * (2 * half)
      <4>1. PICK c \in Nat : high = k + c
        BY <1>3, <3>4
      <4>2. high * (2 * half) = k * (2 * half) + c * (2 * half) /\ c * (2 * half) >= 0
        BY <4>1
      <4> QED
        BY <1>3, <3>3, <4>2
    <3>5. ASSUME NEW k \in Nat, high < k PROVE raw < k * (2 * half)
      <4>1. PICK c \in Nat : k = high + 1 + c
        BY <1>3, <3>5
      <4>2. k * (2 * half) = high * (2 * half) + 2 * half + c * (2 * half)
            /\ c * (2 * half) >= 0 /\ high * (2 * half) \in Int
        BY <1>3, <4>1
      <4> QED
        BY <1>3, <3>3, <4>2
    <3>6. raw < (2 * half) * (2 * half) /\ (high >= half <=> raw >= half * (2 * half))
      BY <1>3, <3>4, <3>5
    <3>7. raw < 2 * top /\ (high >= half <=> raw >= top)
      BY <3>2, <3>3, <3>6
    <3> QED
      BY <1>1, <2>1, <3>1, <3>2, <3>3, <3>7
  <2>2. CASE ~r.double_width_dividend
    <3>1. wide = w /\ RawDividend(r) = low
      BY <2>2 DEF RawDividend, DividendWidth, w, low
    <3> QED
      BY <1>1, <1>3, <2>2, <3>1
  <2> QED
    BY <2>1, <2>2
<1>6. DividendIsNegative(r) <=> r.signed_operation /\ raw >= top
  BY <1>2, <1>4, <1>5 DEF DividendIsNegative, w
<1>7. SignSet(raw, wide) <=> raw >= top
  BY <1>5, SignIsUpperHalf, TruncateOfWord DEF Word
<1>8. Truncate(raw, wide) = raw
  BY <1>5, TruncateOfWord DEF Word
<1>9. DividendOf(r) = IF r.signed_operation /\ raw >= top THEN raw - 2 * top ELSE raw
  BY <1>2, <1>5, <1>7, <1>8 DEF DividendOf, AsOperand, AsSigned
<1>10. DividendMagnitude(r) = IF r.signed_operation /\ raw >= top THEN 2 * top - raw ELSE raw
  BY <1>5, <1>6 DEF DividendMagnitude
<1> QED
  BY <1>5, <1>6, <1>9, <1>10 DEF Magnitude, Word

\* The divisor register holds the divisor's magnitude, which is zero only if it is.
LEMMA DivisorMeans ==
    ASSUME NEW r \in Request
    PROVE  /\ DivisorOf(r) \in Int
           /\ DivisorMagnitude(r) \in Word(RequestWidth(r))
           /\ DivisorMagnitude(r) = Magnitude(DivisorOf(r))
           /\ DivisorIsNegative(r) <=> DivisorOf(r) < 0
           /\ TruncatedDivisor(r) = 0 <=> DivisorOf(r) = 0
<1> DEFINE w == RequestWidth(r)
           v == TruncatedDivisor(r)
<1>1. PICK half \in Nat \ {0} : 2^(w - 1) = half /\ 2^w = 2 * half
  BY OperandPowers
<1>2. r.divisor \in Int /\ r.signed_operation \in BOOLEAN
  BY RequestFields
<1>3. v \in 0 .. 2 * half - 1 /\ v = Truncate(r.divisor, w)
  BY <1>1, <1>2, TruncateIsWord DEF Word, TruncatedDivisor
<1>4. Truncate(v, w) = v
  BY <1>1, <1>3, TruncateOfWord DEF Word
<1>5. (SignSet(v, w) <=> v >= half) /\ (SignSet(r.divisor, w) <=> v >= half)
  BY <1>1, <1>2, <1>3, <1>4, SignIsUpperHalf
<1> HIDE DEF v, w
<1>6. DivisorIsNegative(r) <=> r.signed_operation /\ v >= half
  BY <1>5 DEF DivisorIsNegative, v, w
<1>7. DivisorOf(r) = IF r.signed_operation /\ v >= half THEN v - 2 * half ELSE v
  BY <1>1, <1>2, <1>3, <1>5 DEF DivisorOf, AsOperand, AsSigned, w
<1>8. v >= half => Negated(v, w) = 2 * half - v
  <2>1. ASSUME v >= half PROVE (2 * half - v) % (2 * half) = 2 * half - v
    <3>1. 2 * half - v \in Word(w)
      BY <1>1, <1>3, <2>1 DEF Word
    <3> QED
      BY <1>1, <3>1, TruncateOfWord DEF Truncate
  <2> QED
    BY <1>1, <1>4, <2>1 DEF Negated
<1>9. DivisorMagnitude(r) = IF r.signed_operation /\ v >= half THEN 2 * half - v ELSE v
  BY <1>6, <1>8 DEF DivisorMagnitude, v, w
<1>10. DivisorMagnitude(r) \in 0 .. 2 * half - 1
  BY <1>3, <1>9
<1>11. DivisorMagnitude(r) \in Word(w)
  BY <1>1, <1>10 DEF Word
<1>12. TruncatedDivisor(r) = v /\ RequestWidth(r) = w
  BY DEF v, w
<1> QED
  BY <1>3, <1>6, <1>7, <1>9, <1>11, <1>12 DEF Magnitude

-----------------------------------------------------------------------------
(* The recurrence is an invariant.                                         *)

\* What every clock edge keeps about the operation under way.
DivisionInvariant == OperationUnderWay /\ RecurrenceInvariant

\* A request that is accepted and does not fault starts a recurrence that has made no
\* quotient bit.
LEMMA AcceptStartsRecurrence ==
    ASSUME NEW r \in Request, TruncatedDivisor(r) # 0
    PROVE  Reassembles(r, AlignedDividend(r), 0, DividendWidth(r))
<1> DEFINE wide == DividendWidth(r)
           n == DividendMagnitude(r)
<1>1. PICK slack \in Nat : slack = 2 * XLEN - wide /\ wide + slack = 2 * XLEN /\ wide \in Nat
  BY RequestWidthFits, RequestFields, WidthAssumption DEF DividendWidth
<1>2. 2^wide \in Nat \ {0} /\ 2^(wide + slack) = 2^wide * 2^slack
  BY <1>1, DividendPowersAdd
<1>3. 2^slack \in Nat \ {0}
  BY <1>1, DividendWidthFits
<1>4. n \in Word(wide) /\ n \in Nat /\ n < 2^wide
  BY <1>2, DividendMeans DEF Word
<1>5. AlignedDividend(r) = n * 2^slack
  <2>1. PICK l \in Nat \ {0}, m \in Nat \ {0} : l = 2^wide /\ m = 2^slack
    BY <1>2, <1>3
  <2>2. n * m \in Nat /\ n * m < l * m
    <3>1. PICK c \in Nat : l = n + 1 + c
      <4>1. l - n - 1 \in Nat /\ l = n + 1 + (l - n - 1)
        BY <1>4, <2>1
      <4> QED
        BY <4>1
    <3>2. l * m = n * m + m + c * m /\ c * m >= 0 /\ n * m \in Nat
      BY <1>4, <3>1
    <3> QED
      BY <3>2
  <2>3. n * 2^slack \in Word(2 * XLEN) /\ 2^(2 * XLEN) \in Nat \ {0}
    BY <1>1, <1>2, <2>1, <2>2, DividendRegisterPower DEF Word
  <2>4. Truncate(n * 2^slack, 2 * XLEN) = n * 2^slack
    BY <2>3, TruncateOfWord
  <2> QED
    BY <1>1, <2>4 DEF AlignedDividend
<1> HIDE DEF n, wide
<1>6. 0 \in 0 .. DivisorMagnitude(r) - 1
  <2>1. DivisorMagnitude(r) # 0 /\ DivisorMagnitude(r) \in Nat
    <3>1. DivisorOf(r) # 0 /\ DivisorOf(r) \in Int /\ DivisorMagnitude(r) = Magnitude(DivisorOf(r))
      BY DivisorMeans
    <3> QED
      BY <3>1 DEF Magnitude
  <2> QED
    BY <2>1
<1>7. 0 \in Word(wide - wide) /\ 2 * XLEN - wide = slack
  <2>1. wide - wide = 0 /\ 2^0 = 1
    BY <1>1
  <2> QED
    BY <1>1, <2>1 DEF Word
<1>8. n * 2^slack = n * 2^slack + 0 /\ n = (0 * DivisorMagnitude(r) + 0) * 2^wide + n
  <2>1. PICK d \in Int : d = DivisorMagnitude(r)
    BY DivisorMeans, RequestWidthFits DEF Word
  <2> QED
    BY <1>2, <1>3, <1>4, <2>1
<1> QED
  BY <1>1, <1>4, <1>5, <1>6, <1>7, <1>8 DEF Reassembles, n, wide

\* Accepting a request establishes the invariant.
LEMMA AcceptEstablishesDivision ==
    ASSUME NEW r \in Request, NEW sq, NEW rdy, Accept(r, sq, rdy)
    PROVE  DivisionInvariant'
<1>1. CASE TruncatedDivisor(r) = 0
  <2>1. state' = "RESPONSE"
    BY <1>1 DEF Accept
  <2> QED
    BY <2>1 DEF DivisionInvariant, OperationUnderWay, RecurrenceInvariant
<1>2. CASE TruncatedDivisor(r) # 0
  <2>1. request' = r
    BY DEF Accept
  <2>2. OperationUnderWay'
    BY <1>2, <2>1 DEF Accept, OperationUnderWay
  <2>3. iterations_remaining' >= 1 /\ 2 * iterations_remaining' = DividendWidth(r)
    <3>1. /\ RequestWidth(r) \in Nat /\ RequestWidth(r) >= 2 /\ RequestWidth(r) % 2 = 0
          /\ r.double_width_dividend \in BOOLEAN
      BY RequestFields, RequestWidthFits, WidthAssumption DEF RequestWidth
    <3> QED
      BY <3>1 DEF Accept, DividendWidth
  <2>4. /\ dividend_quotient' = AlignedDividend(r)
        /\ partial_remainder' = 0
    BY DEF Accept
  <2>5. Reassembles(r, dividend_quotient', partial_remainder', 2 * iterations_remaining')
    BY <1>2, <2>3, <2>4, AcceptStartsRecurrence
  <2>6. RecurrenceInvariant'
    BY <2>1, <2>3, <2>5 DEF RecurrenceInvariant, Reassembles, DividendWidth, RequestWidth,
          DivisorMagnitude, DividendMagnitude
  <2> QED
    BY <2>2, <2>6 DEF DivisionInvariant
<1> QED
  BY <1>1, <1>2

\* An iteration that is not the last keeps it.
LEMMA IterateKeepsDivision ==
    ASSUME TypeOK, DivisionInvariant, NEW sq, NEW rdy, Iterate(sq, rdy)
    PROVE  DivisionInvariant'
<1>1. /\ state = "ITERATE" /\ iterations_remaining # 1 /\ StepDatapath
      /\ UNCHANGED <<state, control, response, request>>
  BY DEF Iterate
<1>2. OperationUnderWay'
  BY <1>1 DEF DivisionInvariant, OperationUnderWay, control
<1>3. iterations_remaining' = iterations_remaining - 1 /\ iterations_remaining' >= 1
  BY <1>1 DEF StepDatapath, TypeOK, DivisionInvariant, RecurrenceInvariant
<1>4. Reassembles(request, NextDividendQuotient, SecondStep.remainder,
                  2 * (iterations_remaining - 1))
  BY <1>1, StepsReassemble DEF DivisionInvariant
<1>5. Reassembles(request, dividend_quotient', partial_remainder', 2 * iterations_remaining')
  BY <1>1, <1>3, <1>4 DEF StepDatapath
<1>6. RecurrenceInvariant'
  BY <1>1, <1>3, <1>5 DEF RecurrenceInvariant
<1> QED
  BY <1>2, <1>6 DEF DivisionInvariant

\* Every clock edge keeps it.
LEMMA StepKeepsDivision == TypeOK /\ DivisionInvariant /\ [Next]_vars => DivisionInvariant'
<1> SUFFICES ASSUME TypeOK, DivisionInvariant, [Next]_vars PROVE DivisionInvariant'
  OBVIOUS
<1> USE DEF DivisionInvariant
<1>1. ASSUME state' # "ITERATE" PROVE DivisionInvariant'
  BY <1>1 DEF OperationUnderWay, RecurrenceInvariant
<1>2. ASSUME UNCHANGED <<state, control, datapath, response, request>>
      PROVE  DivisionInvariant'
  BY <1>2 DEF OperationUnderWay, RecurrenceInvariant, control, datapath
<1>3. CASE Reset
  BY <1>1, <1>3 DEF Reset, Cleared
<1>4. CASE UNCHANGED vars
  BY <1>2, <1>4 DEF vars
<1>5. ASSUME NEW sq \in Tag \cup {None}, NEW rdy \in BOOLEAN, Clock(sq, rdy)
      PROVE  DivisionInvariant'
  <2>1. ASSUME NEW r \in Request, Accept(r, sq, rdy) PROVE DivisionInvariant'
    BY <2>1, AcceptEstablishesDivision
  <2>2. ASSUME NEW req \in Request \cup {None}, AcceptNothing(req, sq, rdy)
        PROVE  DivisionInvariant'
    BY <1>2, <2>2 DEF AcceptNothing
  <2>3. CASE Cancel(sq, rdy)
    BY <1>1, <2>3 DEF Cancel
  <2>4. CASE Iterate(sq, rdy)
    BY <2>4, IterateKeepsDivision
  <2>5. CASE Finish(sq, rdy)
    BY <1>1, <2>5 DEF Finish
  <2>6. CASE Respond(sq, rdy)
    BY <1>1, <2>6 DEF Respond, response_valid
  <2> QED
    BY <1>5, <2>1, <2>2, <2>3, <2>4, <2>5, <2>6 DEF Clock
<1> QED
  BY <1>3, <1>4, <1>5 DEF Next

\* The divider powers up idle.
LEMMA InitIsDivision == Init => DivisionInvariant
  BY DEF Init, Cleared, DivisionInvariant, OperationUnderWay, RecurrenceInvariant

\* Reassembling with nothing between the two parts of the register is the recurrence.
LEMMA ReassemblyIsRecurrence == TypeOK /\ DivisionInvariant => Recurrence
<1> SUFFICES ASSUME TypeOK, DivisionInvariant, state = "ITERATE" PROVE Recurrence
  BY DEF Recurrence
<1> DEFINE left == 2 * iterations_remaining
           wide == DividendWidth(request)
           made == wide - left
           d == DivisorMagnitude(request)
<1>1. /\ request \in Request /\ divisor_magnitude = d
      /\ iterations_remaining >= 1 /\ left >= 0 /\ left <= wide
      /\ partial_remainder \in 0 .. d - 1
  BY DEF DivisionInvariant, OperationUnderWay, RecurrenceInvariant, Reassembles
<1>2. PICK quotient \in Word(made), rest \in Word(left) :
          /\ dividend_quotient = rest * 2^(2 * XLEN - left) + quotient
          /\ DividendMagnitude(request) = (quotient * d + partial_remainder) * 2^left + rest
  BY DEF DivisionInvariant, RecurrenceInvariant, Reassembles
<1>3. XLEN \in Nat /\ wide \in Nat /\ wide <= 2 * XLEN /\ left \in Nat
  BY <1>1, RequestWidthFits, WidthAssumption, RequestFields DEF DividendWidth, TypeOK
<1>4. PICK b \in Nat, c \in Nat : b = made /\ c = 2 * XLEN - wide
  BY <1>1, <1>3
<1>5. b + c = 2 * XLEN - left /\ b + c <= 2 * XLEN
  BY <1>3, <1>4
<1>6. 2^b \in Nat \ {0} /\ 2^c \in Nat \ {0} /\ 2^(b + c) = 2^b * 2^c
  <2>1. c + 0 <= 2 * XLEN
    BY <1>3, <1>4
  <2> QED
    BY <1>5, <2>1, DividendPowersAdd
<1>7. 2^left \in Nat \ {0}
  <2>1. left + 0 <= 2 * XLEN
    BY <1>1, <1>3
  <2> QED
    BY <1>3, <2>1, DividendPowersAdd
<1>8. rest \in Nat /\ quotient \in 0 .. 2^b - 1
  BY <1>4, <1>6, <1>7 DEF Word
<1>9. PICK n \in Nat \ {0}, k \in Nat \ {0} : n = 2^b /\ k = 2^c
  BY <1>6
<1>10. /\ dividend_quotient \div 2^(2 * XLEN - left) = rest
       /\ dividend_quotient % 2^made = quotient
  <2>1. 2^(2 * XLEN - left) = n * k /\ 2^made = n
    BY <1>4, <1>5, <1>6, <1>9
  <2>2. PICK m \in Nat \ {0} : m = n * k
    OBVIOUS
  <2>3. quotient \in 0 .. m - 1
    <3>1. n <= n * k
      OBVIOUS
    <3> QED
      BY <1>8, <1>9, <2>2, <3>1
  <2>4. dividend_quotient = m * rest + quotient
    BY <1>2, <1>8, <2>1, <2>2
  <2>5. dividend_quotient \div m = rest
    BY <1>8, <2>3, <2>4, DivisionIsUnique
  <2>6. dividend_quotient = n * (k * rest) + quotient /\ k * rest \in Int
        /\ quotient \in 0 .. n - 1
    BY <1>8, <1>9, <2>2, <2>4
  <2>7. dividend_quotient % n = quotient
    BY <2>6, DivisionIsUnique
  <2> QED
    BY <2>1, <2>2, <2>5, <2>7
<1>11. made >= 0 /\ partial_remainder < divisor_magnitude
  BY <1>1, <1>3, DivisorIsWord, SizeFits, WidthAssumption DEF Word
<1> QED
  BY <1>1, <1>2, <1>10, <1>11 DEF Recurrence, Truncate

\* Between iterations the quotient bits, the remainder and the bits still to come
\* reassemble the dividend: the radix-4 steps never lose or duplicate a bit, for any
\* register width, operand size, sign and operands.
THEOREM RecurrenceHolds == Spec => []Recurrence
<1>1. Init => TypeOK /\ DivisionInvariant
  BY InitIsTyped, InitIsDivision
<1>2. (TypeOK /\ DivisionInvariant) /\ [Next]_vars => (TypeOK /\ DivisionInvariant)'
  BY StepKeepsTypes, StepKeepsDivision
<1>3. TypeOK /\ DivisionInvariant => Recurrence
  BY ReassemblyIsRecurrence
<1> QED
  BY <1>1, <1>2, <1>3, PTL DEF Spec
-----------------------------------------------------------------------------
(* What the executable model prescribes, in terms of the operands.         *)

QuotientOf(r) ==
    LET magnitude == Magnitude(DividendOf(r)) \div Magnitude(DivisorOf(r))
    IN  IF (DividendOf(r) < 0) # (DivisorOf(r) < 0) THEN -magnitude ELSE magnitude

RemainderOf(r) == DividendOf(r) - QuotientOf(r) * DivisorOf(r)

\* A quotient by a divisor that is not zero is a number.
LEMMA QuotientIsInteger ==
    ASSUME NEW r \in Request, DivisorOf(r) # 0
    PROVE  QuotientOf(r) \in Int /\ RemainderOf(r) \in Int
<1>1. PICK n \in Int, d \in Int \ {0} : n = DividendOf(r) /\ d = DivisorOf(r)
  BY DividendMeans, DivisorMeans
<1>2. Magnitude(n) \in Nat /\ Magnitude(d) \in Nat \ {0}
  BY <1>1 DEF Magnitude
<1>3. Magnitude(n) \div Magnitude(d) \in Int
  BY <1>2, DivisionIsExact
<1>4. PICK q \in Int : q = QuotientOf(r)
  BY <1>1, <1>3 DEF QuotientOf
<1>5. RemainderOf(r) = n - q * d
  BY <1>1, <1>4 DEF RemainderOf
<1>6. n - q * d \in Int
  OBVIOUS
<1> QED
  BY <1>4, <1>5, <1>6

\* A fault publishes no result and no flags.
Faulted(r, fault) == [tag |-> r.tag, results |-> <<>>, flags |-> None, fault |-> fault]

\* Two's complement results and the flags of the first of them.
Divided(r) ==
    LET w == RequestWidth(r)
        q == QuotientOf(r) % 2^w
        rem == RemainderOf(r) % 2^w
        flag_value == IF r.result_form = "REMAINDER" THEN rem ELSE q
        quotient == [role |-> "QUOTIENT", value |-> q]
        remainder == [role |-> "REMAINDER", value |-> rem]
    IN  [tag |-> r.tag,
         results |-> IF r.result_form = "REMAINDER" THEN <<remainder>>
                     ELSE IF r.result_form = "QUOTIENT" THEN <<quotient>>
                     ELSE <<quotient, remainder>>,
         flags |-> IF r.update_flags
                   THEN [negative |-> SignSet(flag_value, w),
                         zero |-> (Truncate(flag_value, w) = 0),
                         overflow |-> FALSE, carry |-> FALSE]
                   ELSE None,
         fault |-> None]

\* The executable model divides so.
LEMMA ArchitecturalDivision ==
    ASSUME NEW r \in Request
    PROVE  Architectural(r) =
              IF DivisorOf(r) = 0 THEN Faulted(r, "ZERO")
              ELSE IF /\ r.result_form # "REMAINDER"
                      /\ QuotientOf(r) \notin Representable(RequestWidth(r),
                                                            r.signed_operation)
              THEN Faulted(r, "QUOTIENT_OVERFLOW")
              ELSE Divided(r)
<1> DEFINE w == RequestWidth(r)
           signed == r.signed_operation
           double == r.double_width_dividend
           bits == IF double
                   THEN Model!Truncate(r.dividend_high, w) * 2^w
                        + Model!Truncate(r.dividend_low, w)
                   ELSE Model!Truncate(r.dividend_low, w)
<1>1. bits = RawDividend(r) /\ (IF double THEN 2 * w ELSE w) = DividendWidth(r)
  BY DEF RawDividend, DividendWidth, Model!Truncate, Truncate
<1>2. Model!AsOperand(bits, IF double THEN 2 * w ELSE w, signed) = DividendOf(r)
  BY <1>1 DEF DividendOf, AsOperand, AsSigned, SignSet, Bit, Truncate, Model!AsOperand,
       Model!AsSigned, Model!SignSet, Model!Bit, Model!Truncate
<1>3. Model!AsOperand(r.divisor, w, signed) = DivisorOf(r)
  BY DEF DivisorOf, AsOperand, AsSigned, SignSet, Bit, Truncate, Model!AsOperand,
       Model!AsSigned, Model!SignSet, Model!Bit, Model!Truncate
<1> DEFINE n == DividendOf(r)
           d == DivisorOf(r)
           q == QuotientOf(r)
           rem == RemainderOf(r)
           wants_q == r.result_form # "REMAINDER"
           wants_r == r.result_form # "QUOTIENT"
           flag_value == IF wants_q THEN q % 2^w ELSE rem % 2^w
           division == Model!Divide(r.dividend_low, r.dividend_high, r.divisor, w, signed,
                                    double, r.result_form, r.update_flags)
<1>4. division =
          IF d = 0 THEN Model!NoDivision("ZERO")
          ELSE IF wants_q /\ q \notin Model!Representable(w, signed)
          THEN Model!NoDivision("QUOTIENT_OVERFLOW")
          ELSE [quotient |-> IF wants_q THEN q % 2^w ELSE None,
                remainder |-> IF wants_r THEN rem % 2^w ELSE None,
                flags |-> IF r.update_flags
                          THEN Model!ResultFlags(flag_value, w, FALSE) ELSE None,
                fault |-> None]
  <2> HIDE DEF w, signed, double
  <2> QED
    BY <1>2, <1>3, ZenonT(30) DEF Model!Divide, QuotientOf, RemainderOf, Model!Magnitude, Magnitude
<1>5. Model!Representable(w, signed) = Representable(w, signed)
  BY DEF Representable, Model!Representable
<1>6. Model!ResultFlags(flag_value, w, FALSE) =
          [negative |-> SignSet(flag_value, w), zero |-> (Truncate(flag_value, w) = 0),
           overflow |-> FALSE, carry |-> FALSE]
  BY DEF Model!ResultFlags, Model!SignSet, Model!Bit, Model!Truncate, SignSet, Bit, Truncate
<1>7. Architectural(r) =
          [tag |-> r.tag,
           results |-> Written("QUOTIENT", division.quotient)
                       \o Written("REMAINDER", division.remainder),
           flags |-> division.flags, fault |-> division.fault]
  BY DEF Architectural
<1>8. ASSUME NEW fault
      PROVE  Model!NoDivision(fault) =
                [quotient |-> None, remainder |-> None, flags |-> None, fault |-> fault]
  BY DEF Model!NoDivision
<1>9. d # 0 => q % 2^w # None /\ rem % 2^w # None
  <2> SUFFICES ASSUME d # 0 PROVE q % 2^w # None /\ rem % 2^w # None
    OBVIOUS
  <2>1. q \in Int /\ rem \in Int
    BY QuotientIsInteger
  <2>2. 2^w \in Nat \ {0} /\ Word(w) \subseteq Word(XLEN)
    BY RequestWidthFits
  <2> HIDE DEF q, rem, w
  <2>3. q % 2^w \in Word(XLEN) /\ rem % 2^w \in Word(XLEN)
    BY <2>1, <2>2, TruncateIsWord DEF Truncate
  <2> QED
    BY <2>3, NoneAssumption
<1> HIDE DEF division, flag_value, q, rem, d
<1>10. CASE d = 0
  <2>1. division = [quotient |-> None, remainder |-> None, flags |-> None, fault |-> "ZERO"]
    BY <1>4, <1>8, <1>10
  <2>2. Architectural(r) = Faulted(r, "ZERO")
    BY <1>7, <2>1, ShortListsConcatenate DEF Written, Faulted
  <2> QED
    BY <1>10, <2>2 DEF d
<1>11. CASE d # 0 /\ wants_q /\ q \notin Representable(w, signed)
  <2>1. division = [quotient |-> None, remainder |-> None, flags |-> None,
                    fault |-> "QUOTIENT_OVERFLOW"]
    BY <1>4, <1>5, <1>8, <1>11
  <2>2. Architectural(r) = Faulted(r, "QUOTIENT_OVERFLOW")
    BY <1>7, <2>1, ShortListsConcatenate DEF Written, Faulted
  <2> QED
    BY <1>11, <2>2 DEF d, q
<1>12. CASE d # 0 /\ ~(wants_q /\ q \notin Representable(w, signed))
  <2>1. division = [quotient |-> IF wants_q THEN q % 2^w ELSE None,
                    remainder |-> IF wants_r THEN rem % 2^w ELSE None,
                    flags |-> IF r.update_flags
                              THEN [negative |-> SignSet(flag_value, w),
                                    zero |-> (Truncate(flag_value, w) = 0),
                                    overflow |-> FALSE, carry |-> FALSE]
                              ELSE None,
                    fault |-> None]
    BY <1>4, <1>5, <1>6, <1>12
  <2>2. Written("QUOTIENT", division.quotient) =
            IF wants_q THEN <<[role |-> "QUOTIENT", value |-> q % 2^w]>> ELSE <<>>
    BY <1>9, <1>12, <2>1 DEF Written
  <2>3. Written("REMAINDER", division.remainder) =
            IF wants_r THEN <<[role |-> "REMAINDER", value |-> rem % 2^w]>> ELSE <<>>
    BY <1>9, <1>12, <2>1 DEF Written
  <2>4. Architectural(r) = Divided(r)
    BY <1>7, <2>1, <2>2, <2>3, ShortListsConcatenate DEF Divided, flag_value, q, rem
  <2> QED
    BY <1>12, <2>4 DEF d, q
<1> QED
  BY <1>10, <1>11, <1>12
-----------------------------------------------------------------------------
(* What the last iteration publishes.                                      *)

\* With no bit of the dividend left, the registers hold the quotient and the remainder
\* of the magnitudes.
LEMMA LastStepDivides ==
    ASSUME TypeOK, state = "ITERATE", DivisionInvariant, iterations_remaining = 1
    PROVE  /\ NextDividendQuotient =
                 Magnitude(DividendOf(request)) \div Magnitude(DivisorOf(request))
           /\ SecondStep.remainder =
                 Magnitude(DividendOf(request)) % Magnitude(DivisorOf(request))
<1>1. request \in Request
  BY DEF DivisionInvariant, OperationUnderWay
<1> DEFINE d == Magnitude(DivisorOf(request))
           n == Magnitude(DividendOf(request))
           p == SecondStep.remainder
<1>2. DivisorMagnitude(request) = d /\ DividendMagnitude(request) = n
  BY <1>1, DivisorMeans, DividendMeans
<1> HIDE DEF d, n, p
<1>3. Reassembles(request, NextDividendQuotient, p, 0)
  <2>1. 2 * (iterations_remaining - 1) = 0
    OBVIOUS
  <2> QED
    BY <2>1, StepsReassemble DEF DivisionInvariant, p
<1>4. PICK quotient \in Word(DividendWidth(request) - 0), rest \in Word(0) :
          /\ NextDividendQuotient = rest * 2^(2 * XLEN - 0) + quotient
          /\ n = (quotient * d + p) * 2^0 + rest
  BY <1>2, <1>3 DEF Reassembles
<1>5. rest = 0
  BY DEF Word
<1>6. quotient \in Nat
  <2>1. DividendWidth(request) - 0 = DividendWidth(request)
    BY <1>1, RequestWidthFits, RequestFields DEF DividendWidth
  <2> QED
    BY <1>1, <2>1, DividendWidthFits DEF Word
<1>7. d \in Nat \ {0} /\ p \in 0 .. d - 1
  <2>1. p \in 0 .. d - 1
    BY <1>2, <1>3 DEF Reassembles
  <2>2. d \in Nat
    BY <1>1, DivisorMeans DEF d, Magnitude
  <2> QED
    BY <2>1, <2>2
<1>8. NextDividendQuotient = quotient
  <2>1. PICK x \in Nat : x = 2^(2 * XLEN - 0)
    <3>1. 2 * XLEN - 0 = 2 * XLEN
      BY WidthAssumption
    <3> QED
      BY <3>1, DividendRegisterPower
  <2>2. NextDividendQuotient = 0 * x + quotient
    BY <1>4, <1>5, <2>1
  <2> QED
    BY <1>6, <2>1, <2>2
<1>9. n = d * quotient + p
  <2>1. 2^0 = 1
    OBVIOUS
  <2>2. quotient * d + p \in Int /\ quotient * d = d * quotient
    BY <1>6, <1>7
  <2> QED
    BY <1>4, <1>5, <1>7, <2>1, <2>2
<1>10. n \div d = quotient /\ n % d = p
  BY <1>6, <1>7, <1>9, DivisionIsUnique
<1> QED
  BY <1>8, <1>10 DEF d, n, p

\* The quotient has the sign the two operands give it, and the remainder the dividend's.
LEMMA SignsAreRestored ==
    ASSUME NEW r \in Request, DivisorOf(r) # 0, NEW m, NEW p,
           m = Magnitude(DividendOf(r)) \div Magnitude(DivisorOf(r)),
           p = Magnitude(DividendOf(r)) % Magnitude(DivisorOf(r))
    PROVE  /\ m \in Nat /\ p \in Nat /\ p < Magnitude(DivisorOf(r))
           /\ QuotientOf(r) = IF (DividendOf(r) < 0) # (DivisorOf(r) < 0) THEN -m ELSE m
           /\ RemainderOf(r) = IF DividendOf(r) < 0 THEN -p ELSE p
<1>1. PICK n \in Int, d \in Int \ {0} : n = DividendOf(r) /\ d = DivisorOf(r)
  BY DividendMeans, DivisorMeans
<1>2. PICK a \in Nat, b \in Nat \ {0} : a = Magnitude(n) /\ b = Magnitude(d)
  BY <1>1 DEF Magnitude
<1>3. m \in Int /\ p \in 0 .. b - 1 /\ a = b * m + p
  <2>1. m = a \div b /\ p = a % b
    BY <1>1, <1>2
  <2>2. a \div b \in Int /\ a % b \in 0 .. b - 1 /\ a = b * (a \div b) + (a % b)
    BY DivisionIsExact
  <2> QED
    BY <2>1, <2>2, Zenon
<1>4. m \in Nat
  <2>1. ASSUME m < 0 PROVE FALSE
    <3>1. PICK c \in Nat : m = -(1 + c)
      <4>1. -m - 1 \in Nat /\ m = -(1 + (-m - 1))
        BY <1>3, <2>1
      <4> QED
        BY <4>1
    <3>2. b * m = -b - b * c /\ b * c >= 0
      BY <3>1
    <3> QED
      BY <1>2, <1>3, <3>2
  <2> QED
    BY <1>3, <2>1
<1>5. QuotientOf(r) = IF (n < 0) # (d < 0) THEN -m ELSE m
  BY <1>1 DEF QuotientOf
<1>6. RemainderOf(r) = n - QuotientOf(r) * d
  BY <1>1 DEF RemainderOf
<1>7. /\ n = IF n < 0 THEN -a ELSE a
      /\ d = IF d < 0 THEN -b ELSE b
  BY <1>2 DEF Magnitude
<1>8. PICK e \in Nat : e = b * m
  BY <1>2, <1>4
<1>9. m * b = e /\ -m * b = -e /\ m * (-b) = -e /\ (-m) * (-b) = e
  BY <1>2, <1>4, <1>8
<1>10. QuotientOf(r) * d = IF n < 0 THEN -e ELSE e
  BY <1>4, <1>5, <1>7, <1>9
<1>11. a = e + p
  BY <1>3, <1>8
<1>12. RemainderOf(r) = IF n < 0 THEN -p ELSE p
  BY <1>3, <1>6, <1>7, <1>8, <1>10, <1>11
<1>13. m \in Nat /\ p \in Nat /\ p < Magnitude(DivisorOf(r))
  BY <1>1, <1>2, <1>3, <1>4
<1> QED
  BY <1>1, <1>5, <1>12, <1>13

\* Restoring the sign of a magnitude is negation modulo the operand's power of two.
LEMMA WithSignNegates ==
    ASSUME NEW v \in Int, NEW negative \in BOOLEAN, 2^operand_width \in Nat \ {0}
    PROVE  WithSign(v, negative) = (IF negative THEN -v ELSE v) % 2^operand_width
  BY NegatedIsNegation DEF WithSign, Truncate

\* The three comparisons of the quotient magnitude find exactly the quotients a result
\* of the operand size cannot represent, the most negative one included.
LEMMA OverflowIsUnrepresentable ==
    ASSUME state = "ITERATE", OperationUnderWay, NEW m,
           m = Magnitude(DividendOf(request)) \div Magnitude(DivisorOf(request))
    PROVE  /\ QuotientOverflows(m) <=>
                 QuotientOf(request) \notin Representable(RequestWidth(request),
                                                          request.signed_operation)
           /\ ~QuotientOverflows(m) => Truncate(m, XLEN) = m
<1> DEFINE w == RequestWidth(request)
           signed == request.signed_operation
           q == QuotientOf(request)
<1>1. /\ request \in Request /\ operation.signed = signed /\ operand_width = w
      /\ quotient_negative = (DividendIsNegative(request) # DivisorIsNegative(request))
      /\ DivisorOf(request) # 0
  BY DivisorMeans DEF OperationUnderWay
<1>2. PICK half \in Nat \ {0} : 2^(w - 1) = half /\ 2^w = 2 * half
  BY <1>1, OperandPowers
<1>3. 2^XLEN \in Nat \ {0} /\ 2 * half <= 2^XLEN /\ signed \in BOOLEAN
  BY <1>1, <1>2, RequestWidthFits, SizeFits, WidthAssumption, RequestFields
<1>4. /\ quotient_negative \in BOOLEAN
      /\ quotient_negative <=> (DividendOf(request) < 0) # (DivisorOf(request) < 0)
      /\ ~signed => ~quotient_negative
  <2>1. /\ DividendIsNegative(request) \in BOOLEAN /\ DivisorIsNegative(request) \in BOOLEAN
        /\ ~signed => DividendIsNegative(request) = FALSE /\ DivisorIsNegative(request) = FALSE
    BY <1>3 DEF DividendIsNegative, DivisorIsNegative
  <2>2. /\ DividendIsNegative(request) <=> DividendOf(request) < 0
        /\ DivisorIsNegative(request) <=> DivisorOf(request) < 0
    BY <1>1, DividendMeans, DivisorMeans
  <2>3. PICK n \in BOOLEAN, d \in BOOLEAN :
            n = DividendIsNegative(request) /\ d = DivisorIsNegative(request)
    BY <2>1
  <2>4. (DividendOf(request) < 0) = n /\ (DivisorOf(request) < 0) = d
    BY <2>2, <2>3
  <2>5. quotient_negative = (n # d) /\ (~signed => n = FALSE /\ d = FALSE)
    BY <1>1, <2>1, <2>3, Zenon
  <2>6. quotient_negative = ((DividendOf(request) < 0) # (DivisorOf(request) < 0))
    BY <2>4, <2>5, Zenon
  <2> HIDE DEF signed
  <2> QED
    BY <2>5, <2>6, Zenon
<1>5. m \in Nat /\ q = IF quotient_negative THEN -m ELSE m
  BY <1>1, <1>4, SignsAreRestored
<1>6. m < 2 * half => Truncate(m, XLEN) = m
  BY <1>3, <1>5, TruncateOfWord DEF Word
<1>7. m < 2 * half => (SignSet(m, w) <=> m >= half)
  <2>1. m < 2 * half => Truncate(m, w) = m
    BY <1>2, <1>5, TruncateOfWord DEF Word
  <2> QED
    BY <1>2, <1>5, <2>1, SignIsUpperHalf
<1> HIDE DEF q, w, signed
<1>8. QuotientOverflows(m) <=>
          \/ m >= 2 * half
          \/ signed /\ (IF quotient_negative THEN m > half ELSE m >= half)
  BY <1>1, <1>2, <1>3, <1>4, <1>5, <1>6, <1>7 DEF QuotientOverflows
<1>9. Representable(w, signed) = IF signed THEN -half .. half - 1 ELSE 0 .. 2 * half - 1
  BY <1>2 DEF Representable
<1>10. QuotientOverflows(m) <=> q \notin Representable(w, signed)
  BY <1>3, <1>4, <1>5, <1>8, <1>9
<1>11. ~QuotientOverflows(m) => m < 2 * half
  BY <1>5, <1>8
<1> QED
  BY <1>6, <1>10, <1>11 DEF q, w, signed

\* What the last iteration publishes is what the executable model prescribes.
LEMMA LastStepIsArchitectural ==
    ASSUME TypeOK, DivisionInvariant, state = "ITERATE", iterations_remaining = 1
    PROVE  LET published == FinishedResponse(NextDividendQuotient, SecondStep.remainder)
           IN  Visible(published) = Architectural(request) /\ Packed(published)
<1> DEFINE m == NextDividendQuotient
           p == SecondStep.remainder
           w == RequestWidth(request)
           form == request.result_form
           published == FinishedResponse(m, p)
           q == QuotientOf(request) % 2^w
           r == RemainderOf(request) % 2^w
           flag_value == IF form = "REMAINDER" THEN r ELSE q
<1>1. /\ request \in Request /\ DivisorOf(request) # 0
      /\ operation = [tag |-> request.tag, result_form |-> form,
                      signed |-> request.signed_operation,
                      update_flags |-> request.update_flags]
      /\ operand_width = w
      /\ quotient_negative = (DividendIsNegative(request) # DivisorIsNegative(request))
      /\ remainder_negative = DividendIsNegative(request)
      /\ response = EmptyResponse(request.tag, "QUOTIENT", "REMAINDER")
  BY DivisorMeans DEF DivisionInvariant, OperationUnderWay
<1>2. /\ m = Magnitude(DividendOf(request)) \div Magnitude(DivisorOf(request))
      /\ p = Magnitude(DividendOf(request)) % Magnitude(DivisorOf(request))
  BY LastStepDivides
<1>3. /\ m \in Nat /\ p \in Nat
      /\ QuotientOf(request) =
            IF (DividendOf(request) < 0) # (DivisorOf(request) < 0) THEN -m ELSE m
      /\ RemainderOf(request) = IF DividendOf(request) < 0 THEN -p ELSE p
  BY <1>1, <1>2, SignsAreRestored
<1>4. /\ QuotientOverflows(m) <=>
            QuotientOf(request) \notin Representable(w, request.signed_operation)
      /\ ~QuotientOverflows(m) => Truncate(m, XLEN) = m
  BY <1>2, OverflowIsUnrepresentable DEF DivisionInvariant
<1>5. form \in Form
  BY <1>1, RequestFields
<1> HIDE DEF m, p
<1>6. /\ quotient_negative \in BOOLEAN /\ remainder_negative \in BOOLEAN
      /\ quotient_negative = ((DividendOf(request) < 0) # (DivisorOf(request) < 0))
      /\ remainder_negative = (DividendOf(request) < 0)
  <2>1. DividendIsNegative(request) \in BOOLEAN /\ DivisorIsNegative(request) \in BOOLEAN
    BY <1>1, RequestFields DEF DividendIsNegative, DivisorIsNegative
  <2>2. /\ DividendIsNegative(request) = (DividendOf(request) < 0)
        /\ DivisorIsNegative(request) = (DivisorOf(request) < 0)
    BY <1>1, <2>1, DividendMeans, DivisorMeans
  <2> QED
    BY <1>1, <2>1, <2>2, Zenon
<1>7. 2^operand_width \in Nat \ {0}
  BY <1>1, RequestWidthFits
<1>8. WithSign(p, remainder_negative) = r
  <2>1. WithSign(p, remainder_negative) =
            (IF remainder_negative THEN -p ELSE p) % 2^operand_width
    <3>1. p \in Int /\ remainder_negative \in BOOLEAN
      BY <1>3, <1>6
    <3> QED
      BY <1>7, <3>1, WithSignNegates, Zenon
  <2>2. RemainderOf(request) = IF remainder_negative THEN -p ELSE p
    BY <1>3, <1>6
  <2> QED
    BY <1>1, <2>1, <2>2, Zenon
<1>9. ~QuotientOverflows(m) => WithSign(Truncate(m, XLEN), quotient_negative) = q
  <2>1. WithSign(m, quotient_negative) = (IF quotient_negative THEN -m ELSE m) % 2^operand_width
    <3>1. m \in Int /\ quotient_negative \in BOOLEAN
      BY <1>3, <1>6
    <3> QED
      BY <1>7, <3>1, WithSignNegates, Zenon
  <2>2. QuotientOf(request) = IF quotient_negative THEN -m ELSE m
    BY <1>3, <1>6
  <2> QED
    BY <1>1, <1>4, <2>1, <2>2, Zenon
<1>10. response = [tag |-> request.tag, result_count |-> 0,
                   results |-> <<Result(FALSE, "QUOTIENT", 0), Result(FALSE, "REMAINDER", 0)>>,
                   flags_valid |-> FALSE, negative |-> FALSE, zero |-> FALSE,
                   overflow |-> FALSE, carry |-> FALSE, fault_valid |-> FALSE, fault |-> "NONE"]
  BY <1>1 DEF EmptyResponse
<1> HIDE DEF q, r
<1>11. CASE form # "REMAINDER" /\ QuotientOverflows(m)
  <2>1. published =
          [tag |-> request.tag, result_count |-> 0,
           results |-> [i \in 1 .. 2 |-> Result(FALSE, response.results[i].role, 0)],
           flags_valid |-> FALSE, negative |-> FALSE, zero |-> FALSE,
           overflow |-> FALSE, carry |-> FALSE,
           fault_valid |-> TRUE, fault |-> "QUOTIENT_OVERFLOW"]
    <3>1. operation.result_form = form
      BY <1>1
    <3>2. published =
            [response EXCEPT
                !.result_count = 0,
                !.results = [i \in 1 .. 2 |-> Result(FALSE, response.results[i].role, 0)],
                !.flags_valid = FALSE, !.negative = FALSE, !.zero = FALSE,
                !.overflow = FALSE, !.carry = FALSE,
                !.fault_valid = TRUE, !.fault = "QUOTIENT_OVERFLOW"]
      BY <1>11, <3>1, Zenon DEF FinishedResponse
    <3> HIDE DEF published
    <3>3. PICK results : results = [i \in 1 .. 2 |-> Result(FALSE, response.results[i].role, 0)]
      OBVIOUS
    <3> QED
      BY <1>10, <3>2, <3>3
  <2>2. Architectural(request) = Faulted(request, "QUOTIENT_OVERFLOW")
    BY <1>1, <1>4, <1>11, ArchitecturalDivision
  <2> HIDE DEF published
  <2>3. VisibleResults(published) = <<>>
    BY <2>1, NothingIsVisible
  <2>4. Visible(published) = Faulted(request, "QUOTIENT_OVERFLOW")
    BY <2>1, <2>3 DEF Visible, VisibleFlags, Faulted
  <2>5. Packed(published)
    BY <2>1 DEF Packed, Result
  <2> QED
    BY <2>2, <2>4, <2>5 DEF published, m, p
<1>12. CASE ~(form # "REMAINDER" /\ QuotientOverflows(m))
  <2> DEFINE first == IF form = "REMAINDER" THEN Result(TRUE, "REMAINDER", r)
                      ELSE Result(TRUE, "QUOTIENT", q)
             second == IF form = "REMAINDER" THEN Result(FALSE, "QUOTIENT", 0)
                       ELSE Result(form = "QUOTIENT_REMAINDER", "REMAINDER",
                                   IF form = "QUOTIENT_REMAINDER" THEN r ELSE 0)
             negative == SignSet(flag_value, w)
             zero == Truncate(flag_value, w) = 0
  <2>1. published =
          [tag |-> request.tag,
           result_count |-> IF form = "QUOTIENT_REMAINDER" THEN 2 ELSE 1,
           results |-> <<first, second>>,
           flags_valid |-> request.update_flags, negative |-> negative, zero |-> zero,
           overflow |-> FALSE, carry |-> FALSE, fault_valid |-> FALSE, fault |-> "NONE"]
    <3>1. /\ operation.result_form = form
          /\ operation.update_flags = request.update_flags
      BY <1>1
    <3> DEFINE quotient == WithSign(Truncate(m, XLEN), quotient_negative)
               remainder == WithSign(p, remainder_negative)
               flagged == IF form = "REMAINDER" THEN remainder ELSE quotient
               count == IF form = "QUOTIENT_REMAINDER" THEN 2 ELSE 1
               results ==
                   IF form = "REMAINDER"
                   THEN <<Result(TRUE, "REMAINDER", remainder), Result(FALSE, "QUOTIENT", 0)>>
                   ELSE <<Result(TRUE, "QUOTIENT", quotient),
                          Result(form = "QUOTIENT_REMAINDER", "REMAINDER",
                                 IF form = "QUOTIENT_REMAINDER" THEN remainder ELSE 0)>>
               sign == SignSet(flagged, operand_width)
               nothing == Truncate(flagged, operand_width) = 0
    <3>2. published =
            [response EXCEPT
                !.result_count = count, !.results = results,
                !.flags_valid = request.update_flags, !.negative = sign, !.zero = nothing,
                !.overflow = FALSE, !.carry = FALSE,
                !.fault_valid = FALSE, !.fault = "NONE"]
      BY <1>12, <3>1, ZenonT(30) DEF FinishedResponse
    <3>3. remainder = r /\ (form # "REMAINDER" => quotient = q)
      BY <1>8, <1>9, <1>12
    <3>4. flagged = flag_value
      BY <3>3
    <3>5. sign = negative /\ nothing = zero
      BY <1>1, <3>4, Zenon
    <3>6. results = <<first, second>>
      BY <3>3
    <3> HIDE DEF published, sign, nothing, negative, zero, results, count, first, second
    <3>7. published =
            [tag |-> request.tag, result_count |-> count, results |-> results,
             flags_valid |-> request.update_flags, negative |-> sign, zero |-> nothing,
             overflow |-> FALSE, carry |-> FALSE, fault_valid |-> FALSE, fault |-> "NONE"]
      BY <1>10, <3>2
    <3> QED
      BY <3>5, <3>6, <3>7, Zenon DEF count
  <2>2. Architectural(request) = Divided(request)
    BY <1>1, <1>4, <1>12, ArchitecturalDivision
  <2> HIDE DEF published, negative, zero
  <2>3. VisibleResults(published) =
            IF form = "REMAINDER" THEN <<[role |-> "REMAINDER", value |-> r]>>
            ELSE IF form = "QUOTIENT" THEN <<[role |-> "QUOTIENT", value |-> q]>>
            ELSE <<[role |-> "QUOTIENT", value |-> q], [role |-> "REMAINDER", value |-> r]>>
    BY <1>5, <2>1, OneIsVisible, TwoAreVisible DEF Form, Result
  <2>4. VisibleFlags(published) =
            IF request.update_flags
            THEN [negative |-> negative, zero |-> zero, overflow |-> FALSE, carry |-> FALSE]
            ELSE None
    BY <2>1 DEF VisibleFlags
  <2>5. Visible(published) = Divided(request)
    BY <2>1, <2>3, <2>4, ZenonT(30) DEF Visible, Divided, q, r, negative, zero
  <2>6. Packed(published)
    <3>1. published.results[1].valid = TRUE
          /\ published.results[2].valid = (form = "QUOTIENT_REMAINDER")
      BY <1>5, <2>1 DEF Result
    <3>2. published.result_count = IF form = "QUOTIENT_REMAINDER" THEN 2 ELSE 1
      BY <2>1
    <3>3. \A i \in 1 .. 2 : i = 1 \/ i = 2
      OBVIOUS
    <3>4. /\ published.results[1].valid <=> 1 <= published.result_count
          /\ published.results[2].valid <=> 2 <= published.result_count
      <4>1. CASE form = "QUOTIENT_REMAINDER"
        <5>1. published.results[2].valid = TRUE /\ published.result_count = 2
          BY <3>1, <3>2, <4>1, Zenon
        <5> QED
          BY <3>1, <5>1
      <4>2. CASE form # "QUOTIENT_REMAINDER"
        <5>1. published.results[2].valid = FALSE /\ published.result_count = 1
          BY <3>1, <3>2, <4>2, Zenon
        <5> QED
          BY <3>1, <5>1
      <4> QED
        BY <4>1, <4>2
    <3> QED
      BY <3>3, <3>4, Zenon DEF Packed
  <2> QED
    BY <2>2, <2>5, <2>6 DEF published, m, p
<1> QED
  BY <1>11, <1>12

\* A zero divisor faults at once, as the executable model prescribes.
LEMMA ZeroFaultIsArchitectural ==
    ASSUME NEW r \in Request, TruncatedDivisor(r) = 0
    PROVE  LET published == [EmptyResponse(r.tag, "QUOTIENT", "REMAINDER")
                                EXCEPT !.fault_valid = TRUE, !.fault = "ZERO"]
           IN  Visible(published) = Architectural(r) /\ Packed(published)
<1> DEFINE published == [EmptyResponse(r.tag, "QUOTIENT", "REMAINDER")
                            EXCEPT !.fault_valid = TRUE, !.fault = "ZERO"]
<1>1. published =
        [tag |-> r.tag, result_count |-> 0,
         results |-> <<Result(FALSE, "QUOTIENT", 0), Result(FALSE, "REMAINDER", 0)>>,
         flags_valid |-> FALSE, negative |-> FALSE, zero |-> FALSE,
         overflow |-> FALSE, carry |-> FALSE, fault_valid |-> TRUE, fault |-> "ZERO"]
  <2> DEFINE empty == EmptyResponse(r.tag, "QUOTIENT", "REMAINDER")
  <2>1. PICK results :
            results = <<Result(FALSE, "QUOTIENT", 0), Result(FALSE, "REMAINDER", 0)>>
    OBVIOUS
  <2>2. empty =
          [tag |-> r.tag, result_count |-> 0, results |-> results,
           flags_valid |-> FALSE, negative |-> FALSE, zero |-> FALSE,
           overflow |-> FALSE, carry |-> FALSE, fault_valid |-> FALSE, fault |-> "NONE"]
    BY <2>1, Zenon DEF EmptyResponse
  <2>3. published = [empty EXCEPT !.fault_valid = TRUE, !.fault = "ZERO"]
    OBVIOUS
  <2> HIDE DEF empty, published
  <2> QED
    BY <2>1, <2>2, <2>3
<1>2. Architectural(r) = Faulted(r, "ZERO")
  BY DivisorMeans, ArchitecturalDivision
<1> HIDE DEF published
<1>3. VisibleResults(published) = <<>>
  BY <1>1, NothingIsVisible
<1>4. Visible(published) = Faulted(r, "ZERO")
  BY <1>1, <1>3 DEF Visible, VisibleFlags, Faulted
<1>5. Packed(published)
  BY <1>1 DEF Packed, Result
<1> QED
  BY <1>2, <1>4, <1>5 DEF published

-----------------------------------------------------------------------------
(* Every published response is architectural.                              *)

DividerInvariant == TypeOK /\ DivisionInvariant /\ ResponseIsArchitectural

\* A response that stays published stays what it was.
LEMMA StepKeepsArchitecture == DividerInvariant /\ [Next]_vars => ResponseIsArchitectural'
<1> SUFFICES ASSUME DividerInvariant, [Next]_vars PROVE ResponseIsArchitectural'
  OBVIOUS
<1>1. ASSUME state' # "RESPONSE" PROVE ResponseIsArchitectural'
  BY <1>1 DEF ResponseIsArchitectural, response_valid
<1>2. ASSUME state' = state \/ state' = "IDLE", UNCHANGED <<response, request>>
      PROVE  ResponseIsArchitectural'
  <2>1. CASE state' = "RESPONSE"
    <3>1. response_valid /\ response' = response /\ request' = request
      BY <1>2, <2>1 DEF response_valid
    <3>2. Visible(response) = Architectural(request) /\ Packed(response)
      BY <3>1 DEF DividerInvariant, ResponseIsArchitectural
    <3>3. Visible(response') = Architectural(request') /\ Packed(response')
      BY <3>1, <3>2
    <3> QED
      BY <3>3 DEF ResponseIsArchitectural
  <2> QED
    BY <1>1, <2>1
<1>3. CASE Reset
  BY <1>1, <1>3 DEF Reset, Cleared
<1>4. CASE UNCHANGED vars
  BY <1>2, <1>4 DEF vars
<1>5. ASSUME NEW sq \in Tag \cup {None}, NEW rdy \in BOOLEAN, Clock(sq, rdy)
      PROVE  ResponseIsArchitectural'
  <2>1. ASSUME NEW r \in Request, Accept(r, sq, rdy) PROVE ResponseIsArchitectural'
    <3>1. CASE TruncatedDivisor(r) # 0
      BY <1>1, <2>1, <3>1 DEF Accept
    <3>2. CASE TruncatedDivisor(r) = 0
      <4>1. /\ request' = r
            /\ response' = [EmptyResponse(r.tag, "QUOTIENT", "REMAINDER")
                               EXCEPT !.fault_valid = TRUE, !.fault = "ZERO"]
        BY <2>1, <3>2 DEF Accept
      <4>2. Visible(response') = Architectural(request') /\ Packed(response')
        BY <3>2, <4>1, ZeroFaultIsArchitectural
      <4> QED
        BY <4>2 DEF ResponseIsArchitectural
    <3> QED
      BY <3>1, <3>2
  <2>2. ASSUME NEW req \in Request \cup {None}, AcceptNothing(req, sq, rdy)
        PROVE  ResponseIsArchitectural'
    BY <1>2, <2>2 DEF AcceptNothing
  <2>3. CASE Cancel(sq, rdy)
    BY <1>1, <2>3 DEF Cancel
  <2>4. CASE Iterate(sq, rdy)
    BY <1>2, <2>4 DEF Iterate
  <2>5. CASE Finish(sq, rdy)
    <3>1. /\ state = "ITERATE" /\ iterations_remaining = 1 /\ request' = request
          /\ response' = FinishedResponse(NextDividendQuotient, SecondStep.remainder)
      BY <2>5 DEF Finish
    <3>2. Visible(response') = Architectural(request') /\ Packed(response')
      BY <3>1, LastStepIsArchitectural DEF DividerInvariant
    <3> QED
      BY <3>2 DEF ResponseIsArchitectural
  <2>6. CASE Respond(sq, rdy)
    BY <1>2, <2>6 DEF Respond
  <2> QED
    BY <1>5, <2>1, <2>2, <2>3, <2>4, <2>5, <2>6 DEF Clock
<1> QED
  BY <1>3, <1>4, <1>5 DEF Next

\* The divider powers up with no response.
LEMMA InitIsArchitectural == Init => ResponseIsArchitectural
  BY DEF Init, Cleared, ResponseIsArchitectural, response_valid

\* The whole invariant is inductive.
LEMMA DividerInvariantHolds == Spec => []DividerInvariant
<1>1. Init => DividerInvariant
  BY InitIsTyped, InitIsDivision, InitIsArchitectural DEF DividerInvariant
<1>2. DividerInvariant /\ [Next]_vars => DividerInvariant'
  BY StepKeepsTypes, StepKeepsDivision, StepKeepsArchitecture DEF DividerInvariant
<1> QED
  BY <1>1, <1>2, PTL DEF Spec

\* Every response the divider publishes, fault or results, flags and counts, is the one
\* the executable model prescribes for its request: integer division that truncates
\* toward zero, for every register width, operand size, form, sign and operand.
THEOREM EveryResponseIsArchitectural == Spec => []ResponseIsArchitectural
<1>1. DividerInvariant => ResponseIsArchitectural
  BY DEF DividerInvariant
<1> QED
  BY <1>1, DividerInvariantHolds, PTL

-----------------------------------------------------------------------------
(* The divider implements the tagged execution unit.                       *)

Inflight == IF state = "ITERATE" THEN <<request>> ELSE <<>>
Published == IF response_valid THEN Visible(response) ELSE None

\* A step that samples an edge and leaves what the unit's squash leaves of the operations
\* it owns is a step of the unit.
LEMMA ClockImplements ==
    ASSUME NEW req \in Request \cup {None}, NEW sq \in Tag \cup {None}, NEW rdy \in BOOLEAN,
           edge' = ClockEdge(req, sq, rdy),
           NEW queue,
           queue = Surviving(Inflight \o (IF req = None THEN <<>> ELSE <<req>>), sq),
           \/ /\ Inflight' = queue
              /\ Published' = IF rdy THEN None ELSE Published
           \/ /\ Published = None \/ rdy
              /\ queue # <<>>
              /\ Inflight' = Tail(queue)
              /\ Published' = Architectural(Head(queue))
    PROVE  Unit!Clock
<1>1. /\ edge' \in Unit!Sample /\ ~edge'.reset
      /\ edge'.request = req /\ edge'.squash = sq /\ edge'.response_ready = rdy
  BY EdgeIsTyped DEF Unit!Sample, EdgeRecord, ClockEdge
<1>2. Unit!Surviving(Inflight \o Unit!Offered(edge'), edge'.squash) = queue
  <2>1. Unit!Offered(edge') = IF req = None THEN <<>> ELSE <<req>>
    BY <1>1 DEF Unit!Offered
  <2>2. \A held, squash : Unit!Surviving(held, squash) = Surviving(held, squash)
    BY DEF Unit!Surviving, Surviving
  <2>3. Unit!Surviving(Inflight \o Unit!Offered(edge'), edge'.squash) =
            Surviving(Inflight \o (IF req = None THEN <<>> ELSE <<req>>), sq)
    BY <1>1, <2>1, <2>2, Zenon
  <2> QED
    BY <2>3
<1>3. Unit!Keep(queue) \/ Unit!Publish(queue)
  BY <1>1 DEF Unit!Keep, Unit!Publish, Inflight, Published
<1>4. Len(Inflight') <= 1
  BY DEF Inflight
<1> QED
  BY <1>1, <1>2, <1>3, <1>4 DEF Unit!Clock, Inflight

\* What survives of the one operation under way and of the one offered.
LEMMA DividerSurvivors ==
    ASSUME NEW op, NEW squash
    PROVE  /\ Surviving(<<>> \o <<>>, squash) = <<>>
           /\ Surviving(<<>> \o <<op>>, squash) = IF op.tag = squash THEN <<>> ELSE <<op>>
           /\ Surviving(<<op>> \o <<>>, squash) = IF op.tag = squash THEN <<>> ELSE <<op>>
  BY ShortListsConcatenate, EmptySurvives, OneSurvives, Zenon

\* Reset and power up are the unit's.
LEMMA ResetImplements == (Init => Unit!Init) /\ (Reset => Unit!Reset)
  BY DEF Init, Unit!Init, Reset, Unit!Reset, Cleared, response_valid, ResetEdge,
     Unit!ResetEdge

\* Every step of the divider is a step of the unit.
LEMMA StepImplements ==
    DividerInvariant /\ DividerInvariant' /\ [Next]_vars => [Unit!Next]_Unit!vars
<1> SUFFICES ASSUME DividerInvariant, DividerInvariant', [Next]_vars
             PROVE  [Unit!Next]_Unit!vars
  OBVIOUS
<1>1. CASE Reset
  BY <1>1, ResetImplements DEF Unit!Next
<1>2. CASE UNCHANGED vars
  BY <1>2 DEF vars, Unit!vars, response_valid, Visible, VisibleResults, VisibleFlags
<1>3. response_valid' => Published' = Architectural(request')
  BY DEF DividerInvariant, ResponseIsArchitectural, Published
<1>4. ASSUME state = "ITERATE"
      PROVE  /\ request \in Request /\ operation.tag = request.tag
             /\ Inflight = <<request>> /\ Published = None
  BY <1>4 DEF DividerInvariant, DivisionInvariant, OperationUnderWay, Inflight, Published,
       response_valid
<1>5. ASSUME NEW sq \in Tag \cup {None}, NEW rdy \in BOOLEAN, Clock(sq, rdy)
      PROVE  Unit!Clock
  <2> DEFINE Left(req) == Surviving(Inflight \o (IF req = None THEN <<>> ELSE <<req>>), sq)
  <2>0. None \in Request \cup {None}
    OBVIOUS
  <2>1. ASSUME request_ready, NEW r \in Request, Accept(r, sq, rdy) PROVE Unit!Clock
    <3>1. /\ Inflight = <<>> /\ Published = None /\ r # None /\ r.tag # sq
          /\ edge' = ClockEdge(r, sq, rdy) /\ request' = r
      BY <2>1, RequestAssumption
      DEF Accept, request_ready, Inflight, Published, response_valid
    <3>2. Left(r) = <<r>>
      BY <3>1, DividerSurvivors
    <3>3. CASE state' = "ITERATE"
      <4>1. Inflight' = <<r>> /\ Published' = None
        BY <3>1, <3>3 DEF Inflight, Published, response_valid
      <4> QED
        BY <3>1, <3>2, <4>1, ClockImplements
    <3>4. CASE state' = "RESPONSE"
      <4>1. Inflight' = <<>> /\ Published' = Architectural(r)
        BY <1>3, <3>1, <3>4 DEF Inflight, response_valid
      <4>2. Head(<<r>>) = r /\ Tail(<<r>>) = <<>> /\ <<r>> # <<>>
        OBVIOUS
      <4> QED
        BY <3>1, <3>2, <4>1, <4>2, ClockImplements
    <3> QED
      BY <2>1, <3>3, <3>4 DEF Accept
  <2>2. ASSUME request_ready, NEW req \in Request \cup {None}, AcceptNothing(req, sq, rdy)
        PROVE  Unit!Clock
    <3>1. /\ Inflight = <<>> /\ Published = None /\ Inflight' = <<>> /\ Published' = None
          /\ edge' = ClockEdge(req, sq, rdy) /\ (req # None => req.tag = sq)
      BY <2>2 DEF AcceptNothing, request_ready, Inflight, Published, response_valid
    <3>2. Left(req) = <<>>
      BY <3>1, DividerSurvivors
    <3> QED
      BY <3>1, <3>2, ClockImplements
  <2>3. CASE Cancel(sq, rdy)
    <3>1. /\ state = "ITERATE" /\ sq = operation.tag /\ edge' = ClockEdge(None, sq, rdy)
          /\ Inflight' = <<>> /\ Published' = None
      BY <2>3 DEF Cancel, Inflight, Published, response_valid
    <3>2. Left(None) = <<>>
      BY <1>4, <3>1, DividerSurvivors
    <3> QED
      BY <1>4, <2>0, <3>1, <3>2, ClockImplements
  <2>4. CASE Iterate(sq, rdy)
    <3>1. /\ state = "ITERATE" /\ sq # operation.tag /\ edge' = ClockEdge(None, sq, rdy)
          /\ Inflight' = <<request>> /\ Published' = None
      BY <2>4 DEF Iterate, Inflight, Published, response_valid
    <3>2. Left(None) = <<request>>
      BY <1>4, <3>1, DividerSurvivors
    <3> QED
      BY <1>4, <2>0, <3>1, <3>2, ClockImplements
  <2>5. CASE Finish(sq, rdy)
    <3>1. /\ state = "ITERATE" /\ sq # operation.tag /\ edge' = ClockEdge(None, sq, rdy)
          /\ Inflight' = <<>> /\ request' = request /\ response_valid'
      BY <2>5 DEF Finish, Inflight, response_valid
    <3>2. Left(None) = <<request>>
      BY <1>4, <3>1, DividerSurvivors
    <3>3. Head(<<request>>) = request /\ Tail(<<request>>) = <<>> /\ <<request>> # <<>>
      OBVIOUS
    <3>4. Published' = Architectural(request)
      BY <1>3, <3>1
    <3> QED
      BY <1>4, <2>0, <3>1, <3>2, <3>3, <3>4, ClockImplements
  <2>6. CASE Respond(sq, rdy)
    <3>1. /\ edge' = ClockEdge(None, sq, rdy)
          /\ Inflight = <<>> /\ Inflight' = <<>>
          /\ Published' = IF rdy THEN None ELSE Published
      BY <2>6 DEF Respond, Inflight, Published, response_valid
    <3>2. Left(None) = <<>>
      BY <3>1, DividerSurvivors
    <3> QED
      BY <2>0, <3>1, <3>2, ClockImplements
  <2> QED
    BY <1>5, <2>1, <2>2, <2>3, <2>4, <2>5, <2>6 DEF Clock
<1> QED
  BY <1>1, <1>2, <1>5 DEF Next, Unit!Next

\* The divider is a tagged execution unit of capacity one with the executable model as its
\* outcome: it answers each request it accepted at most once, drops exactly the
\* unpublished operation whose tag is squashed, and never takes back a response.
THEOREM DividerImplementsUnit == Spec => ImplementsUnit
<1>1. Init => Unit!Init
  BY ResetImplements
<1> QED
  BY <1>1, DividerInvariantHolds, StepImplements, PTL DEF Spec, ImplementsUnit, Unit!Spec
=============================================================================
