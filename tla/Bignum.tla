------------------------------- MODULE Bignum --------------------------------
(***************************************************************************)
(* The numbers of lib/bignum.c, and a calculator that feeds results back   *)
(* into the operations, as the evaluator does.  A number is the bytes of   *)
(* its storage, lowest digit first, of which "length" are its digits; the  *)
(* last "decimal_pos" of them stand after the point.  bignum_trim shortens *)
(* a number and leaves the bytes above "length" as they were; bytes never  *)
(* written are 0.  Storage always fits: only its limits are modelled.      *)
(*                                                                         *)
(* A call that fails returns no number, {}, and otherwise the set of the   *)
(* one it returns.  A text is a sign and the digits before and after the   *)
(* point, highest first.                                                   *)
(*                                                                         *)
(* A definition whose name says what it does wrong is a faulty variant of  *)
(* the one after it, which the specification does not use.                 *)
(***************************************************************************)
EXTENDS Integers, SequencesExt

CONSTANTS
  Base,                       (* 10                                        *)
  BIGNUM_DEFAULT_PRECISION,   (* 100: the places kept after the point      *)
  BIGNUM_MAX_DIGITS,          (* 10000                                     *)
  GUARD_DIGITS,               (* 10: the places a division adds            *)
  MAX_EXPONENT,               (* 100000                                    *)
  Literals,                   (* the texts the calculator reads            *)
  MaxShown                    (* bound: no step from more digits or places *)

ASSUME BignumAssumption ==
  /\ Base \in Nat \ {0, 1} /\ BIGNUM_DEFAULT_PRECISION \in Nat
  /\ BIGNUM_MAX_DIGITS \in Nat \ {0} /\ GUARD_DIGITS \in Nat
  /\ MAX_EXPONENT \in Nat /\ MaxShown \in Nat
  /\ \A t \in Literals : /\ t.neg \in BOOLEAN
                         /\ t.whole \in Seq(0 .. Base - 1) /\ t.places \in Seq(0 .. Base - 1)

Greater(m, n) == IF m > n THEN m ELSE n
Lesser(m, n) == IF m < n THEN m ELSE n
Number(neg, digits, length, decimal_pos) ==
  [neg |-> neg, digits |-> digits, length |-> length, decimal_pos |-> decimal_pos]

(* A byte of the storage, and a digit of the number (0 beyond its ends). *)
Stored(x, i) == IF i \in 0 .. Len(x.digits) - 1 THEN x.digits[i + 1] ELSE 0
Digit(x, i) == IF i < x.length THEN Stored(x, i) ELSE 0
IntLength(x) == x.length - x.decimal_pos

Power(m, n) ==
  LET upto[i \in 0 .. n] == IF i = 0 THEN 1 ELSE m * upto[i - 1]
  IN upto[n]

(* The digits read as one whole number, the point left out. *)
Read(digit, n) ==
  LET upto[i \in 0 .. n] ==
        IF i = 0 THEN 0 ELSE upto[i - 1] + digit[i - 1] * Power(Base, i - 1)
  IN upto[n]
Whole(x) == Read([i \in 0 .. x.length - 1 |-> Digit(x, i)], x.length)
DigitsOf(n, len) == [i \in 1 .. len |-> (n \div Power(Base, i - 1)) % Base]
CountOf(n) == CHOOSE len \in 1 .. n + 1 : n < Power(Base, len) /\ (len = 1 \/ n >= Power(Base, len - 1))

(* The n lowest digits removed, by a move of the others. *)
Lowered(x, n) ==
  [x EXCEPT !.digits = [i \in DOMAIN @ |-> IF i <= x.length - n THEN @[i + n] ELSE @[i]],
            !.length = @ - n]

(* Zero bytes above the digits need not be told from bytes never written. *)
WithoutTail(x) ==
  [x EXCEPT !.digits = SubSeq(@, 1, Max({x.length} \cup {i \in DOMAIN @ : @[i] # 0}))]

(* Zeros go at both ends, but the first digit stays while zeros go on top:  *)
(* a zero with places after the point loses all its digits, and its sign    *)
(* and its point stay.                                                      *)
TopTrimmed(x) ==
  [x EXCEPT !.length = IF @ <= 1 THEN @
     ELSE Max({1} \cup {i \in 1 .. @ : x.digits[i] # 0})]
LastZeros(x) ==
  Max({n \in 0 .. Greater(0, Lesser(x.decimal_pos, x.length)) :
         \A i \in 0 .. n - 1 : Stored(x, i) = 0})
bignum_trim(num) ==
  LET x == TopTrimmed(num)
      y == WithoutTail([Lowered(x, LastZeros(x)) EXCEPT !.decimal_pos = @ - LastZeros(x)])
  IN IF y.length = 1 /\ y.digits[1] = 0
     THEN [y EXCEPT !.neg = FALSE, !.decimal_pos = 0] ELSE y

(* Temporary numbers may have twice the digits of a result. *)
bignum_ensure_capacity(required) == required <= 2 * BIGNUM_MAX_DIGITS

(* A copy has only the digits; it fails over the limit. *)
bignum_copy(x) ==
  IF x.length > BIGNUM_MAX_DIGITS THEN {}
  ELSE {[x EXCEPT !.digits = [i \in 1 .. x.length |-> Digit(x, i - 1)]]}

Text(neg, whole, places) == [neg |-> neg, whole |-> whole, places |-> places]

bignum_from_string(text) ==
  LET all == Reverse(text.whole \o text.places)
  IN IF Len(all) = 0 \/ Len(all) > BIGNUM_MAX_DIGITS THEN {}
     ELSE {bignum_trim(Number(text.neg, all, Len(all), Len(text.places)))}

(* The places are read from the storage, also where the number has no more *)
(* digits.                                                                 *)
NoZerosAtTheEnd(s) ==
  SubSeq(s, 1, Max({0} \cup {i \in DOMAIN s : s[i] # 0}))
bignum_to_string_drops_inner_zeros(num, precision) ==
  LET whole == SelectSeq([i \in 1 .. Greater(0, IntLength(num)) |-> Stored(num, num.length - i)],
                         LAMBDA d : d # 0)
      places == [i \in 1 .. Lesser(precision, num.decimal_pos)
                   |-> Stored(num, num.decimal_pos - i)]
  IN Text(num.neg, IF whole = <<>> THEN <<0>> ELSE whole, NoZerosAtTheEnd(places))
bignum_to_string(num, precision) ==
  LET whole == [i \in 1 .. Greater(0, IntLength(num)) |-> Stored(num, num.length - i)]
      first == Min({Len(whole)} \cup {i \in DOMAIN whole : whole[i] # 0})
      places == [i \in 1 .. Lesser(precision, num.decimal_pos)
                   |-> Stored(num, num.decimal_pos - i)]
  IN Text(num.neg /\ ~(num.length = 1 /\ Stored(num, 0) = 0),
          IF whole = <<>> THEN <<0>> ELSE SubSeq(whole, first, Len(whole)),
          NoZerosAtTheEnd(places))

Sign(n) == IF n > 0 THEN 1 ELSE IF n < 0 THEN -1 ELSE 0

(* By the length of the whole part, then by the digits of a from the top,   *)
(* then by the digits of b where its longer fraction would be if both had   *)
(* their lowest digit in the same place.                                    *)
bignum_compare_abs(a, b) ==
  LET diff == [i \in 0 .. a.length - 1 |->
                 Digit(a, i) - Digit(b, i - a.decimal_pos + b.decimal_pos)]
      apart == {i \in DOMAIN diff : diff[i] # 0}
  IN IF IntLength(a) # IntLength(b) THEN Sign(IntLength(a) - IntLength(b))
     ELSE IF apart # {} THEN Sign(diff[Max(apart)])
     ELSE IF \E i \in a.decimal_pos .. b.decimal_pos - 1 : Digit(b, i) # 0 THEN -1
     ELSE 0

(* With signs, as the evaluator compares. *)
bignum_compare(a, b) ==
  IF a.neg # b.neg THEN IF a.neg THEN -1 ELSE 1
  ELSE IF a.neg THEN - bignum_compare_abs(a, b) ELSE bignum_compare_abs(a, b)

(* The digit of x in the place of digit i of a result with "places" places. *)
Aligned(x, i, places) == Digit(x, i - places + x.decimal_pos)

(* The lengths of the whole parts are compared as unsigned numbers: one     *)
(* below 0 (no whole part, and zeros behind the point) is larger than all.  *)
UnsignedGreater(m, n) ==
  IF (m < 0) = (n < 0) THEN m > n ELSE m < 0
SumLength(a, b) ==
  IF UnsignedGreater(IntLength(a), IntLength(b)) THEN IntLength(a) ELSE IntLength(b)

bignum_add_abs_drops_the_last_carry(a, b) ==
  LET places == Greater(a.decimal_pos, b.decimal_pos)
      len == SumLength(a, b) + places
      column(i) == Aligned(a, i, places) + Aligned(b, i, places)
      carry[i \in 0 .. len] ==
        IF i = 0 THEN 0 ELSE (column(i - 1) + carry[i - 1]) \div Base
      digits == [i \in 1 .. len |-> (column(i - 1) + carry[i - 1]) % Base]
  IN {bignum_trim(Number(FALSE, digits, len, places))}
bignum_add_abs(a, b) ==
  LET places == Greater(a.decimal_pos, b.decimal_pos)
      len == SumLength(a, b) + places + 1
      column(i) == Aligned(a, i, places) + Aligned(b, i, places)
      carry[i \in 0 .. len] ==
        IF i = 0 THEN 0 ELSE (column(i - 1) + carry[i - 1]) \div Base
      digits == [i \in 1 .. len |-> (column(i - 1) + carry[i - 1]) % Base]
  IN IF ~bignum_ensure_capacity(len + 1) THEN {}
     ELSE {bignum_trim(Number(FALSE, digits, len, places))}

(* As many digits as a has, or places if there are more of these: what     *)
(* more places push out of that window is lost.                            *)
bignum_sub_abs(a, b) ==
  LET places == Greater(a.decimal_pos, b.decimal_pos)
      len == Greater(a.length, places)
      column(i) == Aligned(a, i, places) - Aligned(b, i, places)
      borrow[i \in 0 .. len] ==
        IF i > 0 /\ column(i - 1) < borrow[i - 1] THEN 1 ELSE 0
      digits == [i \in 1 .. len |-> (column(i - 1) - borrow[i - 1]) % Base]
  IN IF ~bignum_ensure_capacity(len + 1) THEN {}
     ELSE {bignum_trim(Number(FALSE, digits, len, places))}

Signed(neg, results) == {[x EXCEPT !.neg = neg] : x \in results}

bignum_add(a, b) ==
  IF a.neg = b.neg THEN Signed(a.neg, bignum_add_abs(a, b))
  ELSE IF bignum_compare_abs(a, b) >= 0 THEN Signed(a.neg, bignum_sub_abs(a, b))
  ELSE Signed(b.neg, bignum_sub_abs(b, a))

bignum_sub(a, b) ==
  IF a.neg # b.neg THEN Signed(a.neg, bignum_add_abs(a, b))
  ELSE IF bignum_compare_abs(a, b) >= 0 THEN Signed(a.neg, bignum_sub_abs(a, b))
  ELSE Signed(~a.neg, bignum_sub_abs(b, a))

(* Places beyond "precision" are cut off, then places until the limit of   *)
(* digits is met, if there are enough.                                     *)
WithoutPlaces(x, n) ==
  bignum_trim([(IF n < x.length THEN Lowered(x, n)
                ELSE [x EXCEPT !.digits = <<0>> \o SubSeq(@, 2, Len(@)), !.length = 1])
               EXCEPT !.decimal_pos = x.decimal_pos - n])
Kept_cuts_into_the_whole_part(num, precision) ==
  LET x == IF num.decimal_pos > precision
           THEN WithoutPlaces(num, num.decimal_pos - precision) ELSE num
      over == x.length - BIGNUM_MAX_DIGITS
  IN IF over > 0 THEN [WithoutPlaces(x, over) EXCEPT !.decimal_pos = Greater(0, @)] ELSE x
Kept(num, precision) ==
  LET x == IF num.decimal_pos > precision
           THEN WithoutPlaces(num, num.decimal_pos - precision) ELSE num
      over == Lesser(x.length - BIGNUM_MAX_DIGITS, x.decimal_pos)
  IN IF over > 0 THEN WithoutPlaces(x, over) ELSE x

(* Long multiplication has no window: its digits are those of the product. *)
bignum_mul(a, b) ==
  LET product == Whole(a) * Whole(b)
      len == Greater(1, a.length + b.length)
      temp == Number(a.neg # b.neg, DigitsOf(product, len), len,
                     a.decimal_pos + b.decimal_pos)
  IN IF ~bignum_ensure_capacity(len) THEN {}
     ELSE bignum_copy(Kept(bignum_trim(temp), BIGNUM_DEFAULT_PRECISION))

IsZero(x) == x.length = 1 /\ Stored(x, 0) = 0

(* The dividend without its point, moved up by "scale" places, is divided   *)
(* digit by digit: a digit is the number of times, ten at most, that the    *)
(* divisor is taken off the remainder.  A divisor without digits never      *)
(* exceeds the remainder.                                                   *)
Quotient(dividend, divisor, len) ==
  IF divisor.length = 0 THEN [i \in 1 .. len |-> Base]
  ELSE DigitsOf(dividend \div Whole(divisor), len)
bignum_div(a, b, precision) ==
  LET scale == precision + GUARD_DIGITS
      len == IF Whole(a) = 0 THEN a.length ELSE a.length + scale
      digits == Quotient(Whole(a) * Power(Base, scale), b, len)
  IN IF IsZero(b) \/ bignum_copy(a) = {} \/ bignum_copy(b) = {}
        \/ ~bignum_ensure_capacity(len + 2) THEN {}
     ELSE {bignum_trim(Number(a.neg # b.neg, digits, len,
                              scale + a.decimal_pos - b.decimal_pos))}

HasPlaces(x) == \E i \in 0 .. x.decimal_pos - 1 : Stored(x, i) # 0

(* By squaring: square[i] is the base after i squarings, power[i] the       *)
(* result after the i lowest bits of the exponent.                          *)
Exponent(x) == Whole(x) \div Power(Base, Greater(0, x.decimal_pos))
One == Number(FALSE, <<1>>, 1, 0)
bignum_pow(base, exponent, precision) ==
  LET e == Exponent(exponent)
      bits == CHOOSE n \in 0 .. e : e < Power(2, n) /\ (n = 0 \/ e >= Power(2, n - 1))
      Times(xs, ys) == {Kept(z, precision) : z \in UNION {bignum_mul(x, y) : x \in xs, y \in ys}}
      square[i \in 0 .. bits - 1] ==
        IF i = 0 THEN bignum_copy(base) ELSE Times(square[i - 1], square[i - 1])
      power[i \in 0 .. bits] ==
        IF i = 0 THEN {One}
        ELSE IF (e \div Power(2, i - 1)) % 2 = 1 THEN Times(power[i - 1], square[i - 1])
        ELSE IF square[i - 1] = {} THEN {} ELSE power[i - 1]
  IN IF exponent.neg \/ HasPlaces(exponent) \/ e > MAX_EXPONENT THEN {}
     ELSE {bignum_trim(x) : x \in power[bits]}

(* The sign of the dividend.  Numbers with places are refused. *)
bignum_mod(a, b) ==
  LET r == DigitsOf(Whole(a) % Whole(b), b.length)
  IN IF IsZero(b) \/ HasPlaces(a) \/ HasPlaces(b)
        \/ bignum_copy(a) = {} \/ bignum_copy(b) = {} THEN {}
     ELSE {bignum_trim([bignum_trim(Number(FALSE, r, b.length, 0)) EXCEPT !.neg = a.neg])}
(* It does not return from a divisor without digits, and takes the places   *)
(* of a zero that has fewer digits off its length, which wraps.             *)
ModReturns(a, b) ==
  IsZero(b) \/ HasPlaces(a) \/ HasPlaces(b)
  \/ (b.length > 0 /\ a.decimal_pos <= a.length /\ b.decimal_pos <= b.length)

(* Halved until it is zero, which a number without digits is not taken for. *)
(* The first bit of the bitmap is the first of the text: the highest.       *)
Bits(n) == [i \in 1 .. (CHOOSE len \in 1 .. n + 1 : n < Power(2, len) /\ (len = 1 \/ n >= Power(2, len - 1)))
              |-> (n \div Power(2, i - 1)) % 2]
bignum_number_to_bitmap(num) ==
  IF num.neg \/ HasPlaces(num) THEN {}
  ELSE {Reverse(Bits(Whole(x))) : x \in bignum_copy(num)}

(* Doubling from the last bit of the bitmap to its first. *)
bignum_bitmap_to_number(bits) ==
  LET upto[i \in 0 .. Len(bits)] ==
        IF i = 0 THEN 0 ELSE 2 * upto[i - 1] + bits[Len(bits) + 1 - i]
      n == upto[Len(bits)]
  IN bignum_trim(Number(FALSE, DigitsOf(n, CountOf(n)), CountOf(n), 0))

-----------------------------------------------------------------------------
Operators == {"+", "-", "*", "/", "%", "**"}
Returns(op, a, b) == op = "%" => ModReturns(a, b)
Result(op, a, b) ==
  CASE op = "+" -> bignum_add(a, b)
    [] op = "-" -> bignum_sub(a, b)
    [] op = "*" -> bignum_mul(a, b)
    [] op = "/" -> bignum_div(a, b, BIGNUM_DEFAULT_PRECISION)
    [] op = "%" -> bignum_mod(a, b)
    [] op = "**" -> bignum_pow(a, b, BIGNUM_DEFAULT_PRECISION)

VARIABLE acc   (* the number on show *)

Operands == UNION {bignum_from_string(t) : t \in Literals}
(* Division by a zero without digits gives "digits" of Base, and by a number *)
(* of more places than it adds a point behind the last digit, from where     *)
(* the code reads outside of the storage: the calculator stops at both.      *)
Proper(x) == x.decimal_pos >= 0 /\ \A i \in DOMAIN x.digits : x.digits[i] < Base

bignum_create == acc = Number(FALSE, <<>>, 1, 0)
Computes(op, a, b) == Returns(op, a, b) /\ acc' \in Result(op, a, b)
Calculates ==
  /\ acc.length <= MaxShown /\ acc.decimal_pos <= MaxShown /\ Proper(acc)
  /\ \E op \in Operators, x \in Operands : Computes(op, acc, x) \/ Computes(op, x, acc)
Rereads == acc' \in bignum_from_string(bignum_to_string(acc, BIGNUM_DEFAULT_PRECISION)) /\ Proper(acc)
Reads == acc' \in Operands
(* A whole number is made a bitmap by bmp and a number again by num.        *)
Converts ==
  /\ acc.length > 0 /\ acc.decimal_pos = 0 /\ Proper(acc)
  /\ \E bits \in bignum_number_to_bitmap(acc) : acc' = bignum_bitmap_to_number(bits)
BignumNext == Calculates \/ Rereads \/ Reads \/ Converts

-----------------------------------------------------------------------------
(* Whole numbers in their usual form. *)
IsWhole(x) == x.length > 0 /\ x.decimal_pos = 0 /\ Proper(x)
Value(x) == IF x.neg THEN - Whole(x) ELSE Whole(x)
ValueIs(results, n) == \A x \in results : IsWhole(x) /\ Value(x) = n

(* With whole numbers, also those a calculation has left with a sign on     *)
(* zero, comparisons are right unless both are zero, sums, differences,     *)
(* products, powers and remainders are exact, a remainder has the sign of   *)
(* the dividend, and zero divides nothing.                                  *)
WholeExactFor(a, b) ==
  /\ Value(a) # 0 \/ Value(b) # 0 => bignum_compare(a, b) = Sign(Value(a) - Value(b))
  /\ ValueIs(bignum_add(a, b), Value(a) + Value(b))
  /\ ValueIs(bignum_sub(a, b), Value(a) - Value(b))
  /\ ValueIs(bignum_mul(a, b), Value(a) * Value(b))
  /\ Value(b) >= 0 => ValueIs(bignum_pow(a, b, BIGNUM_DEFAULT_PRECISION), Power(Value(a), Value(b)))
  /\ IF Value(b) = 0 THEN bignum_mod(a, b) = {} /\ bignum_div(a, b, 0) = {}
     ELSE ValueIs(bignum_mod(a, b), (IF Value(a) < 0 THEN -1 ELSE 1) * (Whole(a) % Whole(b)))
WholeExact ==
  IsWhole(acc) => \A x \in Operands : IsWhole(x) => WholeExactFor(acc, x) /\ WholeExactFor(x, acc)

(* Products and quotients of any numbers are exact but for what is cut off: *)
(* places after the last one kept, toward zero, never a digit before them.  *)
(* A divisor has a digit that is not 0.                                     *)
MultipleOf(x, n, places) ==
  IF n = 0 THEN Whole(x) = 0
  ELSE x.decimal_pos <= places /\ Whole(x) * Power(Base, places - x.decimal_pos) = n
ProductIs(results, a, b) ==
  LET n == Whole(a) * Whole(b)
      places == a.decimal_pos + b.decimal_pos
      cut == Greater(0, places - BIGNUM_DEFAULT_PRECISION)
      over == CountOf(n \div Power(Base, cut)) - BIGNUM_MAX_DIGITS
      unit == Power(Base, cut + Greater(0, Lesser(over, places - cut)))
  IN \A x \in results : MultipleOf(x, unit * (n \div unit), places)
                        /\ (Whole(x) # 0 => x.neg = (a.neg # b.neg))
QuotientIs(results, a, b, precision) ==
  LET scale == precision + GUARD_DIGITS
  IN \A x \in results :
       /\ MultipleOf(x, (Whole(a) * Power(Base, scale)) \div Whole(b),
                      scale + a.decimal_pos - b.decimal_pos)
       /\ Whole(x) # 0 => x.neg = (a.neg # b.neg)
(* Comparisons are right between numbers with a whole part if the first has *)
(* no fewer places (0 is taken to be above 0.5, and 1.01 to equal 1.013),   *)
(* and zeros of different sign differ.                                      *)
Scaled(x, places) == Value(x) * Power(Base, places - x.decimal_pos)
Comparable(a, b) == IntLength(a) > 0 /\ IntLength(b) > 0 /\ a.decimal_pos >= b.decimal_pos
ComparisonIs(result, a, b) ==
  Comparable(a, b) /\ (Whole(a) # 0 \/ Whole(b) # 0) =>
    result = Sign(Scaled(a, a.decimal_pos) - Scaled(b, a.decimal_pos))

(* Sums are exact where no digit leaves the window of the result: neither   *)
(* number has zeros behind the point only, and if one is taken off the      *)
(* other, they are compared right and the larger has as many places.        *)
(* (12 + 0.05 is 0.05, 12 - 0.5 is 1.5, and 0 - 0.2 is 0.8.)                *)
WindowHolds(a, b) ==
  LET p == Greater(a.decimal_pos, b.decimal_pos)
      larger == IF Power(Scaled(a, p), 2) >= Power(Scaled(b, p), 2) THEN a ELSE b
  IN IF a.neg = b.neg THEN IntLength(a) >= 0 /\ IntLength(b) >= 0
     ELSE Comparable(a, b) /\ larger.decimal_pos = p
SumIs(results, a, b) ==
  LET p == Greater(a.decimal_pos, b.decimal_pos)
  IN WindowHolds(a, b) =>
       \A x \in results : x.decimal_pos <= p /\ Scaled(x, p) = Scaled(a, p) + Scaled(b, p)
ScaledExactFor(a, b) ==
  /\ ProductIs(bignum_mul(a, b), a, b)
  /\ Whole(b) # 0 => QuotientIs(bignum_div(a, b, 1), a, b, 1)
  /\ ComparisonIs(bignum_compare(a, b), a, b)
  /\ SumIs(bignum_add(a, b), a, b)
  /\ SumIs(bignum_sub(a, b), a, [b EXCEPT !.neg = ~@])
ScaledExact ==
  Proper(acc) => \A x \in Operands : ScaledExactFor(acc, x) /\ ScaledExactFor(x, acc)

(* A number with a whole part or a first place that is not 0 is read back   *)
(* from its text as it was, but for the sign of zero.                       *)
ConversionsAgree ==
  Proper(acc) /\ acc.length > 0 /\ acc.decimal_pos <= acc.length =>
    \A x \in bignum_from_string(bignum_to_string(acc, acc.decimal_pos)) :
       /\ [x EXCEPT !.neg = acc.neg, !.digits = <<>>] = [acc EXCEPT !.digits = <<>>]
       /\ Whole(x) = Whole(acc) /\ (Whole(acc) # 0 => x.neg = acc.neg)
==============================================================================
