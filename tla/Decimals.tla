------------------------------ MODULE Decimals ------------------------------
(***************************************************************************)
(* The decimal numbers of the AI decision contract (v2/aidecision): a JSON *)
(* number with a point and an exponent is normalized to a plain decimal    *)
(* text of bounded length, by moving the point through its digits.  A      *)
(* number is [whole, fraction, exponent]: two sequences of digits and the  *)
(* set of its exponent, empty where it has none; the texts are their       *)
(* lengths.                                                                *)
(***************************************************************************)
EXTENDS Integers, SequencesExt

CONSTANTS
    Numbers,        \* JSON numbers an upstream provider may send
    MaxText,        \* 64: the length of a number's text
    MaxExponent     \* 64

ASSUME NumbersAssumption ==
    /\ MaxText \in Nat /\ MaxExponent \in Nat
    /\ Numbers \subseteq [whole : Seq(0 .. 9), fraction : Seq(0 .. 9), exponent : SUBSET Int]
    /\ \A n \in Numbers : \A x, y \in n.exponent : x = y

VARIABLES
    number,         \* the JSON number
    decimal         \* [ok, whole, fraction]: what it was normalized to

decimalVars == <<number, decimal>>

Refused == [ok |-> FALSE, whole |-> <<>>, fraction |-> <<>>]

DecimalsInit == number \in Numbers /\ decimal = Refused

----------------------------------------------------------------------------
Zeros(n) == [i \in 1 .. n |-> 0]
NonZero(s) == {i \in DOMAIN s : s[i] # 0}
TrimLeft(s) == IF NonZero(s) = {} THEN <<>> ELSE SubSeq(s, Min(NonZero(s)), Len(s))
TrimRight(s) == IF NonZero(s) = {} THEN <<>> ELSE SubSeq(s, 1, Max(NonZero(s)))

TextLen(whole, fraction) == Len(whole) + (IF fraction = <<>> THEN 0 ELSE 1 + Len(fraction))
ExponentLen(e) == IF e = {} THEN 0 ELSE IF e \subseteq Nat THEN 2 ELSE 3

(* decimalPattern and ParseDecimal: no leading zero, no sign, no exponent. *)
ParseDecimal(whole, fraction) ==
    /\ TextLen(whole, fraction) <= MaxText
    /\ whole # <<>> /\ (whole[1] = 0 => whole = <<0>>)

(* DecimalFromJSONNumber: pad with zeros until the point is inside.        *)
PadLeft_OneShort(digits, point) == IF point <= 0 THEN Zeros(-point) \o digits ELSE digits
PadLeft(digits, point) == IF point <= 0 THEN Zeros(1 - point) \o digits ELSE digits
DecimalFromJSONNumber(n) ==
    LET exponent == IF n.exponent = {} THEN 0 ELSE CHOOSE e \in n.exponent : TRUE
        moved == Len(n.whole) + exponent
        point == IF moved <= 0 THEN 1 ELSE moved
        padded == PadLeft(n.whole \o n.fraction, moved)
        digits == padded \o Zeros(point - Len(padded))
        trimmed == TrimLeft(SubSeq(digits, 1, point))
        whole == IF trimmed = <<>> THEN <<0>> ELSE trimmed
        fraction == TrimRight(SubSeq(digits, point + 1, Len(digits)))
    IN  IF /\ TextLen(n.whole, n.fraction) + ExponentLen(n.exponent) <= MaxText
           /\ exponent \in -MaxExponent .. MaxExponent
           /\ ParseDecimal(whole, fraction)
        THEN [ok |-> TRUE, whole |-> whole, fraction |-> fraction]
        ELSE Refused

Convert == decimal' = DecimalFromJSONNumber(number) /\ UNCHANGED number

DecimalsNext == Convert
DecimalsSpec == DecimalsInit /\ [][DecimalsNext]_decimalVars

----------------------------------------------------------------------------
(* A number that is taken keeps its value exactly, whatever its exponent,  *)
(* and has one text: no zero leads its whole part or ends its fraction.    *)
Value(digits) ==
    LET upTo[i \in 0 .. Len(digits)] == IF i = 0 THEN 0 ELSE 10 * upTo[i - 1] + digits[i]
    IN  upTo[Len(digits)]
Shift(n) == IF n > 0 THEN Value(<<1>> \o Zeros(n)) ELSE 1
DecimalExact ==
    LET e == IF number.exponent = {} THEN 0 ELSE CHOOSE x \in number.exponent : TRUE IN
    decimal.ok =>
        /\ Value(number.whole \o number.fraction) * Shift(e) * Shift(Len(decimal.fraction)) =
              Value(decimal.whole \o decimal.fraction) * Shift(-e) * Shift(Len(number.fraction))
        /\ Last(<<1>> \o decimal.fraction) # 0
        /\ decimal.whole = <<0>> \/ decimal.whole[1] # 0
=============================================================================
