------------------------------- MODULE FixPoint -------------------------------
(***************************************************************************)
(* The fixed-point numbers of the engine (battle_runtime/predicates.py and *)
(* property.py): a word has bit 0 as its mode.  STANDARD holds a number    *)
(* times Scale * Shift, EXTENDED times Scale, with fewer fraction bits and *)
(* a larger range.  Words of both modes are compared as they are, and      *)
(* decoded to the EXTENDED scale for arithmetic.                           *)
(***************************************************************************)
EXTENDS Integers

CONSTANTS Limit,  \* 2^30: numbers from here on do not fit STANDARD
          Scale,  \* 2^26
          Shift   \* 2^7, what STANDARD has more

ASSUME FixPointAssumption ==
  /\ {Limit, Scale, Shift} \subseteq Nat \ {0}
  /\ Scale % 2 = 0 /\ Shift % 2 = 0

Half == Limit * Scale * Shift  \* 2^63
Word == 0 .. 2 * Half - 1
Int32 == -(2 * Limit) .. 2 * Limit - 1

ToWord(x) == x % (2 * Half)
Signed(w) == IF w >= Half THEN w - 2 * Half ELSE w
Extended(w) == w % 2 = 1
Bare(w) == Signed(w - (w % 2))  \* without the mode bit

Sign(x) == IF x < 0 THEN -1 ELSE IF x > 0 THEN 1 ELSE 0

FromInt32(n) ==
  IF -Limit < n /\ n < Limit
  THEN ToWord(n * (Scale * Shift))
  ELSE ToWord(n * Scale) + 1

-----------------------------------------------------------------------------
(* Against a STANDARD word, an EXTENDED one is compared with what is left  *)
(* of it at its own scale, ...                                             *)
Aligned(w) == Signed(w) \div Shift

CompareAligned(lhs, rhs) ==  \* mutant
  IF Extended(lhs) = Extended(rhs) THEN Sign(Bare(lhs) - Bare(rhs))
  ELSE IF Extended(lhs) THEN Sign(Bare(lhs) - Aligned(rhs))
  ELSE Sign(Aligned(lhs) - Bare(rhs))

(* ... and the fraction bits that the shift lost break a tie.              *)
Compare(lhs, rhs) ==
  IF Extended(lhs) = Extended(rhs) THEN Sign(Bare(lhs) - Bare(rhs))
  ELSE IF Extended(lhs)
  THEN IF Bare(lhs) = Aligned(rhs) /\ rhs % Shift # 0 THEN -1
       ELSE Sign(Bare(lhs) - Aligned(rhs))
  ELSE IF Aligned(lhs) = Bare(rhs) /\ lhs % Shift # 0 THEN 1
       ELSE Sign(Aligned(lhs) - Bare(rhs))

IsZero(w) == w < 2
IsNegative(w) == w >= Half
IsPositive(w) == Bare(w) > 0

-----------------------------------------------------------------------------
(* _decode_fixpoint_common and _encode_fixpoint_common.                    *)
Common(w) == IF Extended(w) THEN Bare(w) ELSE Signed(w) \div Shift

Saturated(c) == IF c < -Half THEN -Half ELSE IF c > Half - 1 THEN Half - 1 ELSE c

EncodedAt(c) ==
  IF c % Scale = 0 /\ -Limit < c \div Scale /\ c \div Scale < Limit
  THEN ToWord((c \div Scale) * (Scale * Shift))
  ELSE ToWord(c - (c % 2)) + 1

EncodedWrapping(c) == EncodedAt(c)  \* mutant
Encoded(c) == EncodedAt(Saturated(c))

Add(lhs, rhs) == Encoded(Common(lhs) + Common(rhs))
Subtract(lhs, rhs) == Encoded(Common(lhs) - Common(rhs))
Multiply(lhs, rhs) == Encoded((Common(lhs) * Common(rhs)) \div Scale)

(* apply_modify_function; an unknown function sets.  Delays and HP are     *)
(* reduced besides.                                                        *)
Functions == {"SET", "ADD", "MUL", "MIN_SET", "MAX_SET", "unknown", "reduce"}

ModifiedWord(f, old, w) ==
  CASE f = "ADD" -> Add(old, w)
    [] f = "MUL" -> Multiply(old, w)
    [] f = "MIN_SET" -> IF Compare(old, w) < 0 THEN old ELSE w
    [] f = "MAX_SET" -> IF Compare(w, old) > 0 THEN w ELSE old
    [] f = "reduce" -> Subtract(old, w)
    [] f \in {"SET", "unknown"} -> w

-----------------------------------------------------------------------------
VARIABLES raw,      \* the materialized value of a property entry
          function, \* what is to be done to it, "none" if nothing
          operand   \* ... with which word

fixVars == <<raw, function, operand>>

FixTypeOK ==
  /\ {raw, operand} \subseteq Word
  /\ function \in Functions \cup {"none"}

FixInit ==
  /\ raw \in {FromInt32(n) : n \in Int32}
  /\ function = "none" /\ operand = FromInt32(0)

(* The value expression of a change has been evaluated.                    *)
Evaluate(f, w) ==
  /\ function = "none"
  /\ function' = f /\ operand' = w
  /\ UNCHANGED raw

(* modify_source_zero_untransformed, or a write of a difference.           *)
ModifyProperty ==
  /\ function # "none"
  /\ raw' = ModifiedWord(function, raw, operand)
  /\ function' = "none" /\ operand' = FromInt32(0)

FixNext == ModifyProperty \/ \E f \in Functions, w \in Word : Evaluate(f, w)

FixSpec == FixInit /\ [][FixNext]_fixVars

-----------------------------------------------------------------------------
(* The number a word stands for, in units of the STANDARD scale.           *)
Exact(w) == IF Extended(w) THEN Shift * Bare(w) ELSE Signed(w)

(* The six comparisons and the three sign leaves tell the exact order of   *)
(* the numbers that two words of any modes stand for, fractions, both      *)
(* zeros and the ends of the range included, although no comparison has    *)
(* room for the exact numbers.                                             *)
ComparisonIsExact ==
  function # "none" =>
    /\ Compare(raw, operand) = Sign(Exact(raw) - Exact(operand))
    /\ IsZero(operand) <=> Exact(operand) = 0
    /\ IsNegative(operand) <=> Exact(operand) < 0
    /\ IsPositive(operand) <=> Exact(operand) > 0

(* "saturating fixed-point sum / difference / product": over any sequence  *)
(* of modifications, in whatever modes the words are, the value is the     *)
(* integer that the same modifications make of integers, and it never      *)
(* wraps around.                                                           *)
C == INSTANCE ClippedInteger
       WITH Least <- -Half, Greatest <- Half - 1,
            number <- Common(raw), change <- function, amount <- Common(operand)

ImplementsInteger == C!ClippedSpec
=============================================================================
