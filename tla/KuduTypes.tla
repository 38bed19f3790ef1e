----------------------------- MODULE KuduTypes -----------------------------
(***************************************************************************)
(* The type layer of src/kudu/common/types.h as pure operators: the        *)
(* per-type Compare and AreConsecutive of DataTypeTraits, the derived-type  *)
(* layering onto a physical type, the canonical min/max sentinels, the     *)
(* DATE validity window and the seconds/microseconds split done by the     *)
(* UNIXTIME_MICROS debug formatter.                                        *)
(*                                                                         *)
(* Values are abstracted as follows:                                       *)
(*  - an integer of type t is a TLA+ integer of Bits[t] bits; IntBits is   *)
(*    the width of C++ int, so integer promotion and unsigned wrap-around  *)
(*    happen at the same relative widths as in the build (the 8/16-bit     *)
(*    types and bool are promoted to int, 32 bits and up are not);         *)
(*  - bool is 0 or 1, as it is once promoted to int;                       *)
(*  - a float or double is a position -FloatMax..FloatMax on the ordered   *)
(*    line of representable values (the two ends are the infinities) or    *)
(*    the constant NaN;                                                    *)
(*  - a Slice (BINARY, STRING, VARCHAR) is a sequence of byte values.      *)
(***************************************************************************)
EXTENDS Integers, Sequences, FiniteSets

CONSTANTS
  Bits,      \* [integer DataType -> its width in bits, scaled]
  IntBits,   \* width of C++ int at the same scale
  FloatMax,  \* position of +infinity on the float line
  NaN        \* the float NaN (a model value)

\* The closed DataType enumeration of common.proto used by this layer.
UnsignedTypes == {"UINT8", "UINT16", "UINT32", "UINT64"}
SignedTypes   == {"INT8", "INT16", "INT32", "INT64", "INT128"}
FloatTypes    == {"FLOAT", "DOUBLE"}
PhysicalTypes == UnsignedTypes \cup SignedTypes \cup FloatTypes \cup {"BOOL", "BINARY"}
DerivedTypes  == {"STRING", "VARCHAR", "UNIXTIME_MICROS", "DATE",
                  "DECIMAL32", "DECIMAL64", "DECIMAL128", "IS_DELETED"}
DataTypes     == PhysicalTypes \cup DerivedTypes

(***************************************************************************)
(* DerivedTypeTraits<P> and the specialisations built on it: the physical  *)
(* type whose Compare/AreConsecutive/min/max a logical type reuses.        *)
(***************************************************************************)
PhysicalType(t) ==
  CASE t \in {"STRING", "VARCHAR"}           -> "BINARY"
    [] t \in {"UNIXTIME_MICROS", "DECIMAL64"} -> "INT64"
    [] t \in {"DATE", "DECIMAL32"}            -> "INT32"
    [] t = "DECIMAL128"                       -> "INT128"
    [] t = "IS_DELETED"                       -> "BOOL"
    [] OTHER                                  -> t

IntegerPhysical == UnsignedTypes \cup SignedTypes \cup {"BOOL"}

IsVarLen(t) == PhysicalType(t) = "BINARY"

\* DataTypeTraits<T>::IsVirtual(): only IS_DELETED overrides it.
IsVirtual(t) == t = "IS_DELETED"

\* DataTypeTraits<BOOL>::min_value/max_value: static bools false and true.
BoolMin == 0
BoolMax == 1

\* MathLimits<cpp_type>::kMin / kMax at the scaled width; BOOL's own.
IntMin(p) == CASE p \in SignedTypes -> -(2^(Bits[p] - 1))
               [] p = "BOOL"        -> BoolMin
               [] OTHER             -> 0
IntMax(p) == CASE p \in SignedTypes -> 2^(Bits[p] - 1) - 1
               [] p = "BOOL"        -> BoolMax
               [] OTHER             -> 2^Bits[p] - 1

(***************************************************************************)
(* The C++ "<" used by GenericCompare: arithmetic order, and false as soon *)
(* as one operand of a float type is NaN.                                  *)
(***************************************************************************)
CppLess(p, x, y) ==
  IF p \in FloatTypes THEN x # NaN /\ y # NaN /\ x < y ELSE x < y

\* Mutant: the second comparison dropped, so 'not less' is taken as greater.
GenericCompareNoEqual(p, lhs, rhs) ==
  IF CppLess(p, lhs, rhs) THEN -1 ELSE 1

\* GenericCompare<Type>: -1, 1, or 0 when neither is less than the other.
GenericCompare(p, lhs, rhs) ==
  IF CppLess(p, lhs, rhs) THEN -1
  ELSE IF CppLess(p, rhs, lhs) THEN 1
  ELSE 0

(***************************************************************************)
(* a_int + 1 as the build evaluates it: operands narrower than int are     *)
(* promoted and cannot overflow; unsigned 32/64-bit arithmetic wraps       *)
(* modulo 2^w; signed overflow at the top is undefined and the build       *)
(* produces the two's-complement wrap.                                     *)
(***************************************************************************)
CppPlusOne(p, x) ==
  IF Bits[p] < IntBits THEN x + 1
  ELSE IF p \in UnsignedTypes THEN (x + 1) % (2^Bits[p])
  ELSE IF x = IntMax(p) THEN IntMin(p) ELSE x + 1

\* Mutant: the relative-position check dropped.
AreIntegersConsecutiveNoOrderCheck(p, a, b) == CppPlusOne(p, a) = b

\* AreIntegersConsecutive<Type>: overflow avoided by checking a < b first.
AreIntegersConsecutive(p, a, b) ==
  /\ a < b
  /\ CppPlusOne(p, a) = b

\* std::nextafter(a, b) on the line of representable floats.
NextAfter(a, b) ==
  IF a = NaN \/ b = NaN THEN NaN
  ELSE IF a = b THEN b
  ELSE IF a < b THEN a + 1 ELSE a - 1

\* AreFloatsConsecutive<Type>.
AreFloatsConsecutive(p, a, b) ==
  /\ CppLess(p, a, b)
  /\ NextAfter(a, b) = b

(***************************************************************************)
(* Slice::compare (kudu/util/slice.h, not under src/; modelled from the    *)
(* spec): memcmp of the common prefix, then the shorter slice is less.     *)
(***************************************************************************)
MinLen(a, b) == IF Len(a) < Len(b) THEN Len(a) ELSE Len(b)

\* memcmp: sign of the first differing unsigned byte.
MemCompare(a, b, n) ==
  LET diff == {i \in 1..n : a[i] # b[i]}
      i    == CHOOSE j \in diff : \A k \in diff : j <= k
  IN IF diff = {} THEN 0 ELSE IF a[i] < b[i] THEN -1 ELSE 1

SliceCompare(a, b) ==
  LET r == MemCompare(a, b, MinLen(a, b))
  IN IF r # 0 THEN r
     ELSE IF Len(a) < Len(b) THEN -1
     ELSE IF Len(a) > Len(b) THEN 1
     ELSE 0

\* Mutant: the trailing-NUL test dropped.
BinaryAreConsecutiveAnyLastByte(a, b) ==
  /\ Len(a) + 1 = Len(b)
  /\ a = SubSeq(b, 1, Len(a))

\* DataTypeTraits<BINARY>::AreConsecutive: b is a with one NUL appended.
BinaryAreConsecutive(a, b) ==
  /\ Len(a) + 1 = Len(b)
  /\ b[Len(a) + 1] = 0
  /\ a = SubSeq(b, 1, Len(a))

(***************************************************************************)
(* TypeInfo::Compare and TypeInfo::AreConsecutive: dispatch on the         *)
(* physical type of t (derived types inherit both).                        *)
(***************************************************************************)
Compare(t, lhs, rhs) ==
  LET p == PhysicalType(t)
  IN IF p = "BINARY" THEN SliceCompare(lhs, rhs) ELSE GenericCompare(p, lhs, rhs)

AreConsecutive(t, a, b) ==
  LET p == PhysicalType(t)
  IN CASE p = "BINARY"       -> BinaryAreConsecutive(a, b)
       [] p \in FloatTypes   -> AreFloatsConsecutive(p, a, b)
       [] OTHER              -> AreIntegersConsecutive(p, a, b)

(***************************************************************************)
(* Canonical min/max (min_value()/max_value() of each trait): integers     *)
(* take MathLimits, floats the infinities, BINARY has "" and no max        *)
(* (NoMax), DATE overrides both with its calendar window.                  *)
(***************************************************************************)
NoMax == "none"
DateMinValue == -719162
DateMaxValue == 2932896

MinValue(t) ==
  LET p == PhysicalType(t)
  IN CASE t = "DATE"         -> DateMinValue
       [] p = "BINARY"       -> << >>
       [] p \in FloatTypes   -> -FloatMax
       [] OTHER              -> IntMin(p)

MaxValue(t) ==
  LET p == PhysicalType(t)
  IN CASE t = "DATE"         -> DateMaxValue
       [] p = "BINARY"       -> NoMax
       [] p \in FloatTypes   -> FloatMax
       [] OTHER              -> IntMax(p)

\* TypeInfo::IsMinValue / IsMaxValue: through Compare, max may be absent.
IsMinValue(t, x) == Compare(t, x, MinValue(t)) = 0
IsMaxValue(t, x) == MaxValue(t) # NoMax /\ Compare(t, x, MaxValue(t)) = 0

\* DataTypeTraits<DATE>::IsValidValue.
DateIsValidValue(x) == x >= DateMinValue /\ x <= DateMaxValue

(***************************************************************************)
(* The seconds/microseconds split of                                       *)
(* DataTypeTraits<UNIXTIME_MICROS>::AppendDebugStringForValue: C++ "/" and *)
(* "%" truncate toward zero, then a negative remainder borrows a second.   *)
(***************************************************************************)
kMicrosInSecond == 1000000
CppDiv(x, y) == IF x >= 0 THEN x \div y ELSE -((-x) \div y)
CppMod(x, y) == x - CppDiv(x, y) * y
Abs(x) == IF x < 0 THEN -x ELSE x

\* Mutant: the remainder is normalised but the second is not borrowed.
TimestampSplitNoBorrow(ts) ==
  LET secs == CppDiv(ts, kMicrosInSecond)
      rem  == CppMod(ts, kMicrosInSecond)
  IN IF rem < 0 THEN <<secs, kMicrosInSecond - Abs(rem)>> ELSE <<secs, rem>>

\* <<secs_since_epoch, remaining_micros>> handed to gmtime_r and snprintf.
TimestampSplit(ts) ==
  LET secs == CppDiv(ts, kMicrosInSecond)
      rem  == CppMod(ts, kMicrosInSecond)
  IN IF rem < 0 THEN <<secs - 1, kMicrosInSecond - Abs(rem)>> ELSE <<secs, rem>>

=============================================================================
