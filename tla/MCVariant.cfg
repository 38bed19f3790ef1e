CONSTANTS
  Bits <- MCBits
  IntBits = 4
  FloatMax = 3
  NaN = NaN
  Variants = {v1, v2}
  Blocks = {b1, b2, b3}
  Types = {"INT32", "STRING", "BINARY"}
  NumVals = {0, 1}
  Strs <- MCStrs
  EMPTY = EMPTY
  AllowSelfReset = FALSE

SPECIFICATION Spec

INVARIANT TypeOK
INVARIANT OwnedBufferInvariant
INVARIANT NoLeak
INVARIANT MemorySafe
INVARIANT ValueIsWhatWasSet
SYMMETRY Symmetry
