\* Every --write_type spelling of the harness, from its validator to CopyTask.
CONSTANTS
  Bits <- MCBits
  IntBits = 4
  FloatMax = 3
  NaN = NaN
  Bytes = {0, 1, 255}
  MaxLen = 3
  TimestampSamples <- MCTimestampSamples
  FloatHasNaN = FALSE
  Columns <- MCColumns

SPECIFICATION Spec

INVARIANT AcceptedWriteTypeIsUsable
