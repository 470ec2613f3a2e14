CONSTANTS
  Inputs <- MCInputsText
  Endian = "LE"

SPECIFICATION Spec

INVARIANT TypeOK
INVARIANT ReadsWithinBuffer
PROPERTY ImplementsDecodeSpec

CHECK_DEADLOCK FALSE
