CONSTANTS
  Inputs <- MCInputsAll
  Endian = "BE"

SPECIFICATION RenderSpec

PROPERTY ImplementsDecodeSpec

CHECK_DEADLOCK FALSE
