SPECIFICATION Spec
CONSTANTS
    Inputs <- MCInputs
    Punct <- MCPunct
    Digit <- MCDigit
    HexDigit <- MCHexDigit
    Alnum <- MCAlnum
    Names <- MCNames
    MaxHex = 1
    MaxDec = 1
    MaxSegment = 5
INVARIANTS WellFormed DecodedSoFar NothingLost FootnotesResolve
PROPERTIES ConversionEnds
CHECK_DEADLOCK FALSE
