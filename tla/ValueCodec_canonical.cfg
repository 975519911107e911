\* NewIntegral on every short text and at the int64/uint64 bounds (IntBits
\* is 8: the code's 64 scaled to what TLC holds); NewValue on canonical decimal texts and
\* on every short byte string for the other types.
CONSTANTS
    NumTexts <- DecimalTexts
    IntTexts <- AllIntTexts
    RawTexts <- MCRawTexts
    Types <- MCTypes
    CtorArgs <- MCCtorArgs
    GoVals <- MCGoVals
    IntBits = 8
    JsonTexts <- MCJsonTexts
SPECIFICATION Spec
INVARIANT ConvertsWhatWasValidated
INVARIANT LiteralReadsBack
INVARIANT IntegralKeepsNumber
INVARIANT ASCIIReadsBack
