\* NewValue on every short text for the integral types.
CONSTANTS
    NumTexts <- AllNumTexts
    IntTexts <- DecimalTexts
    RawTexts <- AllRawTexts
    Types <- MCTypes
    CtorArgs <- MCCtorArgs
    GoVals <- MCGoVals
    IntBits = 8
    JsonTexts <- MCJsonTexts
SPECIFICATION Spec
INVARIANT ConvertsWhatWasValidated
