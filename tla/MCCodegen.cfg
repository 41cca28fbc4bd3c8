CONSTANTS
    a = a  b = b  out = out  g = g  h = h  plus = plus  less = less  at = at  sine = sine
    MaxNodes = 7
    Names <- MCNames
    Inputs <- MCInputs
    Outputs <- MCOutputs
    GlobalValues <- MCValues
    GlobalCalls <- MCCalls
    Signature <- MCSignature
    Programs <- MCPrograms
SPECIFICATION FairCompileSpec
INVARIANTS CodegenTypeOK OperandsLocal CallsMatchSignatures NothingUnbound InsertionPointAgrees AbortsOnlyOutward CrashesOnlyOnReturn
PROPERTY KeepsContract
CHECK_DEADLOCK FALSE
