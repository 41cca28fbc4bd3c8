CONSTANTS
    a = a  b = b  out = out  g = g  h = h  plus = plus  less = less  at = at  sine = sine
    MaxNodes = 6
    Names <- MCNames
    Inputs <- MCInputs
    Outputs <- MCOutputs
    GlobalValues <- MCValues
    GlobalCalls <- MCCalls
    Signature <- MCSignature
    Programs <- MCPrograms
SPECIFICATION CompileSpec
INVARIANT FailsWithException
CHECK_DEADLOCK FALSE
