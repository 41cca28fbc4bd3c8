CONSTANTS
    a = a  b = b  f = f  k = k  m = m
    MaxNodes = 7
    Names <- MCNames
    Inputs <- MCInputs
    Outputs <- MCOutputs
    GlobalValues <- MCValues
    GlobalCalls <- MCCalls
    Programs <- MCPrograms
SPECIFICATION FairSpec
INVARIANTS Inductive UpvaluesChained ImportsSucceed ReferencesLexical UpvaluesNeeded UpvaluesComplete
PROPERTIES SignaturesFinal Terminates
CHECK_DEADLOCK FALSE
