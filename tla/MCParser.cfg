CONSTANTS
    Identifiers <- MCIdentifiers
    Numbers <- MCNumbers
    Sizes <- MCSizes
    TypeNames <- MCTypeNames
    Sources <- MCSources
    Names <- MCNames
    Inputs <- MCNothing
    Outputs <- MCNothing
    GlobalValues = {}
    GlobalCalls = {}
SPECIFICATION Spec
INVARIANTS TypeOK OperandsBalance AcceptsTheGrammar RejectsOnlyErrors SignatureAsWritten
