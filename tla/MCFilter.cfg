CONSTANTS
    MAX_VECTOR_ELEMENTS = 3
    Commands <- MCCommands
    Inputs <- MCInputs
SPECIFICATION FairSpec
INVARIANT BufferHoldsRow
PROPERTY FiltersRows
CHECK_DEADLOCK FALSE
