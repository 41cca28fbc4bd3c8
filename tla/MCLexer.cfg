CONSTANT Texts <- MCTexts
SPECIFICATION FairSpec
INVARIANTS TokensAsWritten PositionsTrue
PROPERTY Terminates
CHECK_DEADLOCK FALSE
