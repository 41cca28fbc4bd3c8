CONSTANT Sizes <- MCSizes
SPECIFICATION FairSpec
INVARIANTS Inductive EachOnce
PROPERTY Terminates
CHECK_DEADLOCK FALSE
