CONSTANTS
    Lanes <- MCLanes
    Alias <- MCAlias
    Requests <- MCRequests
SPECIFICATION Spec
INVARIANT OperatorsAlwaysDefined
