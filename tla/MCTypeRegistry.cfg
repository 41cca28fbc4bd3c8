CONSTANTS
    Lanes <- MCLanes
    Alias <- MCAlias
    Requests <- MCRequests
SPECIFICATION Spec
INVARIANTS TypeOK ReverseLookupTotal OneObjectPerName OperatorsDefined
PROPERTY NamesKeepTypes
