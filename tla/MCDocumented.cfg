CONSTANTS
    Lanes <- MCLanes
    Alias <- MCAlias
    ScriptTypes <- MCScriptTypes
    Used <- MCUsed
    Library <- MCLibrary
    Externals <- MCExternals
    MaxCalls = 1
    MaxCompilers = 1
SPECIFICATION Spec
INVARIANT CallsAsDocumented
CHECK_DEADLOCK FALSE
