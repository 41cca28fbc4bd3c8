CONSTANTS
    Lanes <- MCLanes
    Alias <- MCAlias
    ScriptTypes <- MCScriptTypes
    Used <- MCUsed
    Library <- MCLibrary
    Externals <- MCExternals
    MaxCalls = 2
    MaxCompilers = 2
SPECIFICATION Spec
INVARIANTS FirstIsOfThisCall EmittedAsDocumented RejectedOnlyIfWrong FailsOnlyAsKnown ErrorsNameTheCall
PROPERTY Registries
CHECK_DEADLOCK FALSE
