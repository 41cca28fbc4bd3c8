------------------------------ MODULE MCCalls ------------------------------
(* An instance of the calls for TLC.                                       *)
EXTENDS Calls, TLC

MCLanes == "vector*2" :> 2 @@ "vector*4" :> 4 @@ "vector*9" :> 9
MCAlias == "point" :> "vector*2"
MCScriptTypes == {"vector*2", "vector*4", "vector*9"}

MCUsed == {"not", "<", "==", "+", "-", "sum", "z", "w", "[]"}
MCLibrary == "sin" :> 1 @@ "pow" :> 2

External(takes, returns) == [takes |-> takes, returns |-> returns]

MCExternals ==
    "perlin" :> External(<<"point", "real">>, "!double") @@
    "rotate" :> External(<<"vector*4">>, "point") @@
    "split"  :> External(<<"boolean">>, "vector*2") @@
    "origin" :> External(<<>>, "vector*2") @@
    "lost"   :> External(<<"real">>, "nowhere") @@
    "odd"    :> External(<<"real", "nowhere">>, "boolean")
=============================================================================
