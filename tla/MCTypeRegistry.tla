--------------------------- MODULE MCTypeRegistry ---------------------------
(* An instance of the type registry for TLC.                               *)
EXTENDS TypeRegistry, TLC

MCLanes == "vector" :> 3 @@ "vector*2" :> 2 @@ "vector*3" :> 3
MCAlias == "point" :> "vector*2" @@ "number" :> "!double"

MCRequests == Known \cup DOMAIN MCAlias \cup {"unknown"}
=============================================================================
