--------------------------- MODULE CodegenScope ---------------------------
(***************************************************************************)
(* The whole compiler compared with the reference definitions of           *)
(* StaticScope and with the contract of CompileContract.                   *)
(***************************************************************************)
EXTENDS Codegen, StaticScope

(* assert(s) in ASTFunctionCall::codegen() fails only for a call, from a   *)
(* nested function, of a function that encloses it: there alone can the    *)
(* callee gain an upvalue after the call was resolved.  (The assertions    *)
(* inside intrinsics are another matter: they end in "failed".)            *)
AbortsOnlyOutward ==
    status = "aborted" => CallsOutward(script, GNode)

(* An intrinsic that never fails without an exception.  Not sturdy are [], *)
(* .w, external functions that return vectors and, if signatures mention   *)
(* float or double, operators.                                             *)
Sturdy(x) == Signature[x].wrong # "failed" /\ ~ Signature[x].breaks

(* The programs that the compiler either compiles or refuses: `return'     *)
(* ends the toplevel code and occurs nowhere else, no output denotes a     *)
(* function there, no nested function calls a function that encloses it,   *)
(* and every intrinsic called is sturdy.                                   *)
InTail(t, q) ==
    \A p \in 1 .. q - 1 :
        q <= LastOf(t, p - 1, 1) =>
            t[p].op \in {"let", "fun"} /\ q \in Subtree(t, p, 2)

ValueAt(t, q, i) == Denotes(t, q, Outputs[i].name)

CallsSturdy(t, q) ==
    LET s == Denotes(t, q, t[q].name)
    IN  s.kind = "callable" => Sturdy(s.name)

Plain(t) ==
    /\ \A q \in NodesOf(t, "return") :
          /\ InTail(t, q)
          /\ \A i \in DOMAIN Outputs :
                ValueAt(t, q, i).kind \notin {"fun", "callable"}
    /\ \A q \in NodesOf(t, "call") : ~CallsOutward(t, q) /\ CallsSturdy(t, q)

(* The programs in which all that `return' finds is declared with the      *)
(* type of its output; return does not compare the types.                  *)
TypeGiven(t, v) ==
    IF v.node = 0 THEN TypeOfParam(Inputs, v.name) ELSE t[v.node].type

Fits(t, s, type) ==
    CASE s.kind = "var"   -> TypeGiven(t, s) = type
      [] s.kind = "value" -> type = "real"
      [] OTHER            -> TRUE

OutputsTyped(t) ==
    \A q \in NodesOf(t, "return") : \A i \in DOMAIN Outputs :
        Fits(t, ValueAt(t, q, i), Outputs[i].type)

(* A function that stores values of other types than those of its outputs  *)
(* is malformed.                                                           *)
outcome ==
    IF status \in Exceptions THEN "exception"
    ELSE IF status \in {"aborted", "crashed", "failed"} THEN status
    ELSE IF status # "compiled" THEN "compiling"
    ELSE IF stores = ParamTypes(Outputs) THEN "function" ELSE "malformed"

Contract == INSTANCE CompileContract
                WITH plain <- Plain(script), typed <- OutputsTyped(script)

(* Compiling a script ends.  It ends with an exception or a function,      *)
(* except that a script that is not Plain may bring the compiler down and  *)
(* that the function may be malformed for one that is not OutputsTyped.    *)
KeepsContract == Contract!Spec

(* "assert(s)" in ASTFunctionCall::codegen(), with the comment in          *)
(* resolveVariables() that any upvalues that the function wants are made   *)
(* to exist in the caller: the assertion never fails.                      *)
AssertionHolds == status # "aborted"

(* doc/usage.wiki: if compiling a script fails, an exception is thrown.    *)
(* No script makes the compiler follow a null pointer.                     *)
FailsWithException == status # "crashed"

(* The null pointer is followed only where a `return' is used as an        *)
(* operand or an output is named like a function: nothing else in a        *)
(* script can crash the compiler.                                          *)
CrashesOnlyOnReturn ==
    status = "crashed" =>
        \/ \E q \in NodesOf(script, "return") : ~InTail(script, q)
        \/ /\ gpos \in NodesOf(script, "return")
           /\ \E i \in DOMAIN Outputs :
                 ValueAt(script, gpos, i).kind \in {"fun", "callable"}
=============================================================================
