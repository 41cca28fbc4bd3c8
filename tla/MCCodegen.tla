----------------------------- MODULE MCCodegen -----------------------------
(* Instances of the whole compiler for TLC.                                *)
EXTENDS CodegenScope, ResolverScope, Trees

CONSTANTS a, b, out, g, h, plus, less, at, sine, MaxNodes

Param(x, t) == [name |-> x, type |-> t]

MCNames   == {a, b, out, g, h, plus, less, at, sine}
MCInputs  == <<Param(a, "real"), Param(b, "real")>>
MCOutputs == <<Param(out, "real")>>
MCValues  == {}
MCCalls   == {plus, less, at, sine}

Intrinsic(ps, t, wrong) ==
    [params |-> ps, ret |-> t,
     wrong |-> wrong, refuses |-> wrong = "failed", breaks |-> wrong = "failed"]

(* plus and less are + and <, sine is sin(); `at' fails in all the ways in *)
(* which [] and .x to .w do.                                               *)
MCSignature == [x \in MCCalls |->
    CASE x = plus -> Intrinsic(<<"real", "real">>, "real", "type mismatch")
      [] x = less -> Intrinsic(<<"real", "real">>, "boolean", "type mismatch")
      [] x = sine -> Intrinsic(<<"real">>, "real", "emitted")
      [] x = at   -> Intrinsic(<<"vector">>, "real", "failed")]

Var(x)        == [op |-> "var", name |-> x]
Let(x, t)     == [op |-> "let", name |-> x, type |-> t]
Fun(x, ps, t) == [op |-> "fun", name |-> x, params |-> ps, ret |-> t]
Call(x, n)    == [op |-> "call", name |-> x, argc |-> n]
Const(t)      == [op |-> "const", type |-> t]
Return        == [op |-> "return"]

(* `let out = <tree> in return', and `let out = 1 in <tree>'.              *)
Output(trees) == {<<Let(out, Infer)>> \o t \o <<Return>> : t \in trees}
InBody(trees)  == {<<Let(out, "real"), Const("real")>> \o t : t \in trees}

(* Functions with several upvalues, nested and recursive.                  *)
Capturing == {Var(a), Var(b), Call(g, 0), Fun(g, <<>>, "real"),
              Fun(h, <<Param(b, "real")>>, "real"), Call(plus, 2)}

(* Functions that capture the variables of other functions.                *)
Nesting == {Var(a), Call(g, 0), Call(h, 1), Let(a, Infer),
            Fun(g, <<>>, "real"), Fun(h, <<Param(b, "real")>>, "real")}

(* Operands, types, counts of arguments, places for `return'.              *)
Typed == {Var(a), Const("boolean"), Let(out, Infer), Let(out, "real"),
          Fun(g, <<Param(a, "vector")>>, "vector"), Fun(out, <<>>, "real"),
          Call(g, 1), Call(g, 0), Call(less, 2), Call(at, 1), Call(sine, 1), Return,
          [op |-> "if"], [op |-> "vector", argc |-> 2], [op |-> "splat"]}

MCPrograms ==
    Output(TreesOf(Capturing, MaxNodes))
        \cup Output(TreesOf(Nesting, MaxNodes - 1))
        \cup InBody(TreesOf(Typed, MaxNodes - 3))
        \cup TreesOf(Typed, MaxNodes - 4)
=============================================================================
