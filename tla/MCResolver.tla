---------------------------- MODULE MCResolver ----------------------------
(* Instances of the resolver for TLC.                                      *)
EXTENDS ResolverScope, ResolverInvariant, Trees

CONSTANTS a, b, f, k, m, MaxNodes

Real(x) == [name |-> x, type |-> "real"]

MCNames   == {a, b, f, k, m}
MCInputs  == <<Real(a), Real(b)>>
MCOutputs == <<>>
MCValues  == {k}
MCCalls   == {m}

Var(x)     == [op |-> "var", name |-> x]
Let(x)     == [op |-> "let", name |-> x, type |-> Infer]
Fun(x, ps) == [op |-> "fun", name |-> x, params |-> ps, ret |-> "real"]
Call(x, n) == [op |-> "call", name |-> x, argc |-> n]
Const      == [op |-> "const", type |-> "real"]
Vector     == [op |-> "vector", argc |-> 2]

(* Two names that shadow each other as variables, functions and parameters.*)
Shadowing == {Var(a), Var(b), Let(a), Fun(a, <<>>), Fun(b, <<Real(a)>>),
              Call(a, 0), Call(b, 1)}

(* Nested and recursive functions with several upvalues.                   *)
Capturing == {Var(a), Var(b), Call(f, 0), Fun(f, <<>>), Fun(k, <<>>), Vector}

(* Globals, operands and the failures.                                     *)
Mixed == {Var(a), Var(k), Var(m), Let(f), Fun(f, <<Real(a)>>), Const,
          Call(k, 0), Call(f, 1), Call(m, 2), [op |-> "return"],
          [op |-> "if"], Vector, [op |-> "splat"]}

MCPrograms ==
    TreesOf(Shadowing, MaxNodes - 1)
        \cup TreesOf(Capturing, MaxNodes)
        \cup TreesOf(Mixed, MaxNodes - 3)
=============================================================================
