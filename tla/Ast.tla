------------------------------- MODULE Ast -------------------------------
(***************************************************************************)
(* The vocabulary of Calculon's abstract syntax trees and symbols          *)
(* (include/calculon_ast.h, include/calculon_symbol.h), shared by the two  *)
(* passes of the compiler.                                                 *)
(*                                                                         *)
(* A tree is its preorder list of nodes: both passes walk the tree in that *)
(* order, every node names the number of its subtrees (Arity), so that the *)
(* list determines the tree.  The position of a node in the list is its    *)
(* identity; position 0 stands for the toplevel function.                  *)
(*                                                                         *)
(* There is one vector type: vectors of all sizes are "vector", and a      *)
(* literal has whatever size its type check wants.  TypeRegistry tells     *)
(* the sizes apart.                                                        *)
(***************************************************************************)
EXTENDS Integers, Sequences, FiniteSets

CONSTANTS
    Names,        \* identifiers
    Inputs,       \* the parameters of the toplevel function, a sequence
    Outputs,      \* the output values of the toplevel function, a sequence
    GlobalValues, \* names of the constants registered in the symbol table
    GlobalCalls   \* names of the intrinsics registered in the symbol table

Types == {"real", "boolean", "vector"}
Infer == "inferred"               \* `let x = ...`: type is NULL

Params == [name : Names, type : Types]

Nodes ==
         [op : {"const"}, type : Types]
    \cup [op : {"var"}, name : Names]
    \cup [op : {"let"}, name : Names, type : Types \cup {Infer}]
    \cup [op : {"fun"}, name : Names, params : Seq(Params), ret : Types]
    \cup [op : {"call"}, name : Names, argc : Nat]
    \cup [op : {"vector"}, argc : Nat]
    \cup [op : {"splat"}]
    \cup [op : {"if"}]
    \cup [op : {"return"}]

Arity(n) ==
    CASE n.op \in {"const", "var", "return"} -> 0
      [] n.op = "splat"                      -> 1
      [] n.op \in {"let", "fun"}             -> 2
      [] n.op = "if"                         -> 3
      [] n.op \in {"call", "vector"}         -> n.argc

ParamNames(ps) == {ps[i].name : i \in DOMAIN ps}

(***************************************************************************)
(* Symbols.  A variable is identified by the function that declares it     *)
(* (VariableSymbol::function), the node that creates it and its name; a    *)
(* function by the node that defines it.  A registered constant is a       *)
(* "value", an intrinsic a "callable", and "none" is what resolve()        *)
(* answers for an unknown name.                                            *)
(***************************************************************************)
Kinds == {"var", "fun", "value", "callable", "none"}

Symbols == [kind : Kinds, fn : Nat, node : Nat, name : Names]

Variable(f, p, x) == [kind |-> "var", fn |-> f, node |-> p, name |-> x]
Function(f, p, x) == [kind |-> "fun", fn |-> f, node |-> p, name |-> x]

Global(x) ==
    [kind |-> CASE x \in GlobalValues -> "value"
                [] x \in GlobalCalls  -> "callable"
                [] OTHER              -> "none",
     fn |-> 0, node |-> 0, name |-> x]

IsValued(s)   == s.kind \in {"var", "value"}
IsCallable(s) == s.kind \in {"fun", "callable"}

(***************************************************************************)
(* A symbol table and the tables it is chained to are modelled by what     *)
(* resolve() answers through the chain: a function from names to symbols.  *)
(***************************************************************************)
Tables == [Names -> Symbols]

WithSymbol(t, s) == [t EXCEPT ![s.name] = s]

WithArguments(t, f, ps) ==
    [x \in Names |-> IF x \in ParamNames(ps) THEN Variable(f, f, x) ELSE t[x]]

ToplevelTable == WithArguments([x \in Names |-> Global(x)], 0, Inputs)

Arguments(f, ps) == {Variable(f, f, x) : x \in ParamNames(ps)}

ASSUME InputsAssumption == Inputs \in Seq(Params)
ASSUME OutputsAssumption == Outputs \in Seq(Params)
ASSUME GlobalsAssumption ==
    GlobalValues \subseteq Names /\ GlobalCalls \subseteq Names
=============================================================================
