----------------------------- MODULE Resolver -----------------------------
(***************************************************************************)
(* The first pass over the tree, ASTNode::resolveVariables() (calculon_    *)
(* ast.h), and the closure conversion it drives, FunctionSymbol::          *)
(* importUpvalue() (calculon_symbol.h).                                    *)
(*                                                                         *)
(* The C++ recursion is unrolled: `stack' holds the open ASTFrames, each   *)
(* with its symbol table, the functions that enclose it and the work left  *)
(* to do in it; `climb' holds the activations of importUpvalue().          *)
(***************************************************************************)
EXTENDS Ast

CONSTANT Programs     \* the trees that may be compiled

ASSUME ProgramsAssumption == Programs \subseteq Seq(Nodes)

VARIABLES
    script,   \* the tree, in preorder
    pos,      \* how many of its nodes have been visited
    stack,    \* the open frames, innermost last
    parent,   \* FunctionSymbol::parent of each function
    locals,   \* keys of FunctionSymbol::locals of each function
    refs,     \* the symbol each variable and call node resolved to
    climb,    \* activations of importUpvalue(), innermost last
    status    \* how far compilation has come, or how it failed

rvars == <<script, pos, stack, parent, locals, refs, climb, status>>

Funs    == 0 .. Len(script)
NoFun   == -1
NoRef   == [kind |-> "none"]

(***************************************************************************)
(* Work left in a frame: visit the next expression, enter the body of a    *)
(* `let', enter the definition of a function, import a callee's upvalues.  *)
(***************************************************************************)
Expr      == [do |-> "expr", node |-> 0]
In(p)     == [do |-> "in", node |-> p]
Body(p)   == [do |-> "body", node |-> p]
Import(p) == [do |-> "import", node |-> p]

Items == [do : {"expr", "in", "body", "import"}, node : Nat]

Exprs(n) == [i \in 1 .. n |-> Expr]

(***************************************************************************)
(* getFrame() finds the innermost frame.  `chain' lists the functions      *)
(* whose bodies enclose the frame, so that getFunction() is its last.      *)
(***************************************************************************)
Frame(c, t, w) == [chain |-> c, table |-> t, todo |-> w]

Frames == [chain : Seq(Funs), table : Tables, todo : Seq(Items)]

TopFrame    == stack[Len(stack)]
GetFunction == TopFrame.chain[Len(TopFrame.chain)]
Table       == TopFrame.table
Todo        == TopFrame.todo

\* The frame's first work item is replaced by the items w.
Rest(w) == [stack EXCEPT ![Len(stack)] =
               Frame(TopFrame.chain, Table, w \o Tail(Todo))]

(***************************************************************************)
(* An entry of locals[f] maps a root variable to itself in the function    *)
(* that declares it, and to a copy in every other function: those are f's  *)
(* upvalues.                                                               *)
(***************************************************************************)
Upvalues(f) == {v \in locals[f] : v.fn # f}

Init ==
    /\ script \in Programs
    /\ pos = 0
    /\ stack = <<Frame(<<0>>, ToplevelTable, <<Expr>>)>>
    /\ parent = [f \in Funs |-> NoFun]
    /\ locals = [f \in Funs |-> IF f = 0 THEN Arguments(0, Inputs) ELSE {}]
    /\ refs = [p \in DOMAIN script |-> NoRef]
    /\ climb = <<>>
    /\ status = "resolving"

Resolving == status = "resolving" /\ climb = <<>>

Here == pos + 1

Visiting(ops) ==
    /\ Resolving
    /\ Todo # <<>>
    /\ Head(Todo) = Expr
    /\ pos < Len(script)
    /\ script[Here].op \in ops
    /\ pos' = Here

Working(what) ==
    /\ Resolving
    /\ Todo # <<>>
    /\ Head(Todo).do = what
    /\ UNCHANGED pos

Throw(why) ==
    /\ status' = why
    /\ UNCHANGED <<stack, parent, locals, refs, climb>>

Importing == status = "resolving" /\ climb # <<>>

Activation == climb[Len(climb)]

-----------------------------------------------------------------------------
(* Defects: what the actions below would be with a plausible bug, each of  *)
(* which violates a property of this module or of ResolverScope.           *)

\* The value of a `let' is resolved in the scope of its own variable.
LetInScopeOfItself ==
    /\ Visiting({"let"})
    /\ LET s == Variable(GetFunction, Here, script[Here].name) IN
       /\ locals' = [locals EXCEPT ![GetFunction] = @ \cup {s}]
       /\ stack' = Append(Rest(<<>>),
                      Frame(TopFrame.chain, WithSymbol(Table, s), Exprs(2)))
    /\ UNCHANGED <<script, parent, refs, climb, status>>

\* FunctionSymbol::parent is not set.
FunctionWithoutParent ==
    /\ Visiting({"fun"})
    /\ locals' = [locals EXCEPT ![Here] =
                    Arguments(Here, script[Here].params)]
    /\ LET s == Function(GetFunction, Here, script[Here].name)
       IN  stack' = Append(Rest(<<>>),
                      Frame(TopFrame.chain, WithSymbol(Table, s),
                            <<Body(Here), Expr>>))
    /\ UNCHANGED <<script, parent, refs, climb, status>>

\* A call does not import the upvalues of its callee.
CallWithoutImport ==
    /\ Visiting({"call"})
    /\ UNCHANGED script
    /\ LET s == Table[script[Here].name] IN
       /\ IsCallable(s)
       /\ refs' = [refs EXCEPT ![Here] = s]
       /\ stack' = Rest(Exprs(script[Here].argc))
       /\ UNCHANGED <<parent, locals, climb, status>>

\* The callee's own variables are imported too: no test of first != second.
ImportOwnVariables ==
    /\ Working("import")
    /\ LET callee  == refs[Head(Todo).node].node
           missing == locals[callee] \ locals[GetFunction]
       IN  \/ /\ missing = {}
              /\ stack' = Rest(<<>>)
              /\ UNCHANGED climb
           \/ /\ \E v \in missing :
                    climb' = <<[fn |-> GetFunction, var |-> v]>>
              /\ UNCHANGED stack
    /\ UNCHANGED <<script, parent, locals, refs, status>>

\* Caller and callee are exchanged.
ImportIntoCallee ==
    /\ Working("import")
    /\ LET callee  == refs[Head(Todo).node].node
           missing == Upvalues(GetFunction) \ locals[callee]
       IN  \/ /\ missing = {}
              /\ stack' = Rest(<<>>)
              /\ UNCHANGED climb
           \/ /\ \E v \in missing :
                    climb' = <<[fn |-> callee, var |-> v]>>
              /\ UNCHANGED stack
    /\ UNCHANGED <<script, parent, locals, refs, status>>

\* The function that asks gets a copy, those in between do not.
ImportWithoutRelay ==
    /\ Importing
    /\ Activation.var \in locals[Activation.fn]
    /\ climb' = <<>>
    /\ locals' = [locals EXCEPT ![climb[1].fn] = @ \cup {Activation.var}]
    /\ UNCHANGED <<script, pos, stack, parent, refs, status>>

\* The copy is made but not entered in locals.
ImportForgotten ==
    /\ Importing
    /\ Activation.var \in locals[Activation.fn]
    /\ climb' = SubSeq(climb, 1, Len(climb) - 1)
    /\ UNCHANGED <<script, pos, stack, parent, locals, refs, status>>

-----------------------------------------------------------------------------
(* Nodes with nothing of their own to resolve: they visit their operands.  *)
ResolveOperands ==
    /\ Visiting({"const", "vector", "splat", "if"})
    /\ stack' = Rest(Exprs(Arity(script[Here])))
    /\ UNCHANGED <<script, parent, locals, refs, climb, status>>

ResolveVariable ==
    /\ Visiting({"var"})
    /\ UNCHANGED script
    /\ LET s == Table[script[Here].name] IN
       \/ /\ s.kind = "none"
          /\ Throw("unknown symbol")
       \/ /\ s.kind # "none"
          /\ ~IsValued(s)
          /\ Throw("not a variable")
       \/ /\ IsValued(s)
          /\ refs' = [refs EXCEPT ![Here] = s]
          /\ climb' = IF s.kind = "var"
                      THEN <<[fn |-> GetFunction, var |-> s]>>
                      ELSE <<>>
          /\ stack' = Rest(<<>>)
          /\ UNCHANGED <<parent, locals, status>>

(* The variable is registered with its function before its value is        *)
(* resolved, but is visible only in the body.                              *)
ResolveLet ==
    /\ Visiting({"let"})
    /\ locals' = [locals EXCEPT ![GetFunction] =
                    @ \cup {Variable(GetFunction, Here, script[Here].name)}]
    /\ stack' = Rest(<<Expr, In(Here)>>)
    /\ UNCHANGED <<script, parent, refs, climb, status>>

EnterLet ==
    /\ Working("in")
    /\ LET p == Head(Todo).node
           s == Variable(GetFunction, p, script[p].name)
       IN  stack' = Append(Rest(<<>>),
                      Frame(TopFrame.chain, WithSymbol(Table, s), <<Expr>>))
    /\ UNCHANGED <<script, parent, locals, refs, climb, status>>

(* The function is visible in its own definition and in the body.          *)
ResolveFunction ==
    /\ Visiting({"fun"})
    /\ parent' = [parent EXCEPT ![Here] = GetFunction]
    /\ locals' = [locals EXCEPT ![Here] =
                    Arguments(Here, script[Here].params)]
    /\ LET s == Function(GetFunction, Here, script[Here].name)
       IN  stack' = Append(Rest(<<>>),
                      Frame(TopFrame.chain, WithSymbol(Table, s),
                            <<Body(Here), Expr>>))
    /\ UNCHANGED <<script, refs, climb, status>>

EnterBody ==
    /\ Working("body")
    /\ LET p == Head(Todo).node
       IN  stack' = Append(Rest(<<>>),
                      Frame(Append(TopFrame.chain, p),
                            WithArguments(Table, p, script[p].params),
                            <<Expr>>))
    /\ UNCHANGED <<script, parent, locals, refs, climb, status>>

ResolveCall ==
    /\ Visiting({"call"})
    /\ UNCHANGED script
    /\ LET s == Table[script[Here].name] IN
       \/ /\ s.kind = "none"
          /\ Throw("unknown symbol")
       \/ /\ s.kind # "none"
          /\ ~IsCallable(s)
          /\ Throw("not a function")
       \/ /\ IsCallable(s)
          /\ refs' = [refs EXCEPT ![Here] = s]
          /\ stack' = Rest(Exprs(script[Here].argc) \o
                           (IF s.kind = "fun" THEN <<Import(Here)>> ELSE <<>>))
          /\ UNCHANGED <<parent, locals, climb, status>>

(* The arguments are resolved: every upvalue the callee has now is         *)
(* imported into the caller, in the order of the map, that of addresses.   *)
ImportUpvalues ==
    /\ Working("import")
    /\ LET callee  == refs[Head(Todo).node].node
           missing == Upvalues(callee) \ locals[GetFunction]
       IN  \/ /\ missing = {}
              /\ stack' = Rest(<<>>)
              /\ UNCHANGED climb
           \/ /\ \E v \in missing :
                    climb' = <<[fn |-> GetFunction, var |-> v]>>
              /\ UNCHANGED stack
    /\ UNCHANGED <<script, parent, locals, refs, status>>

ResolveReturn ==
    /\ Visiting({"return"})
    /\ UNCHANGED script
    /\ \/ /\ GetFunction # 0
          /\ Throw("return outside toplevel")
       \/ /\ GetFunction = 0
          /\ stack' = Rest(<<>>)
          /\ UNCHANGED <<parent, locals, refs, climb, status>>

(* The last expression of a frame is resolved.                             *)
CloseFrame ==
    /\ Resolving
    /\ Todo = <<>>
    /\ IF Len(stack) > 1
       THEN /\ stack' = SubSeq(stack, 1, Len(stack) - 1)
            /\ UNCHANGED status
       ELSE /\ status' = "resolved"
            /\ UNCHANGED stack
    /\ UNCHANGED <<script, pos, parent, locals, refs, climb>>

-----------------------------------------------------------------------------
(* FunctionSymbol::importUpvalue().  The innermost activation either has   *)
(* the variable and returns to the function below it in the chain, which   *)
(* then makes its copy; or asks its parent; or has no parent to ask.       *)
ImportFound ==
    /\ Importing
    /\ Activation.var \in locals[Activation.fn]
    /\ climb' = SubSeq(climb, 1, Len(climb) - 1)
    /\ locals' = IF Len(climb) > 1
                 THEN [locals EXCEPT ![climb[Len(climb) - 1].fn] =
                         @ \cup {Activation.var}]
                 ELSE locals
    /\ UNCHANGED <<script, pos, stack, parent, refs, status>>

ImportFromParent ==
    /\ Importing
    /\ Activation.var \notin locals[Activation.fn]
    /\ LET up == parent[Activation.fn]
       IN  IF up = NoFun
           THEN /\ status' = "could not import"
                /\ UNCHANGED climb
           ELSE /\ climb' = Append(climb, [fn |-> up, var |-> Activation.var])
                /\ UNCHANGED status
    /\ UNCHANGED <<script, pos, stack, parent, locals, refs>>

-----------------------------------------------------------------------------
Next ==
    \/ ResolveOperands \/ ResolveVariable \/ ResolveReturn
    \/ ResolveLet      \/ EnterLet
    \/ ResolveFunction \/ EnterBody
    \/ ResolveCall     \/ ImportUpvalues
    \/ CloseFrame
    \/ ImportFound     \/ ImportFromParent

Spec == Init /\ [][Next]_rvars
FairSpec == Spec /\ WF_rvars(Next)
-----------------------------------------------------------------------------
Failures == {"unknown symbol", "not a variable", "not a function",
             "return outside toplevel", "could not import"}

(* Every variable has a value of its type.                                 *)
TypeOK ==
    /\ script \in Seq(Nodes)
    /\ pos \in 0 .. Len(script)
    /\ stack \in Seq(Frames)
    /\ stack # <<>>
    /\ \A i \in DOMAIN stack : stack[i].chain # <<>>
    /\ parent \in [Funs -> Funs \cup {NoFun}]
    /\ locals \in [Funs -> SUBSET Symbols]
    /\ refs \in [DOMAIN script -> Symbols \cup {NoRef}]
    /\ climb \in Seq([fn : Funs, var : Symbols])
    /\ status \in {"resolving", "resolved"} \cup Failures

(* Closure conversion is complete upwards, even between the steps of one   *)
(* import: a function has an upvalue only if the function around it can    *)
(* supply it, as a variable of its own or as an upvalue of its own.  It is *)
(* what makes a call's operands available where a function is created.     *)
UpvaluesChained ==
    \A f \in Funs : \A v \in Upvalues(f) :
        parent[f] # NoFun /\ v \in locals[parent[f]]

(* importUpvalue() never runs out of parents: its exception "could not     *)
(* import" is dead code, for variables and for the upvalues of callees.    *)
ImportsSucceed == status # "could not import"

(* Once its definition is resolved a function's upvalues are final: no     *)
(* later import climbs into it.  Calls outside the definition copied the   *)
(* whole list.                                                             *)
Defining(f) ==
    \/ \E i \in DOMAIN stack :
          \/ \E j \in DOMAIN stack[i].chain : stack[i].chain[j] = f
          \/ \E j \in DOMAIN stack[i].todo : stack[i].todo[j] = Body(f)
    \/ f > pos

SignaturesFinal ==
    [][\A f \in Funs : ~Defining(f) => locals'[f] = locals[f]]_rvars

(* The pass comes to an end: every import climbs a finite chain and every  *)
(* node is visited once.                                                   *)
Terminates == <>(status # "resolving")
=============================================================================
