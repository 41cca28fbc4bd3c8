------------------------------ MODULE Codegen ------------------------------
(***************************************************************************)
(* The second pass over the tree, ASTNode::codegen() (calculon_ast.h), run *)
(* by Compiler::compile() on a resolved tree (calculon_compiler.h).  Every *)
(* Calculon function becomes an LLVM function that takes its upvalues as   *)
(* extra parameters, and every call passes them.                           *)
(*                                                                         *)
(* An llvm::Value is abstracted to its type and the LLVM function it is    *)
(* computed in.  The upvalues of a function are indexed by root variable:  *)
(* the type of the function, the binding of its parameters and its calls   *)
(* all follow the order of one map, so that the order itself is immaterial.*)
(***************************************************************************)
EXTENDS Resolver

(***************************************************************************)
(* The intrinsics: parameter and return types; what an argument of another *)
(* type leads to (an exception, but for [] a failed assertion and for the  *)
(* functions of the maths library nothing: the call is emitted); and       *)
(* whether a call may also be refused with another exception, or break the *)
(* compiler, in an assertion or with a malformed instruction.  Which calls *)
(* are and do depends on the sizes of vectors and on the types that are    *)
(* registered: see Calls and TypeRegistry.                                 *)
(***************************************************************************)
CONSTANT Signature

ASSUME SignatureAssumption ==
    Signature \in [GlobalCalls ->
        [params : Seq(Types), ret : Types,
         wrong : {"type mismatch", "failed", "emitted"},
         refuses : BOOLEAN, breaks : BOOLEAN]]

ASSUME UncheckedAssumption ==
    \A x \in GlobalCalls :
        Signature[x].wrong = "emitted" => Signature[x].params # <<>>

VARIABLES
    gpos,      \* how many nodes code has been generated for
    gstack,    \* the open frames
    operands,  \* values the enclosing codegen() calls hold, newest last
    values,    \* VariableSymbol::value of the symbols in locals[f]
    llvm,      \* type of the LLVM function of each function
    insert,    \* the function that the builder inserts code into
    emitted,   \* the calls emitted
    stores     \* types of the values stored to the outputs

gvars == <<gpos, gstack, operands, values, llvm, insert, emitted, stores>>
vars  == <<rvars, gvars>>

Value(f, t) == [fn |-> f, type |-> t]
Constant(t) == Value(NoFun, t)
Null        == Constant("null")       \* what codegen() of a `return' answers
Unbound     == Constant("unbound")    \* an uninitialised pointer
NotCreated  == [ret |-> "none"]

Values == [fn : Funs \cup {NoFun}, type : Types \cup {"null", "unbound"}]

(***************************************************************************)
(* Work left in a frame, besides visiting expressions.                     *)
(***************************************************************************)
Work(what, p) == [do |-> what, node |-> p]

GTop     == gstack[Len(gstack)]
GTodo    == GTop.todo
GTable   == GTop.table
GFunction == GTop.chain[Len(GTop.chain)]
GNode    == Head(GTodo).node
GRest(w) == [gstack EXCEPT ![Len(gstack)] =
                Frame(GTop.chain, GTable, w \o Tail(GTodo))]

Top      == operands[Len(operands)]
Drop(n)  == SubSeq(operands, 1, Len(operands) - n)
Taken(n) == SubSeq(operands, Len(operands) - n + 1, Len(operands))

ParamTypes(ps) == [i \in DOMAIN ps |-> ps[i].type]

\* Of two parameters with one name the last is in the symbol table.
TypeOfParam(ps, x) ==
    LET named == {i \in DOMAIN ps : ps[i].name = x}
    IN  ps[CHOOSE i \in named : \A j \in named : j <= i].type

CodegenInit ==
    /\ gpos = 0
    /\ gstack = <<>>
    /\ operands = <<>>
    /\ values = <<>>
    /\ llvm = <<>>
    /\ insert = 0
    /\ emitted = {}
    /\ stores = <<>>

(* compile() has bound the parameters of the toplevel function.            *)
BeginCodegen ==
    /\ status = "resolved"
    /\ status' = "generating"
    /\ gstack' = <<Frame(<<0>>, ToplevelTable, <<Expr>>)>>
    /\ values' = [f \in Funs |-> [v \in locals[f] |->
                    IF f = 0 /\ v \in Arguments(0, Inputs)
                    THEN Value(0, TypeOfParam(Inputs, v.name))
                    ELSE Unbound]]
    /\ llvm' = [f \in Funs |-> NotCreated]
    /\ insert' = 0
    /\ UNCHANGED <<gpos, operands, emitted, stores>>

Generating == status = "generating"

GHere == gpos + 1

Generate(ops) ==
    /\ Generating
    /\ GTodo # <<>>
    /\ Head(GTodo) = Expr
    /\ gpos < Len(script)
    /\ script[GHere].op \in ops
    /\ gpos' = GHere

Finish(whats) ==
    /\ Generating
    /\ GTodo # <<>>
    /\ Head(GTodo).do \in whats
    /\ UNCHANGED gpos

Stop(why) ==
    /\ status' = why
    /\ UNCHANGED <<gstack, operands, values, llvm, insert, emitted, stores>>

Continue(w, ops) ==
    /\ gstack' = GRest(w)
    /\ operands' = ops
    /\ UNCHANGED status

-----------------------------------------------------------------------------
(* Defects: what the definitions below would be with a plausible bug, each *)
(* of which violates a property of this module or of CodegenScope.         *)

\* A variable is read from the root symbol, not from the function's copy.
VariableFromRoot ==
    /\ Generate({"var"})
    /\ LET s == refs[GHere]
           v == IF s.kind = "var" THEN values[s.fn][s] ELSE Constant("real")
       IN  Continue(<<>>, Append(operands, v))
    /\ UNCHANGED <<values, llvm, insert, emitted, stores>>

\* The variable's symbol is not given its value.
VariableNotBound ==
    /\ Finish({"bind"})
    /\ operands' = Drop(1)
    /\ gstack' = Append(GRest(<<>>),
          Frame(GTop.chain,
                WithSymbol(GTable,
                    Variable(GFunction, GNode, script[GNode].name)),
                <<Expr>>))
    /\ UNCHANGED <<status, values, llvm, insert, emitted, stores>>

\* The function's type leaves the upvalues out.
FunctionWithoutExtra ==
    /\ Finish({"define"})
    /\ LET p  == GNode
           ps == script[p].params
       IN  /\ llvm' = [llvm EXCEPT ![p] =
                  [params |-> ParamTypes(ps), extra |-> <<>>,
                   ret |-> script[p].ret]]
           /\ gstack' = Append(GRest(<<>>),
                  Frame(Append(GTop.chain, p), WithArguments(GTable, p, ps),
                        <<Expr, [do |-> "ret", node |-> p, resume |-> insert]>>))
           /\ insert' = p
    /\ UNCHANGED <<status, operands, values, emitted, stores>>

\* The insertion point of the enclosing function is not restored.
ReturnWithoutResume ==
    /\ Finish({"ret"})
    /\ Continue(<<>>, Drop(1))
    /\ UNCHANGED <<values, llvm, insert, emitted, stores>>

\* The arguments of a call are not type-checked.
ArgumentsUnchecked(args, types, error, emit) == emit

\* An output that is not set is not noticed.
ReturnUnsetOutput ==
    /\ Generate({"return"})
    /\ LET found == [i \in DOMAIN Outputs |-> GTable[Outputs[i].name]]
           stored(s) == IF s.kind = "var" THEN values[0][s].type ELSE "real"
       IN  IF \A i \in DOMAIN Outputs : IsValued(found[i])
           THEN /\ stores' = [i \in DOMAIN Outputs |-> stored(found[i])]
                /\ Continue(<<>>, Append(operands, Null))
                /\ UNCHANGED <<values, llvm, insert, emitted>>
           ELSE Stop("crashed")

-----------------------------------------------------------------------------
GenerateConstant ==
    /\ Generate({"const"})
    /\ Continue(<<>>, Append(operands, Constant(script[GHere].type)))
    /\ UNCHANGED <<values, llvm, insert, emitted, stores>>

GenerateVariable ==
    /\ Generate({"var"})
    /\ LET s == refs[GHere]
           v == IF s.kind = "var" THEN values[GFunction][s] ELSE Constant("real")
       IN  Continue(<<>>, Append(operands, v))
    /\ UNCHANGED <<values, llvm, insert, emitted, stores>>

(* Elements of vectors must be real and conditions boolean, which is       *)
(* checked as soon as their code is generated.                             *)
GenerateOperands ==
    /\ Generate({"vector", "splat", "if"})
    /\ LET p == GHere
           n == Arity(script[p])
           w == IF script[p].op = "if"
                THEN <<Expr, Work("boolean", p), Expr, Expr, Work("merge", p)>>
                ELSE [i \in 1 .. 2 * n |-> IF i % 2 = 1 THEN Expr
                                           ELSE Work("real", p)]
                     \o <<Work("build", p)>>
       IN  Continue(w, operands)
    /\ UNCHANGED <<values, llvm, insert, emitted, stores>>

ExpectType ==
    /\ Finish({"real", "boolean"})
    /\ IF Top = Null THEN Stop("crashed")
       ELSE IF Top.type # Head(GTodo).do THEN Stop("type mismatch")
       ELSE /\ Continue(<<>>, operands)
            /\ UNCHANGED <<values, llvm, insert, emitted, stores>>

BuildVector ==
    /\ Finish({"build"})
    /\ Continue(<<>>, Append(Drop(Arity(script[GNode])),
                             Value(insert, "vector")))
    /\ UNCHANGED <<values, llvm, insert, emitted, stores>>

MergeBranches ==
    /\ Finish({"merge"})
    /\ LET r == Taken(2) IN
       IF Null \in {r[1], r[2]} THEN Stop("return in conditional")
       ELSE IF r[1].type # r[2].type THEN Stop("type mismatch")
       ELSE /\ Continue(<<>>, Append(Drop(3), Value(insert, r[1].type)))
            /\ UNCHANGED <<values, llvm, insert, emitted, stores>>

-----------------------------------------------------------------------------
GenerateLet ==
    /\ Generate({"let"})
    /\ Continue(<<Expr, Work("bind", GHere)>>, operands)
    /\ UNCHANGED <<values, llvm, insert, emitted, stores>>

BindVariable ==
    /\ Finish({"bind"})
    /\ LET n == script[GNode]
           s == Variable(GFunction, GNode, n.name)
       IN  IF Top = Null THEN Stop("return assigned")
           ELSE IF n.type \notin {Infer, Top.type} THEN Stop("type mismatch")
           ELSE /\ values' = [values EXCEPT ![GFunction][s] = Top]
                /\ operands' = Drop(1)
                /\ gstack' = Append(GRest(<<>>),
                        Frame(GTop.chain, WithSymbol(GTable, s), <<Expr>>))
                /\ UNCHANGED <<status, llvm, insert, emitted, stores>>

GenerateFunction ==
    /\ Generate({"fun"})
    /\ gstack' = Append(GRest(<<>>),
            Frame(GTop.chain,
                  WithSymbol(GTable,
                      Function(GFunction, GHere, script[GHere].name)),
                  <<Work("define", GHere), Expr>>))
    /\ UNCHANGED <<status, operands, values, llvm, insert, emitted, stores>>

(* The types of the extra parameters are those of the root variables.      *)
DefineFunction ==
    /\ Finish({"define"})
    /\ LET p     == GNode
           ps    == script[p].params
           extra == [v \in Upvalues(p) |-> values[v.fn][v].type]
       IN  /\ llvm' = [llvm EXCEPT ![p] =
                  [params |-> ParamTypes(ps), extra |-> extra,
                   ret |-> script[p].ret]]
           /\ values' = [values EXCEPT ![p] = [v \in locals[p] |->
                  IF v \in Upvalues(p) THEN Value(p, extra[v])
                  ELSE IF v \in Arguments(p, ps)
                       THEN Value(p, TypeOfParam(ps, v.name))
                  ELSE Unbound]]
           /\ gstack' = Append(GRest(<<>>),
                  Frame(Append(GTop.chain, p), WithArguments(GTable, p, ps),
                        <<Expr, [do |-> "ret", node |-> p, resume |-> insert]>>))
           /\ insert' = p
    /\ UNCHANGED <<status, operands, emitted, stores>>

ReturnValue ==
    /\ Finish({"ret"})
    /\ IF Top = Null THEN Stop("crashed")
       ELSE IF Top.type # script[GNode].ret THEN Stop("type mismatch")
       ELSE /\ Continue(<<>>, Drop(1))
            /\ insert' = Head(GTodo).resume
            /\ UNCHANGED <<values, llvm, emitted, stores>>

-----------------------------------------------------------------------------
Formals(s) ==
    IF s.kind = "fun" THEN ParamTypes(script[s.node].params)
    ELSE Signature[s.name].params

GenerateCall ==
    /\ Generate({"call"})
    /\ LET n == script[GHere].argc IN
       IF Len(Formals(refs[GHere])) # n THEN Stop("wrong number of parameters")
       ELSE /\ Continue(Exprs(n) \o <<Work("emit", GHere)>>, operands)
            /\ UNCHANGED <<values, llvm, insert, emitted, stores>>

(* typeCheckParameter() on each argument in turn: it looks at the type of  *)
(* a value, which a `return' does not have.                                *)
CheckArguments(args, types, error, emit) ==
    LET bad   == {i \in DOMAIN types : args[i].type # types[i]}
        first == CHOOSE i \in bad : \A j \in bad : i <= j
    IN  IF bad = {} THEN emit
        ELSE Stop(IF args[first] = Null THEN "crashed" ELSE error)

Emit(s, args, extra, ret) ==
    /\ emitted' = emitted \cup
          {[node |-> GNode, caller |-> insert, args |-> args, extra |-> extra]}
    /\ Continue(<<>>, Append(Drop(Len(args)), Value(insert, ret)))
    /\ UNCHANGED <<values, llvm, insert, stores>>

(* A call of a Calculon function passes the caller's copies of the         *)
(* callee's upvalues after the arguments; assert(s) fails if one is        *)
(* missing.                                                                *)
EmitFunctionCall ==
    /\ Finish({"emit"})
    /\ refs[GNode].kind = "fun"
    /\ LET s      == refs[GNode]
           callee == s.node
           args   == Taken(script[GNode].argc)
       IN  IF Upvalues(callee) \subseteq locals[GFunction]
           THEN CheckArguments(args, Formals(s), "type mismatch",
                   Emit(s, args,
                        [v \in Upvalues(callee) |-> values[GFunction][v]],
                        script[callee].ret))
           ELSE Stop("aborted")

(* The type of a value of a maths function is that of its first argument.  *)
EmitUnchecked(s, args) ==
    IF Null \in {args[i] : i \in DOMAIN args} THEN Stop("crashed")
    ELSE Emit(s, args, <<>>, args[1].type)

(* What an intrinsic refuses or breaks at may come before the types of its *)
(* arguments, or after them.                                               *)
EmitIntrinsicCall ==
    /\ Finish({"emit"})
    /\ refs[GNode].kind = "callable"
    /\ LET s    == refs[GNode]
           args == Taken(script[GNode].argc)
           sig  == Signature[s.name]
       IN  \/ sig.wrong = "emitted" /\ EmitUnchecked(s, args)
           \/ \E error \in {"type mismatch", "failed"} :
                 /\ sig.wrong = error
                 /\ CheckArguments(args, Formals(s), error, Emit(s, args, <<>>, sig.ret))
           \/ sig.refuses /\ Stop("refused")
           \/ sig.breaks /\ Stop("failed")

-----------------------------------------------------------------------------
(* `return' looks every output up by name, without importing anything, and *)
(* stores it.  A name that is a function has no value to emit.             *)
GenerateReturn ==
    /\ Generate({"return"})
    /\ LET found  == [i \in DOMAIN Outputs |-> GTable[Outputs[i].name]]
           bad    == {i \in DOMAIN Outputs : ~IsValued(found[i])}
           first  == CHOOSE i \in bad : \A j \in bad : i <= j
           stored(s) == IF s.kind = "var" THEN values[0][s].type ELSE "real"
       IN  IF bad = {}
           THEN /\ stores' = [i \in DOMAIN Outputs |-> stored(found[i])]
                /\ Continue(<<>>, Append(operands, Null))
                /\ UNCHANGED <<values, llvm, insert, emitted>>
           ELSE Stop(IF found[first].kind = "none" THEN "output not set"
                     ELSE "crashed")

CloseGeneratedFrame ==
    /\ Generating
    /\ GTodo = <<>>
    /\ UNCHANGED gpos
    /\ IF Len(gstack) > 1
       THEN /\ gstack' = SubSeq(gstack, 1, Len(gstack) - 1)
            /\ UNCHANGED <<status, operands, values, llvm, insert, emitted, stores>>
       ELSE Stop(IF operands = <<Null>> THEN "compiled" ELSE "no return")

-----------------------------------------------------------------------------
Codegen ==
    \/ BeginCodegen
    \/ GenerateConstant \/ GenerateVariable \/ GenerateOperands
    \/ ExpectType       \/ BuildVector      \/ MergeBranches
    \/ GenerateLet      \/ BindVariable
    \/ GenerateFunction \/ DefineFunction   \/ ReturnValue
    \/ GenerateCall     \/ EmitFunctionCall \/ EmitIntrinsicCall
    \/ GenerateReturn   \/ CloseGeneratedFrame

CompileInit == Init /\ CodegenInit

Compile ==
    \/ Next /\ UNCHANGED gvars
    \/ Codegen /\ UNCHANGED <<script, pos, stack, parent, locals, refs, climb>>

CompileSpec == CompileInit /\ [][Compile]_vars
FairCompileSpec == CompileSpec /\ WF_vars(Compile)

-----------------------------------------------------------------------------
Exceptions == Failures \cup
    {"type mismatch", "return in conditional", "return assigned",
     "wrong number of parameters", "output not set", "no return", "refused"}

Outcomes == Exceptions \cup {"compiled", "aborted", "crashed", "failed"}

(* Every variable of the second pass has a value of its type.              *)
CodegenTypeOK ==
    /\ status \in {"resolving", "resolved", "generating"} \cup Outcomes
    /\ gpos \in 0 .. Len(script)
    /\ operands \in Seq(Values)
    /\ insert \in Funs
    /\ \A i \in DOMAIN gstack :
          /\ gstack[i].chain \in Seq(Funs)
          /\ gstack[i].table \in Tables
          /\ \A j \in DOMAIN gstack[i].todo : gstack[i].todo[j].node \in Funs
    /\ \A f \in DOMAIN values : values[f] \in [locals[f] -> Values]
    /\ \A f \in DOMAIN llvm : llvm[f] # NotCreated =>
          /\ llvm[f].params \in Seq(Types)
          /\ DOMAIN llvm[f].extra = Upvalues(f)

(* The operands of an emitted call are constants or belong to the LLVM     *)
(* function that the call is in, whatever the nesting: so do the values    *)
(* that the symbols of a function are bound to.  A root variable of an     *)
(* outer function would make the module invalid.                           *)
OperandsLocal ==
    /\ \A e \in emitted :
          /\ \A i \in DOMAIN e.args : e.args[i].fn \in {e.caller, NoFun}
          /\ \A v \in DOMAIN e.extra : e.extra[v].fn \in {e.caller, NoFun}
    /\ \A f \in DOMAIN values : \A v \in DOMAIN values[f] :
          values[f][v].fn \in {f, NoFun}

(* Caller and callee agree: a call passes a value of the right type for    *)
(* each parameter of the callee's LLVM function, the extra ones included,  *)
(* though the function's type was assembled from other symbols than the    *)
(* caller's.                                                               *)
CallsMatchSignatures ==
    \A e \in emitted : refs[e.node].kind = "fun" =>
        LET f == llvm[refs[e.node].node] IN
        /\ f # NotCreated
        /\ [i \in DOMAIN e.args |-> e.args[i].type] = f.params
        /\ [v \in DOMAIN e.extra |-> e.extra[v].type] = f.extra

(* No uninitialised VariableSymbol::value is ever read.                    *)
NothingUnbound ==
    /\ Unbound \notin {operands[i] : i \in DOMAIN operands}
    /\ \A e \in emitted : Unbound \notin {e.extra[v] : v \in DOMAIN e.extra}
    /\ \A f \in DOMAIN llvm : llvm[f] # NotCreated =>
          "unbound" \notin {llvm[f].extra[v] : v \in DOMAIN llvm[f].extra}
    /\ "unbound" \notin {stores[i] : i \in DOMAIN stores}

(* While a function's body is generated, and again after a nested function *)
(* has been, the builder inserts into the function that getFunction()      *)
(* answers, whose copies of the variables are used.                        *)
InsertionPointAgrees ==
    Generating /\ GTodo # <<>> => insert = GFunction
=============================================================================
