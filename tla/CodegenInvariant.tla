------------------------- MODULE CodegenInvariant -------------------------
(***************************************************************************)
(* The inductive invariant of the second pass: it walks through the scopes *)
(* that the first pass walked through, its operands are of the functions   *)
(* they are used in, and what a scope can see has got its value.  The      *)
(* parts are about any stack, operands, values and functions, so that they *)
(* can be compared before and after a step.                                *)
(***************************************************************************)
EXTENDS Codegen, ScopeWalk

(***************************************************************************)
(* Where code is inserted.  A frame inserts into the last function of its  *)
(* chain.  If its last work item is the end of a function's body, that     *)
(* item remembers the function of the frame below; if not, the frame below *)
(* is of the same function.  So when a frame is finished the frame below   *)
(* finds the builder where it left it.                                     *)
(***************************************************************************)
LastItem(fr) == fr.todo[Len(fr.todo)]

EndsFunction(fr) == fr.todo # <<>> /\ LastItem(fr).do = "ret"

FrameShape(fr) ==
    /\ IsSeq(fr.chain) /\ IsSeq(fr.todo)
    /\ \A j \in 1 .. Len(fr.todo) : fr.todo[j].do = "ret" => j = Len(fr.todo)

Anchored(fr, below) ==
    IF EndsFunction(fr) THEN LastItem(fr).resume = FunctionOn(below)
    ELSE FunctionOn(fr) = FunctionOn(below)

InsertionOK(st, ins) ==
    /\ IsSeq(st) /\ Len(st) >= 1
    /\ \A i \in 1 .. Len(st) : FrameShape(st[i])
    /\ ~ EndsFunction(st[1])
    /\ \A i \in 2 .. Len(st) :
          Anchored(st[i], st[i - 1]) \/ (i = Len(st) /\ st[i].todo = <<>>)
    /\ ins = IF st[Len(st)].todo # <<>> \/ Len(st) = 1
             THEN FunctionOn(st[Len(st)]) ELSE FunctionOn(st[Len(st) - 1])

Inserting ==
    /\ script \in Seq(Nodes) /\ gpos \in Nat
    /\ Generating => InsertionOK(gstack, insert)

-----------------------------------------------------------------------------
(* What an item takes from the operands, and what it has left when its     *)
(* frame goes on.                                                          *)
Takes(e) ==
    IF e.do \in {"real", "boolean", "bind", "ret"} THEN 1
    ELSE IF e.do = "merge" THEN 3
    ELSE IF e.do = "build" THEN Arity(script[e.node])
    ELSE IF e.do = "emit" THEN script[e.node].argc
    ELSE 0

Leaves(e) == IF e.do \in {"define", "ret"} THEN 0 ELSE 1

(* From so many operands to so many, none of the first c being taken.      *)
Effects(c) ==
    {z \in Tasks \X Nat \X Nat :
        z[2] >= c + Takes(z[1]) /\ z[3] = z[2] - Takes(z[1]) + Leaves(z[1])}

Local(o, fr) == o.fn \in {FunctionOn(fr), NoFun}

(* The operands of frame i are those after e[i], up to e[i + 1]; when the  *)
(* frame is done there are h[i], at most one of them its own, which the    *)
(* frame below then has.                                                   *)
Under(st, ops, e, h) ==
    /\ e \in [1 .. Len(st) -> Nat] /\ h \in [1 .. Len(st) -> Nat]
    /\ e[1] = 0
    /\ \A i, j \in 1 .. Len(st) : i <= j => e[i] <= e[j]
    /\ \A i \in 1 .. Len(st) : h[i] \in {e[i], e[i] + 1}
    /\ \A i \in 2 .. Len(st) :
          /\ Threads(Effects(e[i - 1]), st[i - 1].todo, h[i], h[i - 1])
          /\ \A k \in e[i - 1] + 1 .. e[i] : Local(ops[k], st[i - 1])
          /\ h[i] # e[i] => FunctionOn(st[i]) = FunctionOn(st[i - 1])

Holding(st, ops) ==
    \E e, h :
        /\ Under(st, ops, e, h)
        /\ e[Len(st)] <= Len(ops)
        /\ Threads(Effects(e[Len(st)]), st[Len(st)].todo, Len(ops), h[Len(st)])
        /\ \A k \in e[Len(st)] + 1 .. Len(ops) : Local(ops[k], st[Len(st)])

OperandsOK(ops) ==
    /\ ops \in Seq(Values)
    /\ \A k \in 1 .. Len(ops) : ops[k].type # "unbound"

-----------------------------------------------------------------------------
(* Definitions that are still to be made, each once.                       *)
Defines(e) == e.do \in {"bind", "define"}

Once(st) ==
    \A i, k \in 1 .. Len(st) :
        \A j \in 1 .. Len(st[i].todo), l \in 1 .. Len(st[k].todo) :
            Defines(st[i].todo[j]) /\ Defines(st[k].todo[l])
            /\ st[i].todo[j].node = st[k].todo[l].node => i = k /\ j = l

Bound(vals, f, v) == vals[f][v].type # "unbound"

Created(fns, f) == f = 0 \/ fns[f] # NotCreated

(* Items are about nodes of their kind that have been visited; what they   *)
(* define has not been defined.                                            *)
Ready(e, p, vals, fns) ==
    /\ IF e.do = "expr" THEN e = Expr ELSE e.node \in 1 .. p
    /\ e.do = "bind" => /\ script[e.node].op = "let"
                        /\ \A f \in Funs : \A v \in locals[f] :
                              v.node = e.node => ~ Bound(vals, f, v)
    /\ e.do = "define" => script[e.node].op = "fun" /\ ~ Created(fns, e.node)
    /\ e.do = "ret" => script[e.node].op = "fun"
    /\ e.do = "build" => script[e.node].op \in {"vector", "splat"}
    /\ e.do = "emit" => /\ script[e.node].op = "call"
                        /\ Len(Formals(refs[e.node])) = script[e.node].argc

ReadyStack(st, p, vals, fns) ==
    \A sc, e : InWork(st, sc, e) => Ready(e, p, vals, fns)

AboutToDefine(st, f) ==
    st[Len(st)].todo # <<>> /\ st[Len(st)].todo[1] = Work("define", f)

(* Everything that a scope can see has its value, in all functions around  *)
(* it; the functions that it can call have been created.                   *)
VariablesSettled(sc, vals, fns) ==
    \A n \in 1 .. Len(sc.chain) :
        /\ sc.chain[n] \in Funs /\ Created(fns, sc.chain[n])
        /\ \A v \in sc.seen : v \in locals[sc.chain[n]] => Bound(vals, sc.chain[n], v)

FunctionsSettled(sc, st, fns) ==
    \A x \in Names : sc.table[x].kind = "fun" =>
        /\ sc.table[x].node \in Funs
        /\ Created(fns, sc.table[x].node) \/ AboutToDefine(st, sc.table[x].node)

Settled(sc, st, vals, fns) ==
    VariablesSettled(sc, vals, fns) /\ FunctionsSettled(sc, st, fns)

SettledStack(st, vals, fns) ==
    \A i \in 1 .. Len(st) : Settled(ScopeOf(st, i), st, vals, fns)

(* Copies have the type of the root variable, and belong to the function   *)
(* that has them.                                                          *)
ValueAgrees(f, v, p, vals, fns) ==
    /\ vals[f][v].fn \in {f, NoFun}
    /\ Bound(vals, f, v) => /\ Created(fns, f) /\ v.node \in 0 .. p
                            /\ vals[f][v].type = vals[v.fn][v].type

ValuesAgree(p, vals, fns) ==
    /\ vals = [f \in Funs |-> vals[f]]
    /\ \A f \in Funs : /\ vals[f] \in [locals[f] -> Values]
                       /\ \A v \in locals[f] : ValueAgrees(f, v, p, vals, fns)

FunctionAgrees(f, p, vals, fns) ==
    /\ f \in 1 .. p /\ script[f].op = "fun"
    /\ fns[f].params = ParamTypes(script[f].params)
    /\ fns[f].extra = [v \in Upvalues(f) |-> vals[v.fn][v].type]
    /\ \A v \in Upvalues(f) : Bound(vals, v.fn, v)

FunctionsAgree(p, vals, fns) ==
    /\ fns = [f \in Funs |-> fns[f]]
    /\ \A f \in Funs : fns[f] # NotCreated => FunctionAgrees(f, p, vals, fns)

(* Calls that have been emitted.                                           *)
CallAgrees(c, fns) ==
    /\ \A i \in DOMAIN c.args : c.args[i].fn \in {c.caller, NoFun}
    /\ \A v \in DOMAIN c.extra : c.extra[v].fn \in {c.caller, NoFun}
                                 /\ c.extra[v].type # "unbound"
    /\ refs[c.node].kind = "fun" =>
          LET f == refs[c.node].node IN
          /\ f \in Funs /\ fns[f] # NotCreated
          /\ [i \in DOMAIN c.args |-> c.args[i].type] = fns[f].params
          /\ [v \in DOMAIN c.extra |-> c.extra[v].type] = fns[f].extra

Made(em, sts, fns) ==
    /\ \A c \in em : CallAgrees(c, fns)
    /\ \A i \in DOMAIN sts : sts[i] # "unbound"

-----------------------------------------------------------------------------
HandedOver ==
    /\ script \in Seq(Nodes)
    /\ pos \in 0 .. Len(script)
    /\ locals \in [Funs -> SUBSET Symbols]
    /\ refs \in [DOMAIN script -> Symbols \cup {NoRef}]
    /\ climb = <<>>
    /\ Walk[pos] = <<>>
    /\ Recorded

GeneratedSo(st, p, ops, vals, fns, em, sts) ==
    /\ p \in 0 .. Len(script)
    /\ st \in Stacks
    /\ StandsHome(st, p)
    /\ Holding(st, ops)
    /\ OperandsOK(ops)
    /\ Once(st)
    /\ ReadyStack(st, p, vals, fns)
    /\ SettledStack(st, vals, fns)
    /\ ValuesAgree(p, vals, fns)
    /\ FunctionsAgree(p, vals, fns)
    /\ Made(em, sts, fns)

Generated ==
    HandedOver /\ GeneratedSo(gstack, gpos, operands, values, llvm, emitted, stores)

Sound == CodegenTypeOK /\ OperandsLocal /\ CallsMatchSignatures /\ NothingUnbound

(* The inductive invariant, together with Inductive and InStep while names *)
(* are resolved and with Inserting.                                        *)
BothPasses ==
    /\ Sound
    /\ status \in {"resolving", "resolved"} => Inductive /\ InStep /\ CodegenInit
    /\ Generating => Generated
=============================================================================
