------------------------- MODULE ResolverInvariant -------------------------
(***************************************************************************)
(* The inductive invariant of the resolver: why importUpvalue() always     *)
(* finds the variable.  A symbol that a frame can see belongs to one of    *)
(* the functions that enclose the frame, and parent pointers lead from     *)
(* each of these to the next.                                              *)
(***************************************************************************)
EXTENDS Resolver

(* The parents of a frame's function are the functions around it.          *)
ChainOK(c) ==
    /\ c # <<>>
    /\ c[1] = 0
    /\ \A n \in DOMAIN c : c[n] <= pos
    /\ \A n \in 2 .. Len(c) : parent[c[n]] = c[n - 1]

OnChain(c, f) == \E n \in DOMAIN c : c[n] = f

VisibleFrom(c, s) ==
    /\ s.kind = "var" => OnChain(c, s.fn) /\ s \in locals[s.fn]
    /\ s.kind = "fun" => /\ OnChain(c, s.fn)
                         /\ s.node \in 1 .. pos
                         /\ parent[s.node] = s.fn

ItemOK(c, w) ==
    /\ w.do = "in" =>
         /\ w.node \in 1 .. pos
         /\ script[w.node].op = "let"
         /\ Variable(c[Len(c)], w.node, script[w.node].name)
               \in locals[c[Len(c)]]
    /\ w.do = "body" =>
         /\ w.node \in 1 .. pos
         /\ script[w.node].op = "fun"
         /\ parent[w.node] = c[Len(c)]
         /\ Arguments(w.node, script[w.node].params) \subseteq locals[w.node]
    /\ w.do = "import" =>
         /\ w.node \in 1 .. pos
         /\ refs[w.node] \in Symbols
         /\ refs[w.node].kind = "fun"
         /\ VisibleFrom(c, refs[w.node])

FrameOK(fr) ==
    /\ ChainOK(fr.chain)
    /\ \A x \in Names : VisibleFrom(fr.chain, fr.table[x])
    /\ \A j \in DOMAIN fr.todo : ItemOK(fr.chain, fr.todo[j])

(* importUpvalue() climbs the chain of the innermost frame, and has not    *)
(* passed the innermost function that has the variable.                    *)
ClimbOK ==
    LET c == TopFrame.chain IN
    /\ Len(climb) <= Len(c)
    /\ \A n \in DOMAIN climb :
          /\ climb[n].fn = c[Len(c) + 1 - n]
          /\ climb[n].var = climb[1].var
    /\ climb # <<>> =>
          \E n \in 1 .. Len(c) + 1 - Len(climb) : climb[1].var \in locals[c[n]]

(* The inductive invariant (ASTFrame::symbolTable, FunctionSymbol::parent, *)
(* FunctionSymbol::locals and the activations of importUpvalue()).         *)
Inductive ==
    /\ TypeOK
    /\ parent[0] = NoFun
    /\ \A f \in Funs : f > pos => locals[f] = {}
    /\ \A i \in DOMAIN stack : FrameOK(stack[i])
    /\ ClimbOK
    /\ UpvaluesChained
    /\ ImportsSucceed
=============================================================================
