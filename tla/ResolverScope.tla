--------------------------- MODULE ResolverScope ---------------------------
(***************************************************************************)
(* The resolver compared with the reference definitions of StaticScope.    *)
(***************************************************************************)
EXTENDS Resolver, StaticScope

(* A program is one tree (Compiler::parse_toplevel() makes the root, and   *)
(* every node of the syntax has all its operands): no list ends before     *)
(* its last subtree, or goes on after it.                                  *)
ASSUME TreesAssumption ==
    \A t \in Programs : \A p \in 0 .. Len(t) : Remaining(t)[p] = 0 <=> p = Len(t)

(* Static scoping (ASTFrame symbol tables, SymbolTable::resolve()): every  *)
(* variable and call node that was visited without an error is bound to    *)
(* the declaration that encloses it most tightly, and the pass stops with  *)
(* "unknown symbol", or the error of the wrong kind, only when the tree    *)
(* has no such declaration.                                                *)
ReferencesLexical ==
    /\ \A p \in 1 .. pos :
          refs[p] # NoRef => refs[p] = Denotes(script, p, script[p].name)
    /\ status \in {"unknown symbol", "not a variable", "not a function"} =>
          LET s == Denotes(script, pos, script[pos].name) IN
          /\ (status = "unknown symbol") <=> (s.kind = "none")
          /\ (status = "not a variable") => ~IsValued(s)
          /\ (status = "not a function") => ~IsCallable(s)

(* Closure conversion imports nothing that no call can need: each upvalue  *)
(* of a function is in the least set of StaticScope.                       *)
UpvaluesNeeded ==
    status = "resolved" =>
        \A f \in NodesOf(script, "fun") : \A v \in Upvalues(f) : Needs(script, f, v)

(* And it imports all of them, of the variables that functions mention,    *)
(* when no nested function calls out to a function still being defined.    *)
UpvaluesComplete ==
    /\ status = "resolved"
    /\ \A q \in NodesOf(script, "call") : ~CallsOutward(script, q)
    => \A f \in NodesOf(script, "fun") :
          \A v \in UNION {Mentions(script, g) : g \in NodesOf(script, "fun")} :
              Needs(script, f, v) => v \in Upvalues(f)
=============================================================================
