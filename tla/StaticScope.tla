---------------------------- MODULE StaticScope ----------------------------
(***************************************************************************)
(* What the language promises about names, stated on the tree alone: the   *)
(* declarations of static scoping and the least sets of upvalues that      *)
(* closure conversion needs.  Nothing here is the compiler's: it is the    *)
(* reference the resolver is compared with.                                *)
(***************************************************************************)
EXTENDS Ast, FiniteSetsExt

(* How many subtrees are still to be read when p nodes of the tree t have  *)
(* been: each node is one of them, and announces its own.                  *)
Remaining(t) ==
    LET left[p \in 0 .. Len(t)] ==
            IF p = 0 THEN 1 ELSE left[p - 1] - 1 + Arity(t[p])
    IN  left

(* The last position of the k trees that follow position p of the tree t.  *)
LastOf(t, p, k) ==
    LET left == Remaining(t)
        read == {q \in p .. Len(t) : left[q] <= left[p] - k}
    IN  IF read = {} THEN Len(t) ELSE Min(read)

Subtree(t, p, k) ==          \* positions of the k-th subtree of node p
    LastOf(t, p, k - 1) + 1 .. LastOf(t, p, k)

NodesOf(t, op) == {p \in DOMAIN t : t[p].op = op}

(* A `let' declares its variable in its body; a function is declared in    *)
(* its own definition and in the body, its parameters in the definition.   *)
Definition(t, f) == IF f = 0 THEN DOMAIN t ELSE Subtree(t, f, 1)

EnclosingFuns(t, q) ==
    {0} \cup {f \in NodesOf(t, "fun") : q \in Definition(t, f)}

FunctionAt(t, q) == Max(EnclosingFuns(t, q))

DeclaresVar(t, p, q, x) ==
    \/ /\ t[p].op = "let"
       /\ t[p].name = x
       /\ q \in Subtree(t, p, 2)
    \/ /\ t[p].op = "fun"
       /\ x \in ParamNames(t[p].params)
       /\ q \in Subtree(t, p, 1)

DeclaresFun(t, p, q, x) ==
    /\ t[p].op = "fun"
    /\ t[p].name = x
    /\ q \in Subtree(t, p, 1) \cup Subtree(t, p, 2)

Declares(t, p, q, x) == DeclaresVar(t, p, q, x) \/ DeclaresFun(t, p, q, x)

(* The declaration that the name x denotes at position q: the innermost.   *)
Denotes(t, q, x) ==
    LET around == {p \in DOMAIN t : Declares(t, p, q, x)}
        p      == Max(around)
    IN  IF around = {} THEN ToplevelTable[x]
        ELSE IF ~DeclaresVar(t, p, q, x)
             THEN Function(FunctionAt(t, p), p, x)
        ELSE IF t[p].op = "fun" THEN Variable(p, p, x)
        ELSE Variable(FunctionAt(t, p), p, x)

-----------------------------------------------------------------------------
(* The upvalues of a function: the variables, declared outside its own     *)
(* definition, that the definition mentions or that a function which it    *)
(* calls has as an upvalue; no others.                                     *)
Mentions(t, f) ==
    {s \in {Denotes(t, q, t[q].name) :
                q \in NodesOf(t, "var") \cap Definition(t, f)} :
        s.kind = "var"}

Callees(t, f) ==
    {s.node : s \in {d \in {Denotes(t, q, t[q].name) :
                              q \in NodesOf(t, "call") \cap Definition(t, f)} :
                        d.kind = "fun"}}

DeclaredOutside(t, f, v) == f \notin EnclosingFuns(t, v.node) \cup {v.fn}

(* The functions that need v are the least set G such that Supplies(t, G,  *)
(* v): those in all such sets.                                             *)
Supplies(t, G, v) ==
    \A f \in NodesOf(t, "fun") \ G :
        DeclaredOutside(t, f, v) => /\ v \notin Mentions(t, f)
                                    /\ Callees(t, f) \cap G = {}

Needs(t, f, v) ==
    \A G \in SUBSET NodesOf(t, "fun") : Supplies(t, G, v) => f \in G

(* A call, from inside a nested function, of a function whose definition   *)
(* is still open: the callee strictly encloses the caller.                 *)
CallsOutward(t, q) ==
    LET s == Denotes(t, q, t[q].name) IN
    /\ s.kind = "fun"
    /\ s.node \in EnclosingFuns(t, q)
    /\ s.node # FunctionAt(t, q)
=============================================================================
