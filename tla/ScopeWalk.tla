----------------------------- MODULE ScopeWalk -----------------------------
(***************************************************************************)
(* Where each node of a tree is: the scopes in which the nodes are         *)
(* resolved and generated, defined on the tree alone, and what the first   *)
(* pass leaves behind for the second.  Both passes visit the nodes in the  *)
(* order of the list, so that both go through the same lists of scopes.    *)
(***************************************************************************)
EXTENDS ResolverInvariant, AnySequence

(* A scope: the functions around it, what names mean in it, and the        *)
(* variables that have been declared around it, shadowed or not.           *)
Scope(c, t, s) == [chain |-> c, table |-> t, seen |-> s]

Scopes == [chain : Seq(Nat) \ {<<>>}, table : Tables, seen : SUBSET Symbols]

Innermost(sc) == sc.chain[Len(sc.chain)]

(* The scope of the body of the `let' p, of what follows the definition of *)
(* function p, and of that definition.                                     *)
LetScope(sc, p) ==
    LET v == Variable(Innermost(sc), p, script[p].name)
    IN  Scope(sc.chain, WithSymbol(sc.table, v), sc.seen \cup {v})

NamedScope(sc, p) ==
    Scope(sc.chain,
          WithSymbol(sc.table, Function(Innermost(sc), p, script[p].name)),
          sc.seen)

BodyScope(sc, p) ==
    Scope(Append(sc.chain, p), WithArguments(sc.table, p, script[p].params),
          sc.seen \cup Arguments(p, script[p].params))

(* The scopes of the subtrees of node p, which is in scope sc.             *)
Subscopes(sc, p) ==
    IF script[p].op = "let" THEN <<sc, LetScope(sc, p)>>
    ELSE IF script[p].op = "fun"
         THEN <<BodyScope(NamedScope(sc, p), p), NamedScope(sc, p)>>
    ELSE [i \in 1 .. Arity(script[p]) |-> sc]

(* The scopes of the subtrees still to be visited, the next one last.      *)
Visit(w, p) ==
    LET n    == Len(w)
        subs == Subscopes(w[n], p)
    IN  IF w = <<>> THEN <<>>
        ELSE [k \in 1 .. n - 1 + Len(subs) |->
                 IF k < n THEN w[k] ELSE subs[n + Len(subs) - k]]

Toplevel == Scope(<<0>>, ToplevelTable, Arguments(0, Inputs))

(* Walk[p]: after p nodes have been visited.                               *)
Walk[p \in 0 .. Len(script)] ==
    IF p = 0 THEN <<Toplevel>> ELSE Visit(Walk[p - 1], p)

Reached(p) == Walk[p - 1] # <<>>

ScopeAt(p) == Walk[p - 1][Len(Walk[p - 1])]

-----------------------------------------------------------------------------
(* Static scoping, as far as the compiler relies on it: what can be seen   *)
(* belongs to the functions around, and a function around sees what was    *)
(* declared outside it, as does a function that can be called.             *)
ChainScoped(c, p) ==
    /\ c # <<>> /\ c[1] = 0
    /\ \A n \in 1 .. Len(c) : c[n] \in 0 .. p
    /\ \A m, n \in 1 .. Len(c) : m < n => c[m] < c[n]
    /\ \A n \in 2 .. Len(c) : Reached(c[n]) /\ script[c[n]].op = "fun"

SeenScoped(c, v, p) ==
    /\ v \in Symbols /\ v.kind = "var" /\ v.node \in 0 .. p
    /\ \E n \in 1 .. Len(c) : c[n] = v.fn
    /\ \A n \in 2 .. Len(c) : v.fn < c[n] => v \in ScopeAt(c[n]).seen

NameScoped(sc, s, p) ==
    /\ s.kind = "var" => s \in sc.seen
    /\ s.kind = "fun" =>
          /\ s.node \in 1 .. p /\ script[s.node].op = "fun" /\ Reached(s.node)
          /\ ScopeAt(s.node).seen \subseteq sc.seen
    /\ s.kind = "callable" => s.name \in GlobalCalls

ScopeOK(sc, p) ==
    /\ ChainScoped(sc.chain, p)
    /\ \A v \in sc.seen : SeenScoped(sc.chain, v, p)
    /\ \A x \in Names : NameScoped(sc, sc.table[x], p)

WalkOK ==
    \A p \in 0 .. Len(script) :
        \A k \in 1 .. Len(Walk[p]) : ScopeOK(Walk[p][k], p)

-----------------------------------------------------------------------------
(* The frames of a pass, compared with the walk.  Items that wait for a    *)
(* subtree to be visited are matched with the scopes of the walk, one by   *)
(* one, from the innermost frame outwards.                                 *)
Seen(st, i) ==
    {v \in UNION {{st[j].table[x] : x \in Names} : j \in 1 .. i} :
        v.kind = "var"}

ScopeOf(st, i) == Scope(st[i].chain, st[i].table, Seen(st, i))

Waits(e) == e.do \in {"expr", "in", "bind", "body", "define"}

Awaited(sc, e) ==
    IF e.do = "expr" THEN sc
    ELSE IF e.do \in {"in", "bind"} THEN LetScope(sc, e.node)
    ELSE BodyScope(sc, e.node)

Doings == {"expr", "in", "body", "import", "real", "boolean", "build", "merge",
           "bind", "define", "emit", "ret"}

Tasks == [do : Doings, node : Nat] \cup [do : Doings, node : Nat, resume : Nat]

\* The function a frame belongs to.
FunctionOn(fr) == fr.chain[Len(fr.chain)]

AnyFrames == [chain : Seq(Nat) \ {<<>>}, table : Tables, todo : Seq(Tasks)]

Stacks == Seq(AnyFrames) \ {<<>>}

(* From position b of the walk w to position a: item e in a frame of       *)
(* scope sc.                                                               *)
Positions(w, sc) ==
    {z \in Tasks \X Nat \X Nat :
        IF Waits(z[1]) THEN z[2] = z[3] + 1 /\ w[z[2]] = Awaited(sc, z[1])
        ELSE z[2] = z[3]}

Standing(st, w) ==
    \E b \in [0 .. Len(st) -> Nat] :
        /\ b[0] = 0 /\ b[Len(st)] = Len(w)
        /\ \A i, j \in 0 .. Len(st) : i <= j => b[i] <= b[j]
        /\ \A i \in 1 .. Len(st) :
              Threads(Positions(w, ScopeOf(st, i)), st[i].todo, b[i], b[i - 1])

(* An item is left in the frame of the node it is about.                   *)
AtHome(sc, e) ==
    /\ e.do # "expr" => e.node \in 1 .. Len(script) /\ Reached(e.node)
    /\ e.do \in {"in", "import", "bind", "real", "boolean", "build", "merge", "emit"} =>
          sc = ScopeAt(e.node)
    /\ e.do = "import" => script[e.node].op = "call"
    /\ e.do \in {"body", "define"} => sc = NamedScope(ScopeAt(e.node), e.node)
    /\ e.do = "ret" =>
          sc = BodyScope(NamedScope(ScopeAt(e.node), e.node), e.node)

HomeStack(st) ==
    \A i \in 1 .. Len(st) : \A j \in 1 .. Len(st[i].todo) :
        AtHome(ScopeOf(st, i), st[i].todo[j])

StandsHome(st, p) == Standing(st, Walk[p]) /\ HomeStack(st)

(* The items of a stack, each with the scope of its frame.                 *)
InWork(st, sc, e) ==
    \E i \in 1 .. Len(st) : \E j \in 1 .. Len(st[i].todo) :
        sc = ScopeOf(st, i) /\ e = st[i].todo[j]

-----------------------------------------------------------------------------
(* What the first pass has recorded of node p, which is n and in scope sc, *)
(* in the locals l, in its reference r and in the activations c.           *)
Records(sc, n, p, l, r, c) ==
    /\ \A v \in sc.seen : v \in l[v.fn]
    /\ n.op = "var" =>
          /\ r = sc.table[n.name] /\ IsValued(r)
          /\ r.kind = "var" =>
                \/ r \in l[Innermost(sc)]
                \/ c # <<>> /\ c[1] = [fn |-> Innermost(sc), var |-> r]
    /\ n.op = "call" => r = sc.table[n.name] /\ IsCallable(r)
    /\ n.op = "let" => Variable(Innermost(sc), p, n.name) \in l[Innermost(sc)]
    /\ n.op = "fun" => Arguments(p, n.params) \subseteq l[p]
    /\ n.op = "return" => Innermost(sc) = 0

Resolved(p) ==
    Reached(p) /\ Records(ScopeAt(p), script[p], p, locals, refs[p], climb)

(* A variable is a local of the function that declares it and of those     *)
(* that it was declared around.                                            *)
MayHold(f, v) ==
    /\ v.kind = "var"
    /\ v.fn = f \/ (f \in 1 .. Len(script) /\ Reached(f) /\ v \in ScopeAt(f).seen)

LocalsScoped == \A f \in Funs : \A v \in locals[f] : MayHold(f, v)

Recorded ==
    /\ \A p \in 1 .. pos : Resolved(p)
    /\ LocalsScoped
    /\ \A v \in Arguments(0, Inputs) : v \in locals[0]

(* A variable that is imported can be seen where the import was asked for, *)
(* and the functions that the import has passed do not have it.            *)
ClimbScoped ==
    climb # <<>> =>
        /\ climb[1].var \in Seen(stack, Len(stack))
        /\ \E p \in 1 .. pos : Reached(p) /\ ScopeOf(stack, Len(stack)) = ScopeAt(p)
        /\ \A n \in 1 .. Len(climb) - 1 : climb[1].var \notin locals[climb[n].fn]

InStep ==
    /\ Standing(stack, Walk[pos])
    /\ HomeStack(stack)
    /\ ClimbScoped
    /\ Recorded
    /\ status = "resolved" => Len(stack) = 1 /\ Todo = <<>> /\ climb = <<>>
=============================================================================
