--------------------------- MODULE ResolverProofs ---------------------------
(***************************************************************************)
(* Proofs about the resolver, for every set of programs: it is type-       *)
(* correct, its closure conversion is complete upwards, and importUpvalue()*)
(* always finds the variable it is asked for.  It goes through the scopes  *)
(* of ScopeWalk, and records what the second pass relies on.  These scopes *)
(* are those of StaticScope, and the upvalues are its least sets.          *)
(***************************************************************************)
EXTENDS ScopeWalk, ResolverScope, SequenceTheorems, TLAPS

USE InputsAssumption, ProgramsAssumption DEF NoFun

-----------------------------------------------------------------------------
(* Nodes have the fields of their kind.                                    *)
LEMMA NodeFields ==
    ASSUME NEW n \in Nodes
    PROVE  /\ n.op \in {"var", "let", "fun", "call"} => n.name \in Names
           /\ n.op = "fun" => n.params \in Seq(Params)
           /\ n.op \in {"call", "vector"} => n.argc \in Nat
           /\ Arity(n) \in Nat
    BY DEF Nodes, Arity

(* Parameter names are identifiers.                                        *)
LEMMA ParamNamesType ==
    ASSUME NEW ps \in Seq(Params) PROVE ParamNames(ps) \subseteq Names
<1> SUFFICES ASSUME NEW i \in DOMAIN ps PROVE ps[i].name \in Names
    BY DEF ParamNames
<1>1. ps[i] \in Params
    BY LenProperties, ElementOfSeq
<1> QED BY <1>1 DEF Params

(* Symbol tables stay tables when symbols are added to them.               *)
LEMMA TableType ==
    ASSUME NEW t \in Tables
    PROVE  /\ \A s \in Symbols : WithSymbol(t, s) \in Tables
           /\ \A f \in Nat, ps \in Seq(Params) :
                 WithArguments(t, f, ps) \in Tables
    BY ParamNamesType
       DEF Tables, WithSymbol, WithArguments, Symbols, Variable, Kinds

LEMMA ToplevelTableType == ToplevelTable \in Tables
<1>1. \A x \in Names : Global(x) \in Symbols
    BY DEF Global, Symbols, Kinds
<1>2. [x \in Names |-> Global(x)] \in Tables
    BY <1>1 DEF Tables
<1> QED BY <1>2, TableType DEF ToplevelTable

LEMMA ArgumentsType ==
    ASSUME NEW f \in Nat, NEW ps \in Seq(Params)
    PROVE  Arguments(f, ps) \subseteq Symbols
    BY ParamNamesType DEF Arguments, Variable, Symbols, Kinds

(* Replacing the head of a list by the list w.                             *)
Spliced(w, t) == w \o Tail(t)

LEMMA Splice ==
    ASSUME NEW S, NEW w \in Seq(S), NEW t \in Seq(S), t # <<>>
    PROVE  /\ Spliced(w, t) \in Seq(S)
           /\ \A j \in DOMAIN Spliced(w, t) :
                 \/ \E k \in DOMAIN w : Spliced(w, t)[j] = w[k]
                 \/ \E k \in DOMAIN t : Spliced(w, t)[j] = t[k]
<1>1. /\ Tail(t) \in Seq(S)
      /\ Len(Tail(t)) = Len(t) - 1
      /\ \A k \in 1 .. Len(Tail(t)) : Tail(t)[k] = t[k + 1]
    BY HeadTailProperties
<1>2. /\ w \o Tail(t) \in Seq(S)
      /\ Len(w \o Tail(t)) = Len(w) + Len(Tail(t))
      /\ \A i \in 1 .. Len(w) + Len(Tail(t)) :
            (w \o Tail(t))[i] = IF i <= Len(w) THEN w[i]
                                ELSE Tail(t)[i - Len(w)]
    BY <1>1, ConcatProperties
<1>3. ASSUME NEW j \in DOMAIN (w \o Tail(t))
      PROVE  \/ \E k \in DOMAIN w : (w \o Tail(t))[j] = w[k]
             \/ \E k \in DOMAIN t : (w \o Tail(t))[j] = t[k]
  <2>0. /\ j \in 1 .. Len(w) + Len(Tail(t))
        /\ DOMAIN w = 1 .. Len(w) /\ Len(w) \in Nat
        /\ DOMAIN t = 1 .. Len(t) /\ Len(t) \in Nat
      BY <1>1, <1>2, LenProperties
  <2>1. CASE j <= Len(w)
    <3>1. (w \o Tail(t))[j] = w[j] /\ j \in DOMAIN w
        BY <1>2, <2>0, <2>1
    <3> QED BY <3>1
  <2>2. CASE ~(j <= Len(w))
    <3> DEFINE k == j - Len(w)
    <3>1. k \in 1 .. Len(Tail(t))
        BY <1>1, <2>0, <2>2
    <3>2. (w \o Tail(t))[j] = t[k + 1] /\ k + 1 \in DOMAIN t
        BY <1>1, <1>2, <2>0, <2>2, <3>1
    <3> QED BY <3>2
  <2> QED BY <2>1, <2>2
<1> QED BY <1>2, <1>3 DEF Spliced

(* A stack without its innermost element.                                  *)
LEMMA Popped ==
    ASSUME NEW S, NEW t \in Seq(S), Len(t) >= 1,
           NEW r, r = SubSeq(t, 1, Len(t) - 1)
    PROVE  /\ r \in Seq(S) /\ Len(r) = Len(t) - 1
           /\ DOMAIN r = 1 .. Len(t) - 1
           /\ \A i \in 1 .. Len(t) - 1 : r[i] = t[i]
<1>1. PICK n : n = Len(t) - 1
    OBVIOUS
<1>2. n \in Nat /\ n + 1 = Len(t) /\ DOMAIN t = 1 .. Len(t)
    BY <1>1, LenProperties
<1>3. \A i \in 1 .. n : t[i] \in S
    BY <1>2
<1>4. r \in Seq(S) /\ Len(r) = n /\ \A i \in 1 .. n : r[i] = t[i]
    BY <1>1, <1>2, <1>3
<1> QED BY <1>1, <1>4, LenProperties

-----------------------------------------------------------------------------
(* The innermost frame, and what replaces it.                              *)
LEMMA TopFrameType ==
    ASSUME TypeOK
    PROVE  /\ Len(stack) \in 1 .. Len(stack)
           /\ DOMAIN stack = 1 .. Len(stack)
           /\ TopFrame \in Frames
           /\ Todo \in Seq(Items)
           /\ Table \in Tables
           /\ TopFrame.chain \in Seq(Funs)
           /\ Len(TopFrame.chain) \in 1 .. Len(TopFrame.chain)
           /\ GetFunction \in Funs
           /\ Len(script) \in Nat
           /\ Funs \subseteq Nat
<1>1. /\ Len(stack) \in 1 .. Len(stack)
      /\ DOMAIN stack = 1 .. Len(stack)
    BY LenProperties, EmptySeq DEF TypeOK
<1>2. TopFrame \in Frames
    BY <1>1, ElementOfSeq DEF TypeOK, TopFrame
<1>3. TopFrame.chain # <<>>
    BY <1>1 DEF TypeOK, TopFrame
<1>4. Len(TopFrame.chain) \in 1 .. Len(TopFrame.chain)
    BY <1>2, <1>3, LenProperties, EmptySeq DEF Frames
<1>5. GetFunction \in Funs
    BY <1>2, <1>4, ElementOfSeq DEF GetFunction, Frames
<1>6. Len(script) \in Nat
    BY LenProperties DEF TypeOK
<1> QED BY <1>1, <1>2, <1>4, <1>5, <1>6 DEF Frames, Todo, Table, Funs

LEMMA RestType ==
    ASSUME TypeOK, Todo # <<>>, NEW w \in Seq(Items)
    PROVE  /\ Rest(w) \in Seq(Frames)
           /\ Len(Rest(w)) = Len(stack)
           /\ DOMAIN Rest(w) = DOMAIN stack
           /\ \A i \in DOMAIN stack :
                 /\ Rest(w)[i].chain = stack[i].chain
                 /\ Rest(w)[i].table = stack[i].table
                 /\ i # Len(stack) => Rest(w)[i] = stack[i]
           /\ Rest(w)[Len(stack)] =
                 Frame(TopFrame.chain, Table, w \o Tail(Todo))
<1>1. w \o Tail(Todo) \in Seq(Items)
    BY Splice, TopFrameType DEF Spliced
<1>2. Frame(TopFrame.chain, Table, w \o Tail(Todo)) \in Frames
    BY <1>1, TopFrameType DEF Frame, Frames
<1>3. Rest(w) = [stack EXCEPT ![Len(stack)] =
                    Frame(TopFrame.chain, Table, w \o Tail(Todo))]
    BY DEF Rest
<1>4. stack \in Seq(Frames)
    BY DEF TypeOK
<1>5. Rest(w) \in Seq(Frames) /\ Len(Rest(w)) = Len(stack)
    BY <1>2, <1>3, <1>4, TopFrameType, ExceptSeq
<1>6. /\ DOMAIN Rest(w) = DOMAIN stack
      /\ \A i \in DOMAIN stack : i # Len(stack) => Rest(w)[i] = stack[i]
      /\ Rest(w)[Len(stack)] =
            Frame(TopFrame.chain, Table, w \o Tail(Todo))
    BY <1>3, TopFrameType
<1>7. \A i \in DOMAIN stack :
         /\ Rest(w)[i].chain = stack[i].chain
         /\ Rest(w)[i].table = stack[i].table
    BY <1>6 DEF Frame, TopFrame, Table
<1> QED BY <1>5, <1>6, <1>7
-----------------------------------------------------------------------------
(* What an action must leave alone for a frame to stay well-formed: the    *)
(* functions and references of the nodes already visited, but for new      *)
(* entries in locals.                                                      *)
Preserving ==
    /\ script' = script
    /\ pos' \in Nat /\ pos <= pos'
    /\ \A f \in Funs : f <= pos =>
          parent'[f] = parent[f] /\ locals[f] \subseteq locals'[f]
    /\ \A p \in 1 .. pos : refs'[p] = refs[p]

LEMMA FramesStable ==
    ASSUME Preserving PROVE Funs' = Funs /\ Frames' = Frames
    BY DEF Preserving, Funs, Frames

LEMMA ChainStable ==
    ASSUME TypeOK, Preserving, NEW c \in Seq(Funs), ChainOK(c)
    PROVE  ChainOK(c)'
<1>1. pos \in Nat /\ Len(c) \in Nat /\ DOMAIN c = 1 .. Len(c)
    BY LenProperties DEF TypeOK
<1>2. \A n \in DOMAIN c : c[n] \in Funs /\ c[n] <= pos
    BY <1>1, ElementOfSeq DEF ChainOK
<1>3. \A n \in DOMAIN c : c[n] <= pos'
    BY <1>1, <1>2, TopFrameType DEF Preserving, Funs
<1>4. \A n \in 2 .. Len(c) : parent'[c[n]] = c[n - 1]
    BY <1>1, <1>2 DEF Preserving, ChainOK
<1> QED BY <1>3, <1>4 DEF ChainOK

LEMMA VisibleStable ==
    ASSUME TypeOK, Preserving, NEW c \in Seq(Funs), ChainOK(c),
           NEW s, VisibleFrom(c, s)
    PROVE  VisibleFrom(c, s)'
<1>1. /\ pos \in 0 .. Len(script) /\ Len(script) \in Nat
      /\ Len(c) \in Nat /\ DOMAIN c = 1 .. Len(c)
    BY LenProperties DEF TypeOK
<1>2. \A n \in DOMAIN c : c[n] \in Funs /\ c[n] <= pos
    BY <1>1, ElementOfSeq DEF ChainOK
<1>3. OnChain(c, s.fn) => s.fn \in Funs /\ s.fn <= pos
    BY <1>2 DEF OnChain
<1>4. s.node \in 1 .. pos => s.node \in Funs /\ s.node <= pos
    BY <1>1 DEF Funs
<1> QED BY <1>1, <1>3, <1>4 DEF VisibleFrom, OnChain, Preserving

LEMMA ItemStable ==
    ASSUME TypeOK, Preserving, NEW c \in Seq(Funs), ChainOK(c),
           NEW w \in Items, ItemOK(c, w)
    PROVE  ItemOK(c, w)'
<1>1. /\ pos \in 0 .. Len(script) /\ Len(script) \in Nat
      /\ Len(c) \in 1 .. Len(c) /\ DOMAIN c = 1 .. Len(c)
    BY LenProperties, EmptySeq DEF TypeOK, ChainOK
<1>2. c[Len(c)] \in Funs /\ c[Len(c)] <= pos
    BY <1>1, ElementOfSeq DEF ChainOK
<1>3. w.node \in 1 .. pos =>
        w.node \in Funs /\ w.node <= pos /\ w.node \in 1 .. pos'
    BY <1>1 DEF Funs, Preserving
<1>4. ASSUME w.do = "in" PROVE ItemOK(c, w)'
    BY <1>2, <1>3, <1>4 DEF ItemOK, Preserving, Variable
<1>5. ASSUME w.do = "body" PROVE ItemOK(c, w)'
    BY <1>2, <1>3, <1>5 DEF ItemOK, Preserving, Arguments, Variable
<1>6. ASSUME w.do = "import" PROVE ItemOK(c, w)'
  <2>1. VisibleFrom(c, refs[w.node])'
    <3>1. refs'[w.node] = refs[w.node]
        BY <1>6 DEF ItemOK, Preserving
    <3>2. VisibleFrom(c, refs[w.node])
        BY <1>6 DEF ItemOK
    <3> QED BY <3>1, <3>2, <1>1, <1>2, VisibleStable
  <2> QED BY <1>3, <1>6, <2>1 DEF ItemOK, Preserving
<1>7. ASSUME w.do = "expr" PROVE ItemOK(c, w)'
    BY <1>7 DEF ItemOK
<1> QED BY <1>4, <1>5, <1>6, <1>7 DEF Items

LEMMA FrameStable ==
    ASSUME TypeOK, Preserving, NEW fr \in Frames, FrameOK(fr)
    PROVE  FrameOK(fr)'
<1>1. fr.chain \in Seq(Funs) /\ fr.todo \in Seq(Items)
    BY DEF Frames
<1>2. ChainOK(fr.chain)
    BY DEF FrameOK
<1>3. ChainOK(fr.chain)'
    BY <1>1, <1>2, ChainStable
<1>4. \A x \in Names : VisibleFrom(fr.chain, fr.table[x])'
    BY <1>1, <1>2, VisibleStable DEF FrameOK
<1>5. ASSUME NEW j \in DOMAIN fr.todo PROVE ItemOK(fr.chain, fr.todo[j])'
  <2>1. fr.todo[j] \in Items
      BY <1>1, LenProperties, ElementOfSeq
  <2> QED BY <1>1, <1>2, <2>1, ItemStable DEF FrameOK
<1> QED BY <1>3, <1>4, <1>5 DEF FrameOK

-----------------------------------------------------------------------------
(* Lists of work.                                                          *)
LEMMA ExprsType ==
    ASSUME NEW n \in Nat
    PROVE  /\ Exprs(n) \in Seq(Items)
           /\ \A k \in DOMAIN Exprs(n) : Exprs(n)[k] = Expr
<1>1. Expr \in Items
    BY DEF Expr, Items
<1>2. Exprs(n) \in [1 .. n -> Items]
    BY <1>1 DEF Exprs
<1> QED BY <1>2, SeqDef DEF Exprs

LEMMA ExprOK ==
    ASSUME NEW c PROVE ItemOK(c, Expr) /\ ItemOK(c, Expr)'
    BY DEF ItemOK, Expr

-----------------------------------------------------------------------------
(* The stack after a step: every frame is well-formed.                     *)
StackOK ==
    /\ stack \in Seq(Frames)
    /\ stack # <<>>
    /\ \A i \in DOMAIN stack : FrameOK(stack[i])

StatusOK ==
    /\ status \in {"resolving", "resolved"} \cup Failures
    /\ status # "could not import"

LEMMA StackUnchanged ==
    ASSUME Inductive, Preserving, stack' = stack
    PROVE  StackOK'
<1>0. TypeOK BY DEF Inductive
<1>1. \A i \in DOMAIN stack : stack[i] \in Frames /\ FrameOK(stack[i])
    BY <1>0, TopFrameType, ElementOfSeq DEF Inductive, TypeOK
<1>2. \A i \in DOMAIN stack : FrameOK(stack[i])'
    BY <1>0, <1>1, FrameStable
<1>3. stack' \in Seq(Frames)' /\ stack' # <<>>
    BY FramesStable DEF Inductive, TypeOK
<1> QED BY <1>2, <1>3 DEF StackOK

LEMMA RestOK ==
    ASSUME Inductive, Preserving, Todo # <<>>, NEW w \in Seq(Items),
           NEW c, c = TopFrame.chain,
           \A k \in DOMAIN w : ItemOK(c, w[k])',
           NEW i \in DOMAIN stack, NEW fr, fr = Rest(w)[i]
    PROVE  FrameOK(fr)'
<1>0. TypeOK BY DEF Inductive
<1>1. \A k \in DOMAIN stack : stack[k] \in Frames /\ FrameOK(stack[k])
    BY <1>0, TopFrameType, ElementOfSeq DEF Inductive, TypeOK
<1>2. CASE i # Len(stack)
  <2>1. fr = stack[i]
      BY <1>0, <1>2, RestType
  <2> QED BY <1>0, <1>1, <2>1, FrameStable
<1>3. CASE i = Len(stack)
  <2> PICK top \in Frames : top = TopFrame
      BY <1>0, TopFrameType
  <2>1. FrameOK(top) /\ FrameOK(top)'
      BY <1>0, <1>1, TopFrameType, FrameStable DEF TopFrame
  <2>2. /\ fr.chain = top.chain /\ fr.table = top.table
        /\ fr.todo = Spliced(w, top.todo)
    <3>1. fr = Frame(TopFrame.chain, Table, w \o Tail(Todo))
        BY <1>0, <1>3, RestType
    <3> QED BY <3>1 DEF Frame, Table, Todo, Spliced
  <2>3. /\ top.todo \in Seq(Items) /\ top.todo # <<>> /\ top.chain = c
      BY DEF Frames, Todo
  <2>4. ASSUME NEW j \in DOMAIN fr.todo PROVE ItemOK(c, fr.todo[j])'
    <3>1. \A k \in DOMAIN top.todo : ItemOK(c, top.todo[k])'
        BY <2>1, <2>3 DEF FrameOK
    <3>2. \A k \in DOMAIN Spliced(w, top.todo) :
             ItemOK(c, Spliced(w, top.todo)[k])'
        BY <2>3, <3>1, Splice
    <3> QED BY <2>2, <3>2
  <2> QED BY <2>1, <2>2, <2>3, <2>4 DEF FrameOK
<1> QED BY <1>2, <1>3

(* Work w replaces the first item of the innermost frame.                  *)
LEMMA StackReplaced ==
    ASSUME Inductive, Preserving, Todo # <<>>, NEW w \in Seq(Items),
           NEW c, c = TopFrame.chain,
           \A k \in DOMAIN w : ItemOK(c, w[k])',
           stack' = Rest(w)
    PROVE  StackOK' /\ TopFrame'.chain = c
<1>0. TypeOK BY DEF Inductive
<1>1. /\ stack' \in Seq(Frames)
      /\ Len(stack') = Len(stack)
      /\ DOMAIN stack' = DOMAIN stack
      /\ stack'[Len(stack)] = Frame(TopFrame.chain, Table, w \o Tail(Todo))
    BY <1>0, RestType
<1>2. stack' # <<>>
    BY <1>0, <1>1, TopFrameType, EmptySeq
<1>3. \A i \in DOMAIN stack' : FrameOK(stack[i])'
    BY <1>1, RestOK
<1>4. TopFrame'.chain = c
    BY <1>1 DEF TopFrame, Frame
<1> QED BY <1>1, <1>2, <1>3, <1>4, FramesStable DEF StackOK

(* And the frame fr is opened.                                             *)
LEMMA StackPushed ==
    ASSUME Inductive, Preserving, Todo # <<>>, NEW w \in Seq(Items),
           NEW c, c = TopFrame.chain,
           \A k \in DOMAIN w : ItemOK(c, w[k])',
           NEW fr \in Frames, FrameOK(fr)',
           stack' = Append(Rest(w), fr)
    PROVE  StackOK'
<1>0. TypeOK BY DEF Inductive
<1>1. /\ Rest(w) \in Seq(Frames)
      /\ Len(Rest(w)) = Len(stack)
      /\ DOMAIN Rest(w) = DOMAIN stack
      /\ Len(stack) \in Nat
      /\ DOMAIN stack = 1 .. Len(stack)
    BY <1>0, RestType, TopFrameType
<1>2. /\ stack' \in Seq(Frames)
      /\ DOMAIN stack' = 1 .. Len(stack) + 1
      /\ stack'[Len(stack) + 1] = fr
      /\ stack' # <<>>
      /\ \A i \in DOMAIN stack : stack'[i] = Rest(w)[i]
  <2> PICK r : r = Rest(w)
      OBVIOUS
  <2>1. r \in Seq(Frames) /\ Len(r) = Len(stack) /\ DOMAIN r = 1 .. Len(stack)
      BY <1>1
  <2>2. stack' = Append(r, fr)
      OBVIOUS
  <2>3. /\ stack' \in Seq(Frames) /\ Len(stack') = Len(stack) + 1
        /\ DOMAIN stack' = 1 .. Len(stack) + 1
      BY <1>1, <2>1, <2>2
  <2>4. /\ stack'[Len(stack) + 1] = fr
        /\ \A i \in 1 .. Len(stack) : stack'[i] = r[i]
      BY <1>1, <2>1, <2>2
  <2>5. stack' # <<>>
      BY <1>1, <2>3
  <2> QED BY <1>1, <2>3, <2>4, <2>5
<1>3. \A i \in DOMAIN stack : FrameOK(stack[i])'
    BY <1>2, RestOK
<1>4. \A i \in DOMAIN stack' : FrameOK(stack[i])'
    BY <1>1, <1>2, <1>3
<1> QED BY <1>2, <1>4, FramesStable DEF StackOK

(* No import is under way after the step.                                  *)
LEMMA ClimbDone ==
    ASSUME StackOK', climb' = <<>>
    PROVE  ClimbOK'
<1>1. Len(stack') \in 1 .. Len(stack')
    BY LenProperties, EmptySeq DEF StackOK
<1>2. TopFrame' \in Frames'
    BY <1>1, ElementOfSeq DEF StackOK, TopFrame
<1>3. TopFrame'.chain \in Seq(Funs')
    BY <1>2 DEF Frames
<1>4. Len(TopFrame'.chain) \in Nat
    BY <1>3, LenProperties
<1>5. Len(climb') = 0 /\ DOMAIN climb' = {}
    OBVIOUS
<1> QED BY <1>4, <1>5 DEF ClimbOK

-----------------------------------------------------------------------------
(* The invariant after a step, from its parts.                             *)
LEMMA Assembled ==
    ASSUME Inductive, Preserving, StackOK', ClimbOK', UpvaluesChained',
           pos' \in 0 .. Len(script),
           parent' \in [Funs -> Funs \cup {NoFun}],
           parent'[0] = NoFun,
           locals' \in [Funs -> SUBSET Symbols],
           \A f \in Funs : f > pos' => locals'[f] = {},
           refs' \in [DOMAIN script -> Symbols \cup {NoRef}],
           climb' \in Seq([fn : Funs, var : Symbols]),
           StatusOK'
    PROVE  Inductive'
<1>1. script' = script /\ Funs' = Funs
    BY DEF Preserving, Funs
<1>2. \A i \in DOMAIN stack' : FrameOK(stack[i])'
    BY DEF StackOK
<1>3. \A i \in DOMAIN stack' : stack'[i].chain # <<>>
    BY <1>2 DEF FrameOK, ChainOK
<1>4. script' \in Seq(Nodes)
    BY <1>1 DEF Inductive, TypeOK
<1>5. TypeOK'
    BY <1>1, <1>3, <1>4 DEF TypeOK, StackOK, StatusOK
<1>6. \A f \in Funs' : f > pos' => locals'[f] = {}
    BY <1>1
<1> QED BY <1>2, <1>5, <1>6 DEF Inductive, ImportsSucceed, StatusOK

(* Most steps leave the functions alone,                                   *)
LEMMA FunctionsUnchanged ==
    ASSUME Inductive, Preserving, StackOK', ClimbOK',
           pos' \in 0 .. Len(script),
           parent' = parent, locals' = locals,
           climb' \in Seq([fn : Funs, var : Symbols]),
           refs' \in [DOMAIN script -> Symbols \cup {NoRef}],
           StatusOK'
    PROVE  Inductive'
<1>1. Funs' = Funs
    BY DEF Preserving, Funs
<1>2. UpvaluesChained'
    BY <1>1 DEF Inductive, UpvaluesChained, Upvalues
<1>3. TypeOK
    BY DEF Inductive
<1>4. /\ Funs \subseteq Nat /\ Len(script) \in Nat
      /\ pos \in 0 .. Len(script)
    BY <1>3, TopFrameType DEF TypeOK
<1>5. \A f \in Funs : f > pos => locals[f] = {}
    BY DEF Inductive
<1>6. \A f \in Funs : f > pos' => locals'[f] = {}
    BY <1>4, <1>5 DEF Preserving
<1>7. /\ parent' \in [Funs -> Funs \cup {NoFun}]
      /\ parent'[0] = NoFun
      /\ locals' \in [Funs -> SUBSET Symbols]
    BY DEF Inductive, TypeOK
<1> QED BY <1>2, <1>6, <1>7, Assembled

(* and start no import.                                                    *)
LEMMA Quiet ==
    ASSUME Inductive, Preserving, StackOK',
           pos' \in 0 .. Len(script),
           parent' = parent, locals' = locals, climb' = <<>>,
           refs' \in [DOMAIN script -> Symbols \cup {NoRef}],
           StatusOK'
    PROVE  Inductive'
<1>1. ClimbOK'
    BY ClimbDone
<1>2. climb' \in Seq([fn : Funs, var : Symbols])
    BY EmptySeq
<1> QED BY <1>1, <1>2, FunctionsUnchanged

(* The node an action visits, and the item it works on.                    *)
LEMMA Visited ==
    ASSUME Inductive, NEW ops, Visiting(ops)
    PROVE  /\ TypeOK
           /\ Here \in 1 .. Len(script) /\ Here = pos + 1
           /\ pos \in Nat /\ pos' = Here
           /\ Here \in Funs
           /\ script[Here] \in Nodes /\ script[Here].op \in ops
           /\ Todo # <<>> /\ climb = <<>> /\ status = "resolving"
<1>1. TypeOK
    BY DEF Inductive
<1>2. pos \in 0 .. Len(script) /\ Len(script) \in Nat
    BY <1>1, LenProperties DEF TypeOK
<1>3. Here \in 1 .. Len(script) /\ Here = pos + 1
    BY <1>2 DEF Visiting, Here
<1>4. script[Here] \in Nodes
    BY <1>1, <1>3, ElementOfSeq DEF TypeOK
<1> QED BY <1>1, <1>2, <1>3, <1>4 DEF Visiting, Resolving, Funs

LEMMA Worked ==
    ASSUME Inductive, NEW what, Working(what)
    PROVE  /\ TypeOK
           /\ pos \in Nat /\ pos \in 0 .. Len(script) /\ pos' = pos
           /\ Todo # <<>> /\ climb = <<>> /\ status = "resolving"
           /\ Head(Todo).do = what
           /\ Head(Todo) \in Items
           /\ ItemOK(TopFrame.chain, Head(Todo))
           /\ ChainOK(TopFrame.chain)
           /\ \A x \in Names : VisibleFrom(TopFrame.chain, Table[x])
<1>1. TypeOK
    BY DEF Inductive
<1>2. pos \in 0 .. Len(script) /\ Len(script) \in Nat
    BY <1>1, LenProperties DEF TypeOK
<1>3. FrameOK(TopFrame)
    BY <1>1, TopFrameType DEF Inductive, TopFrame
<1>4. Todo # <<>> /\ Todo \in Seq(Items)
    BY <1>1, TopFrameType DEF Working
<1>5. Head(Todo) = Todo[1] /\ 1 \in DOMAIN Todo /\ Head(Todo) \in Items
    BY <1>4
<1>6. ItemOK(TopFrame.chain, Head(Todo))
    BY <1>3, <1>5 DEF FrameOK, Todo
<1> QED BY <1>1, <1>2, <1>3, <1>4, <1>5, <1>6
        DEF Working, Resolving, FrameOK, Table

(* The innermost frame's function is visited, and encloses itself.         *)
LEMMA InnermostFunction ==
    ASSUME Inductive
    PROVE  /\ GetFunction \in Funs /\ GetFunction <= pos
           /\ GetFunction = TopFrame.chain[Len(TopFrame.chain)]
           /\ ChainOK(TopFrame.chain)
           /\ \A x \in Names : VisibleFrom(TopFrame.chain, Table[x])
           /\ TopFrame.chain \in Seq(Funs)
           /\ Len(TopFrame.chain) \in 1 .. Len(TopFrame.chain)
           /\ DOMAIN TopFrame.chain = 1 .. Len(TopFrame.chain)
<1>1. TypeOK
    BY DEF Inductive
<1>2. FrameOK(TopFrame)
    BY <1>1, TopFrameType DEF Inductive, TopFrame
<1>3. /\ TopFrame.chain \in Seq(Funs)
      /\ Len(TopFrame.chain) \in 1 .. Len(TopFrame.chain)
      /\ DOMAIN TopFrame.chain = 1 .. Len(TopFrame.chain)
      /\ GetFunction \in Funs
    BY <1>1, TopFrameType, LenProperties
<1>4. GetFunction <= pos
    BY <1>2, <1>3 DEF FrameOK, ChainOK, GetFunction
<1> QED BY <1>2, <1>3, <1>4 DEF FrameOK, Table, GetFunction

-----------------------------------------------------------------------------
(* One lemma per action.  First those that create no symbol and start no   *)
(* import.                                                                 *)
LEMMA OperandsStep == ASSUME Inductive, ResolveOperands PROVE Inductive'
<1> DEFINE ops == {"const", "vector", "splat", "if"}
<1>1. Visiting(ops)
    BY DEF ResolveOperands
<1>2. /\ Here \in 1 .. Len(script) /\ pos' = Here /\ pos \in Nat
      /\ script[Here] \in Nodes /\ Todo # <<>>
      /\ climb = <<>> /\ status = "resolving" /\ Here = pos + 1
    BY <1>1, Visited
<1>3. Preserving
    BY <1>2 DEF ResolveOperands, Preserving
<1>4. PICK w \in Seq(Items) :
         w = Exprs(Arity(script[Here])) /\ \A k \in DOMAIN w : w[k] = Expr
    BY <1>2, NodeFields, ExprsType
<1>5. PICK c : c = TopFrame.chain
    OBVIOUS
<1>6. StackOK'
  <2>1. \A k \in DOMAIN w : ItemOK(c, w[k])'
      BY <1>4, ExprOK
  <2> QED BY <1>2, <1>3, <1>4, <1>5, <2>1, StackReplaced DEF ResolveOperands
<1>7. StatusOK'
    BY <1>2 DEF ResolveOperands, StatusOK
<1>8. refs' \in [DOMAIN script -> Symbols \cup {NoRef}]
    BY DEF ResolveOperands, Inductive, TypeOK
<1>9. pos' \in 0 .. Len(script)
    BY <1>2
<1> QED BY <1>2, <1>3, <1>6, <1>7, <1>8, <1>9, Quiet DEF ResolveOperands

Thrown == Failures \ {"could not import"}

LEMMA ThrowStep ==
    ASSUME Inductive, NEW ops, Visiting(ops), UNCHANGED script,
           NEW why \in Thrown, Throw(why)
    PROVE  Inductive'
<1>1. /\ Here \in 1 .. Len(script) /\ pos' = Here /\ pos \in Nat
      /\ climb = <<>> /\ Here = pos + 1
    BY Visited
<1>2. Preserving
    BY <1>1 DEF Throw, Preserving
<1>3. StackOK'
    BY <1>2, StackUnchanged DEF Throw
<1>4. StatusOK'
    BY DEF Throw, StatusOK, Thrown
<1>5. refs' \in [DOMAIN script -> Symbols \cup {NoRef}]
    BY DEF Throw, Inductive, TypeOK
<1>6. pos' \in 0 .. Len(script)
    BY <1>1
<1> QED BY <1>1, <1>2, <1>3, <1>4, <1>5, <1>6, Quiet DEF Throw

LEMMA ReturnStep == ASSUME Inductive, ResolveReturn PROVE Inductive'
<1>1. Visiting({"return"}) /\ script' = script
    BY DEF ResolveReturn
<1>2. CASE GetFunction # 0
    BY <1>1, <1>2, ThrowStep DEF ResolveReturn, Failures, Thrown
<1>3. CASE GetFunction = 0
  <2>1. /\ Here \in 1 .. Len(script) /\ pos' = Here /\ pos \in Nat
        /\ Todo # <<>> /\ climb = <<>> /\ status = "resolving"
        /\ Here = pos + 1
      BY <1>1, Visited
  <2>2. /\ stack' = Rest(<<>>)
        /\ UNCHANGED <<parent, locals, refs, climb, status>>
      BY <1>3 DEF ResolveReturn
  <2>3. Preserving
      BY <1>1, <2>1, <2>2 DEF Preserving
  <2>4. StackOK'
    <3>1. <<>> \in Seq(Items) /\ DOMAIN <<>> = {}
        OBVIOUS
    <3>2. PICK c : c = TopFrame.chain
        OBVIOUS
    <3> QED BY <2>1, <2>2, <2>3, <3>1, <3>2, StackReplaced
  <2>5. StatusOK'
      BY <2>1, <2>2 DEF StatusOK
  <2>6. refs' \in [DOMAIN script -> Symbols \cup {NoRef}]
      BY <2>2 DEF Inductive, TypeOK
  <2>7. pos' \in 0 .. Len(script)
      BY <2>1
  <2> QED BY <2>1, <2>2, <2>3, <2>4, <2>5, <2>6, <2>7, Quiet
<1> QED BY <1>2, <1>3

LEMMA CloseStep == ASSUME Inductive, CloseFrame PROVE Inductive'
<1>1. /\ TypeOK /\ climb = <<>> /\ status = "resolving"
      /\ script' = script /\ pos' = pos
      /\ UNCHANGED <<parent, locals, refs, climb>>
    BY DEF CloseFrame, Resolving, Inductive
<1>2. pos \in 0 .. Len(script) /\ Len(script) \in Nat
    BY <1>1, TopFrameType DEF TypeOK
<1>3. Preserving
    BY <1>1, <1>2 DEF Preserving
<1>4. StackOK'
  <2>1. CASE Len(stack) > 1
    <3>1. /\ stack \in Seq(Frames) /\ Len(stack) \in Nat
          /\ DOMAIN stack = 1 .. Len(stack)
        BY <1>1, TopFrameType DEF TypeOK
    <3>2. stack' = SubSeq(stack, 1, Len(stack) - 1)
        BY <2>1 DEF CloseFrame
    <3>3. /\ stack' \in Seq(Frames) /\ Len(stack') = Len(stack) - 1
          /\ DOMAIN stack' = 1 .. Len(stack) - 1
          /\ \A i \in 1 .. Len(stack) - 1 : stack'[i] = stack[i]
        BY <2>1, <3>1, <3>2, Popped
    <3>4. stack' # <<>>
        BY <2>1, <3>1, <3>3
    <3>5. \A i \in DOMAIN stack : stack[i] \in Frames /\ FrameOK(stack[i])
        BY <3>1 DEF Inductive
    <3>6. \A i \in DOMAIN stack' : stack'[i] \in Frames /\ FrameOK(stack'[i])
        BY <3>1, <3>3, <3>5
    <3>7. \A i \in DOMAIN stack' : FrameOK(stack[i])'
        BY <1>1, <1>3, <3>6, FrameStable
    <3> QED BY <1>3, <3>3, <3>4, <3>7, FramesStable DEF StackOK
  <2>2. CASE ~(Len(stack) > 1)
      BY <1>3, <2>2, StackUnchanged DEF CloseFrame
  <2> QED BY <2>1, <2>2
<1>5. StatusOK'
    BY <1>1 DEF CloseFrame, StatusOK
<1>6. refs' \in [DOMAIN script -> Symbols \cup {NoRef}]
    BY <1>1 DEF TypeOK
<1> QED BY <1>1, <1>2, <1>3, <1>4, <1>5, <1>6, Quiet

-----------------------------------------------------------------------------
(* Actions that open a frame.                                              *)
LEMMA FrameWithSymbol ==
    ASSUME Inductive, Preserving, NEW c, c = TopFrame.chain,
           NEW t, t = Table, NEW s \in Symbols, VisibleFrom(c, s)',
           NEW w \in Seq(Items), \A k \in DOMAIN w : ItemOK(c, w[k])',
           NEW fr, fr = Frame(c, WithSymbol(t, s), w)
    PROVE  fr \in Frames /\ FrameOK(fr)'
<1>1. TypeOK
    BY DEF Inductive
<1>2. /\ c \in Seq(Funs) /\ ChainOK(c) /\ t \in Tables
      /\ \A x \in Names : VisibleFrom(c, t[x])
    BY <1>1, InnermostFunction, TopFrameType
<1>3. WithSymbol(t, s) \in Tables
    BY <1>2, TableType
<1>4. fr \in Frames
    BY <1>2, <1>3 DEF Frame, Frames
<1>5. ChainOK(c)'
    BY <1>1, <1>2, ChainStable
<1>6. \A x \in Names : VisibleFrom(c, t[x])'
    BY <1>1, <1>2, VisibleStable
<1>7. \A x \in Names : WithSymbol(t, s)[x] = t[x] \/ WithSymbol(t, s)[x] = s
    BY <1>2 DEF WithSymbol, Tables
<1>8. \A x \in Names : VisibleFrom(c, WithSymbol(t, s)[x])'
    BY <1>6, <1>7
<1>9. fr.chain = c /\ fr.table = WithSymbol(t, s) /\ fr.todo = w
    BY DEF Frame
<1> QED BY <1>4, <1>5, <1>8, <1>9 DEF FrameOK

(* Nothing is left to do in place of the item.                             *)
LEMMA NothingToDo ==
    /\ <<>> \in Seq(Items)
    /\ \A c : \A k \in DOMAIN <<>> : ItemOK(c, <<>>[k])'
    OBVIOUS

LEMMA OneExpr ==
    /\ <<Expr>> \in Seq(Items)
    /\ \A c : \A k \in DOMAIN <<Expr>> : ItemOK(c, <<Expr>>[k])'
<1>1. Expr \in Items
    BY DEF Expr, Items
<1>2. <<Expr>> \in Seq(Items) /\ \A k \in DOMAIN <<Expr>> : <<Expr>>[k] = Expr
    BY <1>1
<1> QED BY <1>2, ExprOK

LEMMA EnterLetStep == ASSUME Inductive, EnterLet PROVE Inductive'
<1>1. Working("in") /\ UNCHANGED <<script, parent, locals, refs, climb, status>>
    BY DEF EnterLet
<1>2. /\ TypeOK /\ pos \in Nat /\ pos \in 0 .. Len(script) /\ pos' = pos
      /\ Todo # <<>> /\ climb = <<>> /\ status = "resolving"
      /\ Head(Todo).do = "in" /\ Head(Todo) \in Items
      /\ ItemOK(TopFrame.chain, Head(Todo))
    BY <1>1, Worked
<1>3. Preserving
    BY <1>1, <1>2 DEF Preserving
<1> PICK c, t, p, g :
       /\ c = TopFrame.chain /\ t = Table
       /\ p = Head(Todo).node /\ g = GetFunction
    OBVIOUS
<1>4. /\ p \in 1 .. Len(script) /\ p \in Nat /\ script[p].op = "let"
      /\ Variable(g, p, script[p].name) \in locals[g]
      /\ g = c[Len(c)] /\ g \in Funs /\ g \in Nat
  <2>1. g = c[Len(c)] /\ g \in Funs /\ g \in Nat
      BY <1>2, InnermostFunction, TopFrameType
  <2>2. /\ p \in 1 .. pos /\ script[p].op = "let"
        /\ Variable(g, p, script[p].name) \in locals[g]
      BY <1>2, <2>1 DEF ItemOK
  <2>3. p \in 1 .. Len(script) /\ p \in Nat
      BY <1>2, <2>2, TopFrameType
  <2> QED BY <2>1, <2>2, <2>3
<1> PICK s : s = Variable(g, p, script[p].name)
    OBVIOUS
<1>5. s \in Symbols
  <2>1. script[p] \in Nodes
      BY <1>2, <1>4, ElementOfSeq DEF TypeOK
  <2> QED BY <1>4, <2>1, NodeFields DEF Variable, Symbols, Kinds
<1>6. VisibleFrom(c, s)'
  <2>1. OnChain(c, g)
      BY <1>4, InnermostFunction DEF OnChain
  <2>2. s.kind = "var" /\ s.fn = g /\ s \in locals[g]
      BY <1>4 DEF Variable
  <2>3. locals' = locals
      BY <1>1
  <2> QED BY <2>1, <2>2, <2>3 DEF VisibleFrom, OnChain
<1> PICK fr : fr = Frame(c, WithSymbol(t, s), <<Expr>>)
    OBVIOUS
<1>7. fr \in Frames /\ FrameOK(fr)'
    BY <1>3, <1>5, <1>6, OneExpr, FrameWithSymbol
<1>8. stack' = Append(Rest(<<>>), fr)
    BY DEF EnterLet
<1>9. StackOK'
    BY <1>2, <1>3, <1>7, <1>8, NothingToDo, StackPushed
<1>10. StatusOK'
    BY <1>1, <1>2 DEF StatusOK
<1>11. refs' \in [DOMAIN script -> Symbols \cup {NoRef}]
    BY <1>1, <1>2 DEF TypeOK
<1> QED BY <1>1, <1>2, <1>3, <1>9, <1>10, <1>11, Quiet

LEMMA EnterBodyStep == ASSUME Inductive, EnterBody PROVE Inductive'
<1>1. /\ Working("body")
      /\ UNCHANGED <<script, parent, locals, refs, climb, status>>
    BY DEF EnterBody
<1>2. /\ TypeOK /\ pos \in Nat /\ pos \in 0 .. Len(script) /\ pos' = pos
      /\ Todo # <<>> /\ climb = <<>> /\ status = "resolving"
      /\ Head(Todo).do = "body" /\ Head(Todo) \in Items
      /\ ItemOK(TopFrame.chain, Head(Todo))
    BY <1>1, Worked
<1>3. Preserving
    BY <1>1, <1>2 DEF Preserving
<1> PICK c, t, p :
       c = TopFrame.chain /\ t = Table /\ p = Head(Todo).node
    OBVIOUS
<1>4. /\ p \in 1 .. pos /\ script[p].op = "fun"
      /\ parent[p] = c[Len(c)]
      /\ Arguments(p, script[p].params) \subseteq locals[p]
    BY <1>2 DEF ItemOK
<1>5. /\ c \in Seq(Funs) /\ Len(c) \in 1 .. Len(c) /\ DOMAIN c = 1 .. Len(c)
      /\ ChainOK(c) /\ \A x \in Names : VisibleFrom(c, t[x])
      /\ t \in Tables
    BY <1>2, InnermostFunction, TopFrameType
<1>6. p \in 1 .. Len(script) /\ p \in Funs /\ p \in Nat /\ Len(script) \in Nat
    BY <1>2, <1>4, TopFrameType DEF Funs
<1> PICK ps : ps = script[p].params
    OBVIOUS
<1>7. ps \in Seq(Params)
  <2>1. script[p] \in Nodes
      BY <1>2, <1>6, ElementOfSeq DEF TypeOK
  <2> QED BY <1>4, <2>1, NodeFields
<1> PICK d : d = Append(c, p)
    OBVIOUS
<1>8. /\ d \in Seq(Funs) /\ Len(d) = Len(c) + 1 /\ DOMAIN d = 1 .. Len(c) + 1
      /\ \A n \in DOMAIN c : d[n] = c[n]
      /\ d[Len(c) + 1] = p
    BY <1>5, <1>6
<1>9. ChainOK(d)
  <2>1. d # <<>> /\ d[1] = 0
      BY <1>5, <1>8 DEF ChainOK
  <2>2. \A n \in DOMAIN d : d[n] <= pos
      BY <1>2, <1>4, <1>5, <1>8 DEF ChainOK
  <2>3. \A n \in 2 .. Len(d) : parent[d[n]] = d[n - 1]
    <3>1. \A n \in 2 .. Len(c) : parent[d[n]] = d[n - 1]
        BY <1>5, <1>8 DEF ChainOK
    <3> QED BY <1>4, <1>5, <1>8, <3>1
  <2> QED BY <2>1, <2>2, <2>3 DEF ChainOK
<1>10. \A f : OnChain(c, f) => OnChain(d, f)
    BY <1>5, <1>8 DEF OnChain
<1>11. OnChain(d, p)
    BY <1>5, <1>8 DEF OnChain
<1> PICK u : u = WithArguments(t, p, ps)
    OBVIOUS
<1>12. \A x \in Names : VisibleFrom(d, u[x])
  <2> SUFFICES ASSUME NEW x \in Names PROVE VisibleFrom(d, u[x])
      OBVIOUS
  <2>1. CASE x \in ParamNames(ps)
    <3>1. u[x] = Variable(p, p, x)
        BY <2>1 DEF WithArguments
    <3>2. Variable(p, p, x) \in locals[p]
        BY <1>4, <2>1 DEF Arguments
    <3>3. u[x].kind = "var" /\ u[x].fn = p /\ u[x] \in locals[u[x].fn]
        BY <3>1, <3>2 DEF Variable
    <3>4. u[x].kind # "fun"
        BY <3>3
    <3> QED BY <1>11, <3>3, <3>4 DEF VisibleFrom
  <2>2. CASE x \notin ParamNames(ps)
    <3>1. u[x] = t[x]
        BY <2>2 DEF WithArguments
    <3> QED BY <1>5, <1>10, <3>1 DEF VisibleFrom
  <2> QED BY <2>1, <2>2
<1> PICK fr : fr = Frame(d, u, <<Expr>>)
    OBVIOUS
<1>13. fr \in Frames
    BY <1>5, <1>6, <1>7, <1>8, TableType, OneExpr DEF Frame, Frames
<1>14. FrameOK(fr)
  <2>1. \A k \in DOMAIN <<Expr>> : <<Expr>>[k] = Expr
      OBVIOUS
  <2>2. \A k \in DOMAIN <<Expr>> : ItemOK(d, <<Expr>>[k])
      BY <2>1, ExprOK
  <2> QED BY <1>9, <1>12, <2>2 DEF FrameOK, Frame
<1>15. FrameOK(fr)'
    BY <1>2, <1>3, <1>13, <1>14, FrameStable
<1>16. stack' = Append(Rest(<<>>), fr)
    BY DEF EnterBody
<1>17. StackOK'
    BY <1>2, <1>3, <1>13, <1>15, <1>16, NothingToDo, StackPushed
<1>18. StatusOK'
    BY <1>1, <1>2 DEF StatusOK
<1>19. refs' \in [DOMAIN script -> Symbols \cup {NoRef}]
    BY <1>1, <1>2 DEF TypeOK
<1> QED BY <1>1, <1>2, <1>3, <1>17, <1>18, <1>19, Quiet

-----------------------------------------------------------------------------
(* Actions that create a symbol.                                           *)
LEMMA LetStep == ASSUME Inductive, ResolveLet PROVE Inductive'
<1>1. Visiting({"let"}) /\ UNCHANGED <<script, parent, refs, climb, status>>
    BY DEF ResolveLet
<1>2. /\ TypeOK /\ Here \in 1 .. Len(script) /\ pos' = Here /\ pos \in Nat
      /\ Here = pos + 1 /\ script[Here] \in Nodes /\ script[Here].op = "let"
      /\ Todo # <<>> /\ climb = <<>> /\ status = "resolving"
    BY <1>1, Visited
<1> PICK c, g, p, s :
       /\ c = TopFrame.chain /\ g = GetFunction /\ p = Here
       /\ s = Variable(g, p, script[p].name)
    OBVIOUS
<1>3. /\ g \in Funs /\ g \in Nat /\ g <= pos /\ g = c[Len(c)]
      /\ Funs \subseteq Nat /\ Len(script) \in Nat
    BY <1>2, InnermostFunction, TopFrameType
<1>4. s \in Symbols /\ s.fn = g
  <2>1. p \in Nat /\ script[p].name \in Names
      BY <1>2, NodeFields
  <2> QED BY <1>3, <2>1 DEF Variable, Symbols, Kinds
<1>5. /\ locals \in [Funs -> SUBSET Symbols]
      /\ locals' = [locals EXCEPT ![g] = @ \cup {s}]
    BY <1>2 DEF ResolveLet, TypeOK
<1>6. /\ locals' \in [Funs -> SUBSET Symbols]
      /\ locals'[g] = locals[g] \cup {s}
      /\ \A f \in Funs : f # g => locals'[f] = locals[f]
      /\ \A f \in Funs : locals[f] \subseteq locals'[f]
    BY <1>3, <1>4, <1>5
<1>7. Preserving
    BY <1>1, <1>2, <1>6 DEF Preserving
<1>8. StackOK'
  <2> PICK w : w = <<Expr, In(p)>>
      OBVIOUS
  <2>1. Expr \in Items /\ In(p) \in Items
      BY <1>2 DEF Expr, In, Items
  <2>2. w \in Seq(Items) /\ DOMAIN w = 1 .. 2 /\ w[1] = Expr /\ w[2] = In(p)
      BY <2>1
  <2>3. ItemOK(c, In(p))'
    <3>1. Variable(c[Len(c)], p, script[p].name) \in locals'[c[Len(c)]]
        BY <1>3, <1>6
    <3>2. In(p).do = "in" /\ In(p).node = p
        BY DEF In
    <3>3. script' = script /\ p \in 1 .. pos'
        BY <1>1, <1>2
    <3>4. script'[p].op = "let"
        BY <1>2, <3>3
    <3>5. Variable(c[Len(c)], p, script[p].name)'
             = Variable(c[Len(c)], p, script[p].name)
        BY <3>3 DEF Variable
    <3> QED BY <3>1, <3>2, <3>3, <3>4, <3>5 DEF ItemOK
  <2>4. \A k \in DOMAIN w : ItemOK(c, w[k])'
      BY <2>2, <2>3, ExprOK
  <2>5. stack' = Rest(w)
      BY DEF ResolveLet
  <2> QED BY <1>2, <1>7, <2>2, <2>4, <2>5, StackReplaced
<1>9. UpvaluesChained'
  <2>1. Funs' = Funs
      BY <1>1 DEF Funs
  <2> SUFFICES ASSUME NEW f \in Funs, NEW v \in Upvalues(f)'
               PROVE  parent[f] # NoFun /\ v \in locals'[parent[f]]
      BY <1>1, <2>1 DEF UpvaluesChained
  <2>2. v \in Upvalues(f)
      BY <1>4, <1>6 DEF Upvalues
  <2>3. parent[f] # NoFun /\ v \in locals[parent[f]]
      BY <2>2 DEF Inductive, UpvaluesChained
  <2>4. parent[f] \in Funs
      BY <1>2, <2>3 DEF TypeOK
  <2> QED BY <1>6, <2>3, <2>4
<1>10. \A f \in Funs : f > pos' => locals'[f] = {}
  <2>1. \A f \in Funs : f > pos => locals[f] = {}
      BY DEF Inductive
  <2> QED BY <1>2, <1>3, <1>6, <2>1
<1>11. ClimbOK'
    BY <1>1, <1>2, <1>8, ClimbDone
<1>12. StatusOK'
    BY <1>1, <1>2 DEF StatusOK
<1>13. /\ parent' \in [Funs -> Funs \cup {NoFun}] /\ parent'[0] = NoFun
       /\ refs' \in [DOMAIN script -> Symbols \cup {NoRef}]
       /\ climb' \in Seq([fn : Funs, var : Symbols])
       /\ pos' \in 0 .. Len(script)
    BY <1>1, <1>2 DEF Inductive, TypeOK
<1> QED BY <1>6, <1>7, <1>8, <1>9, <1>10, <1>11, <1>12, <1>13, Assembled

LEMMA FunctionStep == ASSUME Inductive, ResolveFunction PROVE Inductive'
<1>1. Visiting({"fun"}) /\ UNCHANGED <<script, refs, climb, status>>
    BY DEF ResolveFunction
<1>2. /\ TypeOK /\ Here \in 1 .. Len(script) /\ pos' = Here /\ pos \in Nat
      /\ Here = pos + 1 /\ script[Here] \in Nodes /\ script[Here].op = "fun"
      /\ Todo # <<>> /\ climb = <<>> /\ status = "resolving" /\ Here \in Funs
    BY <1>1, Visited
<1> PICK c, t, g, p, s, ps :
       /\ c = TopFrame.chain /\ t = Table /\ g = GetFunction /\ p = Here
       /\ s = Function(g, p, script[p].name) /\ ps = script[p].params
    OBVIOUS
<1>3. /\ g \in Funs /\ g \in Nat /\ g <= pos /\ g = c[Len(c)]
      /\ Len(c) \in DOMAIN c
      /\ Funs \subseteq Nat /\ Len(script) \in Nat
    BY <1>2, InnermostFunction, TopFrameType
<1>4. script[p].name \in Names /\ ps \in Seq(Params) /\ p \in Nat
    BY <1>2, NodeFields
<1>5. s \in Symbols /\ s.kind = "fun" /\ s.fn = g /\ s.node = p
    BY <1>3, <1>4 DEF Function, Symbols, Kinds
<1>6. /\ locals \in [Funs -> SUBSET Symbols]
      /\ locals' = [locals EXCEPT ![p] = Arguments(p, ps)]
      /\ parent \in [Funs -> Funs \cup {NoFun}]
      /\ parent' = [parent EXCEPT ![p] = g]
    BY <1>2 DEF ResolveFunction, TypeOK
<1>7. /\ locals' \in [Funs -> SUBSET Symbols]
      /\ locals'[p] = Arguments(p, ps)
      /\ \A f \in Funs : f # p => locals'[f] = locals[f]
      /\ parent' \in [Funs -> Funs \cup {NoFun}]
      /\ parent'[p] = g
      /\ \A f \in Funs : f # p => parent'[f] = parent[f]
    BY <1>2, <1>3, <1>4, <1>6, ArgumentsType
<1>8. \A f \in Funs : f > pos => locals[f] = {}
    BY DEF Inductive
<1>9. Preserving
  <2>1. \A f \in Funs : f <= pos =>
            parent'[f] = parent[f] /\ locals[f] \subseteq locals'[f]
      BY <1>2, <1>3, <1>4, <1>7
  <2>2. script' = script /\ refs' = refs
      BY <1>1
  <2>3. pos' \in Nat /\ pos <= pos'
      BY <1>2
  <2> QED BY <2>1, <2>2, <2>3 DEF Preserving
<1>10. StackOK'
  <2> PICK w : w = <<Body(p), Expr>>
      OBVIOUS
  <2>1. Expr \in Items /\ Body(p) \in Items
      BY <1>4 DEF Expr, Body, Items
  <2>2. w \in Seq(Items) /\ DOMAIN w = 1 .. 2 /\ w[1] = Body(p) /\ w[2] = Expr
      BY <2>1
  <2>3. ItemOK(c, Body(p))'
    <3>1. Arguments(p, ps)' = Arguments(p, ps)
        BY <1>1 DEF Arguments, Variable
    <3> QED BY <1>1, <1>2, <1>3, <1>7, <3>1 DEF ItemOK, Body
  <2>4. \A k \in DOMAIN w : ItemOK(c, w[k])'
      BY <2>2, <2>3, ExprOK
  <2>5. VisibleFrom(c, s)'
      BY <1>2, <1>3, <1>5, <1>7 DEF VisibleFrom, OnChain
  <2> PICK fr : fr = Frame(c, WithSymbol(t, s), w)
      OBVIOUS
  <2>6. fr \in Frames /\ FrameOK(fr)'
      BY <1>5, <1>9, <2>2, <2>4, <2>5, FrameWithSymbol
  <2>7. stack' = Append(Rest(<<>>), fr)
      BY DEF ResolveFunction
  <2> QED BY <1>2, <1>9, <2>6, <2>7, NothingToDo, StackPushed
<1>11. UpvaluesChained'
  <2>1. Funs' = Funs
      BY <1>1 DEF Funs
  <2> SUFFICES ASSUME NEW f \in Funs, NEW v \in Upvalues(f)'
               PROVE  parent'[f] # NoFun /\ v \in locals'[parent'[f]]
      BY <2>1 DEF UpvaluesChained
  <2>2. f # p
      BY <1>7 DEF Upvalues, Arguments, Variable
  <2>3. v \in Upvalues(f)
      BY <1>7, <2>2 DEF Upvalues
  <2>4. parent[f] # NoFun /\ v \in locals[parent[f]]
      BY <2>3 DEF Inductive, UpvaluesChained
  <2>5. parent[f] \in Funs
      BY <1>6, <2>4
  <2>6. parent[f] # p
      BY <1>2, <1>8, <2>4
  <2> QED BY <1>7, <2>2, <2>4, <2>5, <2>6
<1>12. \A f \in Funs : f > pos' => locals'[f] = {}
    BY <1>2, <1>3, <1>7, <1>8
<1>13. ClimbOK'
    BY <1>1, <1>2, <1>10, ClimbDone
<1>14. StatusOK'
    BY <1>1, <1>2 DEF StatusOK
<1>15. parent'[0] = NoFun
  <2>1. 0 \in Funs /\ p # 0
      BY <1>2, <1>3 DEF Funs
  <2> QED BY <1>7, <2>1 DEF Inductive
<1>16. /\ refs' \in [DOMAIN script -> Symbols \cup {NoRef}]
       /\ climb' \in Seq([fn : Funs, var : Symbols])
       /\ pos' \in 0 .. Len(script)
    BY <1>1, <1>2 DEF TypeOK
<1> QED BY <1>7, <1>9, <1>10, <1>11, <1>12, <1>13, <1>14, <1>15, <1>16, Assembled

-----------------------------------------------------------------------------
(* Actions that start an import.                                           *)
LEMMA ClimbStarted ==
    ASSUME NEW c \in Seq(Funs), TopFrame'.chain = c, Len(c) \in 1 .. Len(c),
           NEW v \in Symbols, climb' = <<[fn |-> c[Len(c)], var |-> v]>>,
           NEW m \in 1 .. Len(c), v \in locals'[c[m]]
    PROVE  ClimbOK' /\ climb' \in Seq([fn : Funs, var : Symbols])
<1> PICK a : a = [fn |-> c[Len(c)], var |-> v]
    OBVIOUS
<1>1. a \in [fn : Funs, var : Symbols]
    BY ElementOfSeq
<1>2. /\ climb' \in Seq([fn : Funs, var : Symbols])
      /\ Len(climb') = 1 /\ DOMAIN climb' = {1} /\ climb'[1] = a
    BY <1>1
<1>3. Len(c) + 1 - 1 = Len(c)
    OBVIOUS
<1>4. climb'[1].fn = c[Len(c) + 1 - 1] /\ climb'[1].var = v
    BY <1>2, <1>3
<1> QED BY <1>2, <1>3, <1>4 DEF ClimbOK

LEMMA VariableStep == ASSUME Inductive, ResolveVariable PROVE Inductive'
<1>1. Visiting({"var"}) /\ script' = script
    BY DEF ResolveVariable
<1>2. /\ TypeOK /\ Here \in 1 .. Len(script) /\ pos' = Here /\ pos \in Nat
      /\ Here = pos + 1 /\ script[Here] \in Nodes /\ script[Here].op = "var"
      /\ Todo # <<>> /\ climb = <<>> /\ status = "resolving"
    BY <1>1, Visited
<1> PICK c, s : c = TopFrame.chain /\ s = Table[script[Here].name]
    OBVIOUS
<1>3. script[Here].name \in Names
    BY <1>2, NodeFields
<1>4. s \in Symbols /\ VisibleFrom(c, s)
    BY <1>2, <1>3, InnermostFunction, TopFrameType DEF Tables
<1>5. CASE s.kind = "none" /\ Throw("unknown symbol")
  <2>1. "unknown symbol" \in Thrown
      BY DEF Thrown, Failures
  <2> QED BY <1>1, <1>5, <2>1, ThrowStep
<1>6. CASE ~IsValued(s) /\ Throw("not a variable")
  <2>1. "not a variable" \in Thrown
      BY DEF Thrown, Failures
  <2> QED BY <1>1, <1>6, <2>1, ThrowStep
<1>7. CASE /\ refs' = [refs EXCEPT ![Here] = s]
           /\ climb' = IF s.kind = "var"
                       THEN <<[fn |-> GetFunction, var |-> s]>> ELSE <<>>
           /\ stack' = Rest(<<>>)
           /\ UNCHANGED <<parent, locals, status>>
  <2>1. Preserving
      BY <1>1, <1>2, <1>7 DEF Preserving, TypeOK
  <2>2. StackOK' /\ TopFrame'.chain = c
      BY <1>2, <1>7, <2>1, NothingToDo, StackReplaced
  <2>3. StatusOK'
      BY <1>2, <1>7 DEF StatusOK
  <2>4. refs' \in [DOMAIN script -> Symbols \cup {NoRef}]
      BY <1>2, <1>4, <1>7 DEF TypeOK
  <2>5. pos' \in 0 .. Len(script)
      BY <1>2
  <2>6. CASE s.kind = "var"
    <3>1. climb' = <<[fn |-> c[Len(c)], var |-> s]>>
        BY <1>7, <2>6 DEF GetFunction
    <3>2. /\ c \in Seq(Funs) /\ Len(c) \in 1 .. Len(c)
          /\ DOMAIN c = 1 .. Len(c)
        BY InnermostFunction
    <3>3. PICK m \in 1 .. Len(c) : s \in locals'[c[m]]
        BY <1>4, <1>7, <2>6, <3>2 DEF VisibleFrom, OnChain
    <3>4. ClimbOK' /\ climb' \in Seq([fn : Funs, var : Symbols])
        BY <1>4, <2>2, <3>1, <3>2, <3>3, ClimbStarted
    <3> QED BY <1>7, <2>1, <2>2, <2>3, <2>4, <2>5, <3>4, FunctionsUnchanged
  <2>7. CASE s.kind # "var"
    <3>1. climb' = <<>>
        BY <1>7, <2>7
    <3> QED BY <1>7, <2>1, <2>2, <2>3, <2>4, <2>5, <3>1, Quiet
  <2> QED BY <2>6, <2>7
<1> QED BY <1>5, <1>6, <1>7 DEF ResolveVariable

LEMMA CallStep == ASSUME Inductive, ResolveCall PROVE Inductive'
<1>1. Visiting({"call"}) /\ script' = script
    BY DEF ResolveCall
<1>2. /\ TypeOK /\ Here \in 1 .. Len(script) /\ pos' = Here /\ pos \in Nat
      /\ Here = pos + 1 /\ script[Here] \in Nodes /\ script[Here].op = "call"
      /\ Todo # <<>> /\ climb = <<>> /\ status = "resolving"
    BY <1>1, Visited
<1> PICK c, s, p :
       c = TopFrame.chain /\ s = Table[script[Here].name] /\ p = Here
    OBVIOUS
<1>3. script[Here].name \in Names /\ script[p].argc \in Nat
    BY <1>2, NodeFields
<1>4. s \in Symbols /\ VisibleFrom(c, s)
    BY <1>2, <1>3, InnermostFunction, TopFrameType DEF Tables
<1>5. CASE s.kind = "none" /\ Throw("unknown symbol")
  <2>1. "unknown symbol" \in Thrown
      BY DEF Thrown, Failures
  <2> QED BY <1>1, <1>5, <2>1, ThrowStep
<1>6. CASE ~IsCallable(s) /\ Throw("not a function")
  <2>1. "not a function" \in Thrown
      BY DEF Thrown, Failures
  <2> QED BY <1>1, <1>6, <2>1, ThrowStep
<1>7. CASE /\ refs' = [refs EXCEPT ![p] = s]
           /\ stack' = Rest(Exprs(script[p].argc) \o
                            (IF s.kind = "fun" THEN <<Import(p)>> ELSE <<>>))
           /\ UNCHANGED <<parent, locals, climb, status>>
  <2>1. Preserving
      BY <1>1, <1>2, <1>7 DEF Preserving, TypeOK
  <2>2. refs' \in [DOMAIN script -> Symbols \cup {NoRef}] /\ refs'[p] = s
    <3>1. refs \in [DOMAIN script -> Symbols \cup {NoRef}]
        BY <1>2 DEF TypeOK
    <3>2. p \in DOMAIN script
        BY <1>2, LenProperties DEF TypeOK
    <3> QED BY <1>4, <1>7, <3>1, <3>2
  <2> PICK es, im, w : /\ es = Exprs(script[p].argc)
                       /\ im = IF s.kind = "fun" THEN <<Import(p)>> ELSE <<>>
                       /\ w = es \o im
      OBVIOUS
  <2>3. ItemOK(c, Import(p))' \/ s.kind # "fun"
    <3>1. VisibleFrom(c, s)'
        BY <1>2, <1>4, <2>1, InnermostFunction, VisibleStable
    <3>2. Import(p).do = "import" /\ Import(p).node = p
        BY DEF Import
    <3>3. p \in 1 .. pos'
        BY <1>2
    <3> QED BY <1>4, <2>2, <3>1, <3>2, <3>3 DEF ItemOK
  <2>4. es \in Seq(Items) /\ \A k \in DOMAIN es : ItemOK(c, es[k])'
      BY <1>3, ExprsType, ExprOK
  <2>5. im \in Seq(Items) /\ \A k \in DOMAIN im : ItemOK(c, im[k])'
    <3>1. CASE s.kind = "fun"
      <4>1. Import(p) \in Items
          BY <1>2 DEF Import, Items
      <4>2. /\ im \in Seq(Items)
            /\ \A k \in DOMAIN im : im[k] = Import(p)
          BY <3>1, <4>1
      <4> QED BY <2>3, <3>1, <4>2
    <3>2. CASE s.kind # "fun"
        BY <3>2, NothingToDo
    <3> QED BY <3>1, <3>2
  <2>6. w \in Seq(Items) /\ \A k \in DOMAIN w : ItemOK(c, w[k])'
    <3>1. /\ w \in Seq(Items) /\ Len(w) = Len(es) + Len(im)
          /\ \A k \in 1 .. Len(es) + Len(im) :
                w[k] = IF k <= Len(es) THEN es[k] ELSE im[k - Len(es)]
        BY <2>4, <2>5, ConcatProperties
    <3>2. /\ Len(es) \in Nat /\ DOMAIN es = 1 .. Len(es)
          /\ Len(im) \in Nat /\ DOMAIN im = 1 .. Len(im)
          /\ DOMAIN w = 1 .. Len(es) + Len(im)
        BY <2>4, <2>5, <3>1, LenProperties
    <3>3. ASSUME NEW k \in DOMAIN w PROVE ItemOK(c, w[k])'
      <4>1. CASE k <= Len(es)
          BY <2>4, <3>1, <3>2, <4>1
      <4>2. CASE ~(k <= Len(es))
        <5>1. k - Len(es) \in DOMAIN im /\ w[k] = im[k - Len(es)]
            BY <3>1, <3>2, <4>2
        <5> QED BY <2>5, <5>1
      <4> QED BY <4>1, <4>2
    <3> QED BY <3>1, <3>3
  <2>7. StackOK'
      BY <1>2, <1>7, <2>1, <2>6, StackReplaced
  <2>8. StatusOK'
      BY <1>2, <1>7 DEF StatusOK
  <2>9. pos' \in 0 .. Len(script)
      BY <1>2
  <2> QED BY <1>2, <1>7, <2>1, <2>2, <2>7, <2>8, <2>9, Quiet
<1> QED BY <1>5, <1>6, <1>7 DEF ResolveCall

(* A callee is visible, so its parent is on the chain of the caller; and   *)
(* its parent has every upvalue the callee has.                            *)
LEMMA ImportStep == ASSUME Inductive, ImportUpvalues PROVE Inductive'
<1>1. /\ Working("import")
      /\ UNCHANGED <<script, parent, locals, refs, status>>
    BY DEF ImportUpvalues
<1>2. /\ TypeOK /\ pos \in Nat /\ pos \in 0 .. Len(script) /\ pos' = pos
      /\ Todo # <<>> /\ climb = <<>> /\ status = "resolving"
      /\ Head(Todo).do = "import" /\ Head(Todo) \in Items
      /\ ItemOK(TopFrame.chain, Head(Todo))
    BY <1>1, Worked
<1>3. Preserving
    BY <1>1, <1>2 DEF Preserving
<1>4. StatusOK'
    BY <1>1, <1>2 DEF StatusOK
<1>5. refs' \in [DOMAIN script -> Symbols \cup {NoRef}]
    BY <1>1, <1>2 DEF TypeOK
<1> PICK c, s, callee, g :
       /\ c = TopFrame.chain /\ g = GetFunction
       /\ s = refs[Head(Todo).node] /\ callee = s.node
    OBVIOUS
<1>6. CASE stack' = Rest(<<>>) /\ UNCHANGED climb
  <2>1. StackOK'
      BY <1>2, <1>3, <1>6, NothingToDo, StackReplaced
  <2> QED BY <1>1, <1>2, <1>3, <1>4, <1>5, <1>6, <2>1, Quiet
<1>7. ASSUME NEW v \in Upvalues(callee) \ locals[g],
             climb' = <<[fn |-> g, var |-> v]>>, UNCHANGED stack
      PROVE  Inductive'
  <2>1. /\ s.kind = "fun" /\ OnChain(c, s.fn)
        /\ callee \in 1 .. pos /\ parent[callee] = s.fn
      BY <1>2 DEF ItemOK, VisibleFrom
  <2>2. callee \in Funs
      BY <1>2, <2>1, TopFrameType DEF Funs
  <2>3. v \in locals[s.fn]
      BY <2>1, <2>2 DEF Inductive, UpvaluesChained
  <2>4. v \in Symbols
      BY <1>2, <2>2 DEF TypeOK, Upvalues
  <2>5. /\ c \in Seq(Funs) /\ Len(c) \in 1 .. Len(c)
        /\ DOMAIN c = 1 .. Len(c) /\ g = c[Len(c)]
      BY InnermostFunction
  <2>6. PICK m \in 1 .. Len(c) : v \in locals'[c[m]]
      BY <1>1, <2>1, <2>3, <2>5 DEF OnChain
  <2>7. StackOK' /\ TopFrame'.chain = c
      BY <1>3, <1>7, StackUnchanged DEF TopFrame
  <2>8. climb' = <<[fn |-> c[Len(c)], var |-> v]>>
      BY <1>7, <2>5
  <2>9. ClimbOK' /\ climb' \in Seq([fn : Funs, var : Symbols])
      BY <2>4, <2>5, <2>6, <2>7, <2>8, ClimbStarted
  <2> QED BY <1>1, <1>2, <1>3, <1>4, <1>5, <2>7, <2>9, FunctionsUnchanged
<1> QED BY <1>6, <1>7 DEF ImportUpvalues

-----------------------------------------------------------------------------
(* The climb itself.                                                       *)
LEMMA Climbing ==
    ASSUME Inductive, Importing
    PROVE  /\ TypeOK /\ pos \in 0 .. Len(script) /\ pos \in Nat
           /\ climb \in Seq([fn : Funs, var : Symbols])
           /\ Len(climb) \in 1 .. Len(TopFrame.chain)
           /\ DOMAIN climb = 1 .. Len(climb)
           /\ \A n \in 1 .. Len(climb) :
                 /\ climb[n] \in [fn : Funs, var : Symbols]
                 /\ climb[n].fn = TopFrame.chain[Len(TopFrame.chain) + 1 - n]
                 /\ climb[n].var = Activation.var
           /\ Activation = climb[Len(climb)]
           /\ \E n \in 1 .. Len(TopFrame.chain) + 1 - Len(climb) :
                 Activation.var \in locals[TopFrame.chain[n]]
<1>1. TypeOK /\ climb # <<>>
    BY DEF Inductive, Importing
<1>2. pos \in 0 .. Len(script) /\ Len(script) \in Nat
    BY <1>1, TopFrameType DEF TypeOK
<1>3. climb \in Seq([fn : Funs, var : Symbols])
    BY <1>1 DEF TypeOK
<1>4. /\ Len(climb) \in Nat \ {0} /\ DOMAIN climb = 1 .. Len(climb)
      /\ \A n \in 1 .. Len(climb) : climb[n] \in [fn : Funs, var : Symbols]
    BY <1>1, <1>3, EmptySeq, LenProperties, ElementOfSeq
<1>5. Len(TopFrame.chain) \in Nat
    BY InnermostFunction
<1>6. ClimbOK
    BY DEF Inductive
<1>7. Len(climb) \in 1 .. Len(TopFrame.chain)
    BY <1>4, <1>5, <1>6 DEF ClimbOK
<1>8. \A n \in 1 .. Len(climb) :
         /\ climb[n].fn = TopFrame.chain[Len(TopFrame.chain) + 1 - n]
         /\ climb[n].var = climb[1].var
    BY <1>4, <1>6 DEF ClimbOK
<1>9. Activation.var = climb[1].var
    BY <1>4, <1>8 DEF Activation
<1>10. \E n \in 1 .. Len(TopFrame.chain) + 1 - Len(climb) :
          climb[1].var \in locals[TopFrame.chain[n]]
    BY <1>1, <1>6 DEF ClimbOK
<1>11. \A n \in 1 .. Len(climb) :
          /\ climb[n] \in [fn : Funs, var : Symbols]
          /\ climb[n].fn = TopFrame.chain[Len(TopFrame.chain) + 1 - n]
          /\ climb[n].var = Activation.var
    BY <1>4, <1>8, <1>9
<1>12. \E n \in 1 .. Len(TopFrame.chain) + 1 - Len(climb) :
          Activation.var \in locals[TopFrame.chain[n]]
    BY <1>9, <1>10
<1>13. Activation = climb[Len(climb)]
    BY DEF Activation
<1>14. pos \in Nat
    BY <1>2
<1> QED BY <1>1, <1>2, <1>3, <1>4, <1>7, <1>11, <1>12, <1>13, <1>14

LEMMA ChainStep ==
    ASSUME NEW c \in Seq(Funs), ChainOK(c),
           NEW k \in 1 .. Len(c), k + 1 <= Len(c)
    PROVE  /\ c[k] \in Funs /\ c[k + 1] \in Funs /\ c[k + 1] <= pos
           /\ parent[c[k + 1]] = c[k]
<1>1. DOMAIN c = 1 .. Len(c) /\ Len(c) \in Nat
    BY LenProperties
<1>2. k + 1 \in 2 .. Len(c) /\ k + 1 \in 1 .. Len(c) /\ (k + 1) - 1 = k
    BY <1>1
<1>3. parent[c[k + 1]] = c[(k + 1) - 1]
    BY <1>2 DEF ChainOK
<1>4. c[k + 1] <= pos
    BY <1>1, <1>2 DEF ChainOK
<1> QED BY <1>2, <1>3, <1>4, ElementOfSeq

LEMMA FoundStep == ASSUME Inductive, ImportFound PROVE Inductive'
<1>1. /\ Importing /\ UNCHANGED <<script, pos, stack, parent, refs, status>>
      /\ climb' = SubSeq(climb, 1, Len(climb) - 1)
    BY DEF ImportFound
<1>2. PICK c, L, N, v :
         /\ c = TopFrame.chain /\ L = Len(climb) /\ N = Len(c)
         /\ v = Activation.var
    OBVIOUS
<1>3. N \in Nat /\ L \in 1 .. N
    BY <1>1, <1>2, InnermostFunction, Climbing
<1>4. c \in Seq(Funs) /\ DOMAIN c = 1 .. N /\ ChainOK(c)
    BY <1>2, InnermostFunction
<1>5. /\ climb \in Seq([fn : Funs, var : Symbols]) /\ Activation = climb[L]
      /\ \A n \in 1 .. L : climb[n].fn = c[N + 1 - n] /\ climb[n].var = v
    BY <1>1, <1>2, Climbing
<1>6. TypeOK /\ pos \in Nat /\ pos \in 0 .. Len(script)
    BY <1>1, Climbing
<1>7. /\ parent \in [Funs -> Funs \cup {NoFun}]
      /\ locals \in [Funs -> SUBSET Symbols]
      /\ refs \in [DOMAIN script -> Symbols \cup {NoRef}]
      /\ Funs \subseteq Nat
    BY <1>6, TopFrameType DEF TypeOK
<1>8. v \in locals[c[N + 1 - L]] /\ v \in Symbols
  <2>1. /\ Activation \in [fn : Funs, var : Symbols]
        /\ Activation.fn = c[N + 1 - L]
      BY <1>1, <1>2, <1>3, <1>5, Climbing
  <2> QED BY <1>2, <2>1 DEF ImportFound
<1>9. StatusOK'
    BY <1>1 DEF Importing, StatusOK
<1>10. CASE L = 1
  <2>1. locals' = locals
      BY <1>2, <1>10 DEF ImportFound
  <2>2. climb' = <<>>
      BY <1>1, <1>2, <1>5, <1>10
  <2>3. Preserving
      BY <1>1, <1>6, <2>1 DEF Preserving
  <2>4. StackOK'
      BY <1>1, <2>3, StackUnchanged
  <2> QED BY <1>1, <1>6, <1>7, <1>9, <2>1, <2>2, <2>3, <2>4, Quiet
<1>11. CASE L # 1
  <2>1. PICK k, g, up : k = N + 1 - L /\ g = c[k + 1] /\ up = c[k]
      OBVIOUS
  <2>2. /\ L - 1 \in 1 .. L /\ L > 1 /\ L - 1 <= N
        /\ k \in 1 .. N /\ k + 1 <= N /\ k + 1 \in 1 .. k + 1
        /\ N + 1 - (L - 1) = k + 1
      BY <1>3, <1>11, <2>1
  <2>3. g \in Funs /\ g <= pos /\ up \in Funs /\ parent[g] = up
      BY <1>2, <1>4, <2>1, <2>2, ChainStep
  <2>5. climb[L - 1].fn = g
      BY <1>5, <2>1, <2>2
  <2>6. locals' = [locals EXCEPT ![g] = @ \cup {v}]
    <3>1. Len(climb) > 1
        BY <1>2, <2>2
    <3> QED BY <1>2, <2>5, <3>1 DEF ImportFound
  <2>7. /\ locals' \in [Funs -> SUBSET Symbols]
        /\ locals'[g] = locals[g] \cup {v}
        /\ \A f \in Funs : f # g => locals'[f] = locals[f]
        /\ \A f \in Funs : locals[f] \subseteq locals'[f]
      BY <1>7, <1>8, <2>3, <2>6
  <2>8. Preserving
      BY <1>1, <1>6, <2>7 DEF Preserving
  <2>9. StackOK' /\ TopFrame' = TopFrame
      BY <1>1, <2>8, StackUnchanged DEF TopFrame
  <2>10. /\ climb' \in Seq([fn : Funs, var : Symbols])
         /\ Len(climb') = L - 1 /\ DOMAIN climb' = 1 .. L - 1
         /\ \A n \in 1 .. L - 1 : climb'[n] = climb[n]
    <3>1. PICK t, r, S : /\ t = climb /\ r = climb'
                         /\ S = [fn : Funs, var : Symbols]
        OBVIOUS
    <3>2. t \in Seq(S) /\ Len(t) >= 1 /\ r = SubSeq(t, 1, Len(t) - 1)
        BY <1>1, <1>2, <1>5, <2>2, <3>1
    <3>3. /\ r \in Seq(S) /\ Len(r) = Len(t) - 1
          /\ DOMAIN r = 1 .. Len(t) - 1
          /\ \A i \in 1 .. Len(t) - 1 : r[i] = t[i]
        BY <3>2, Popped
    <3> QED BY <1>2, <3>1, <3>3
  <2>11. ClimbOK'
    <3>1. \A n \in 1 .. L - 1 : n \in 1 .. L
        BY <1>3
    <3>2. \A n \in 1 .. L - 1 : climb'[n].fn = c[N + 1 - n] /\ climb'[n].var = v
        BY <1>5, <2>10, <3>1
    <3>3. 1 \in 1 .. L - 1
        BY <2>2
    <3>4. climb'[1].var = v
        BY <3>2, <3>3
    <3>5. \E n \in 1 .. N + 1 - (L - 1) : v \in locals'[c[n]]
        BY <2>1, <2>2, <2>7
    <3> QED BY <1>2, <2>2, <2>9, <2>10, <3>2, <3>4, <3>5 DEF ClimbOK
  <2>12. UpvaluesChained'
    <3>1. Funs' = Funs
        BY <1>1 DEF Funs
    <3> SUFFICES ASSUME NEW f \in Funs, NEW u \in Upvalues(f)'
                 PROVE  parent[f] # NoFun /\ u \in locals'[parent[f]]
        BY <1>1, <3>1 DEF UpvaluesChained
    <3>2. CASE u \in locals[f]
      <4>1. u \in Upvalues(f)
          BY <3>2 DEF Upvalues
      <4>2. parent[f] # NoFun /\ u \in locals[parent[f]]
          BY <4>1 DEF Inductive, UpvaluesChained
      <4>3. parent[f] \in Funs
          BY <1>7, <4>2
      <4> QED BY <2>7, <4>2, <4>3
    <3>3. CASE u \notin locals[f]
      <4>1. f = g /\ u = v
          BY <2>7, <3>3 DEF Upvalues
      <4>2. up # NoFun
          BY <1>7, <2>3
      <4>3. v \in locals[up]
          BY <1>8, <2>1
      <4> QED BY <2>3, <2>7, <4>1, <4>2, <4>3
    <3> QED BY <3>2, <3>3
  <2>13. ASSUME NEW f \in Funs, f > pos' PROVE locals'[f] = {}
    <3>1. locals[f] = {}
        BY <1>1, <2>13 DEF Inductive
    <3>2. f # g
        BY <1>1, <1>6, <1>7, <2>3, <2>13
    <3> QED BY <2>7, <3>1, <3>2
  <2>14. /\ parent'[0] = NoFun
         /\ parent' \in [Funs -> Funs \cup {NoFun}]
         /\ refs' \in [DOMAIN script -> Symbols \cup {NoRef}]
         /\ pos' \in 0 .. Len(script)
      BY <1>1, <1>6, <1>7 DEF Inductive
  <2> QED BY <1>9, <2>7, <2>8, <2>9, <2>10, <2>11, <2>12, <2>13, <2>14,
             Assembled
<1> QED BY <1>10, <1>11

(* The function that has the variable is further up the chain, so that the *)
(* activation's function is not the first of the chain and has a parent.   *)
LEMMA FromParentStep == ASSUME Inductive, ImportFromParent PROVE Inductive'
<1>1. /\ Importing
      /\ UNCHANGED <<script, pos, stack, parent, locals, refs>>
      /\ Activation.var \notin locals[Activation.fn]
    BY DEF ImportFromParent
<1>2. PICK c, L, N, v :
         /\ c = TopFrame.chain /\ L = Len(climb) /\ N = Len(c)
         /\ v = Activation.var
    OBVIOUS
<1>3. N \in Nat /\ L \in 1 .. N
    BY <1>1, <1>2, InnermostFunction, Climbing
<1>4. c \in Seq(Funs) /\ DOMAIN c = 1 .. N /\ ChainOK(c)
    BY <1>2, InnermostFunction
<1>5. /\ climb \in Seq([fn : Funs, var : Symbols]) /\ Activation = climb[L]
      /\ \A n \in 1 .. L : climb[n].fn = c[N + 1 - n] /\ climb[n].var = v
      /\ Activation \in [fn : Funs, var : Symbols]
    BY <1>1, <1>2, <1>3, Climbing
<1>6. TypeOK /\ pos \in Nat /\ pos \in 0 .. Len(script)
    BY <1>1, Climbing
<1>7. PICK m \in 1 .. N + 1 - L : v \in locals[c[m]]
    BY <1>1, <1>2, Climbing
<1>8. m # N + 1 - L
  <2>1. Activation.fn = c[N + 1 - L]
      BY <1>3, <1>5
  <2> QED BY <1>1, <1>2, <1>7, <2>1
<1>9. /\ m \in 1 .. N - L /\ N - L \in 1 .. N /\ N + 1 - L \in 2 .. N
      /\ N + 1 - L - 1 = N - L /\ N + 1 - (L + 1) = N - L /\ L + 1 <= N
    BY <1>3, <1>7, <1>8
<1>10. PICK up : up = c[N - L]
    OBVIOUS
<1>11. up \in Funs
    BY <1>2, <1>4, <1>9, <1>10, ElementOfSeq
<1>12. parent[Activation.fn] = up
  <2>1. PICK k : k = N - L
      OBVIOUS
  <2>2. k \in 1 .. N /\ k + 1 <= N /\ k + 1 = N + 1 - L
      BY <1>3, <1>9, <2>1
  <2>3. Activation.fn = c[k + 1]
      BY <1>3, <1>5, <2>2
  <2>4. parent[c[k + 1]] = c[k]
      BY <1>2, <1>4, <2>2, ChainStep
  <2> QED BY <1>10, <2>1, <2>3, <2>4
<1>13. up # NoFun
    BY <1>6, <1>11, TopFrameType
<1>14. PICK a : a = [fn |-> up, var |-> v]
    OBVIOUS
<1>15. climb' = Append(climb, a) /\ status' = status
    BY <1>2, <1>12, <1>13, <1>14 DEF ImportFromParent
<1>16. a \in [fn : Funs, var : Symbols] /\ a.fn = up /\ a.var = v
    BY <1>2, <1>5, <1>11, <1>14
<1>17. /\ climb' \in Seq([fn : Funs, var : Symbols])
       /\ Len(climb') = L + 1 /\ DOMAIN climb' = 1 .. L + 1
       /\ \A n \in 1 .. L : climb'[n] = climb[n]
       /\ climb'[L + 1] = a
    BY <1>2, <1>5, <1>15, <1>16
<1>18. Preserving
    BY <1>1, <1>6 DEF Preserving
<1>19. StackOK' /\ TopFrame' = TopFrame
    BY <1>1, <1>18, StackUnchanged DEF TopFrame
<1>20. ClimbOK'
  <2>1. climb'[L + 1].fn = c[N + 1 - (L + 1)] /\ climb'[L + 1].var = v
      BY <1>9, <1>10, <1>16, <1>17
  <2>2. \A n \in 1 .. L + 1 : n \in 1 .. L \/ n = L + 1
      BY <1>3
  <2>3. \A n \in 1 .. L + 1 : climb'[n].fn = c[N + 1 - n] /\ climb'[n].var = v
      BY <1>5, <1>17, <2>1, <2>2
  <2>4. 1 \in 1 .. L + 1
      BY <1>3
  <2>5. climb'[1].var = v
      BY <2>3, <2>4
  <2>6. \E n \in 1 .. N + 1 - (L + 1) : v \in locals'[c[n]]
      BY <1>1, <1>7, <1>9
  <2> QED BY <1>2, <1>9, <1>17, <1>19, <2>3, <2>5, <2>6 DEF ClimbOK
<1>21. StatusOK'
    BY <1>1, <1>15 DEF Importing, StatusOK
<1>22. refs' \in [DOMAIN script -> Symbols \cup {NoRef}]
    BY <1>1, <1>6 DEF TypeOK
<1> QED BY <1>1, <1>6, <1>17, <1>18, <1>19, <1>20, <1>21, <1>22,
           FunctionsUnchanged

-----------------------------------------------------------------------------
(* The invariant holds initially: the toplevel frame sees the inputs, which*)
(* are locals of the toplevel function, and registered symbols.            *)
LEMMA InitInductive == ASSUME Init PROVE Inductive
<1>1. script \in Seq(Nodes) /\ Len(script) \in Nat
      /\ DOMAIN script = 1 .. Len(script)
    BY LenProperties DEF Init
<1>2. 0 \in Funs /\ Funs \subseteq Nat /\ pos = 0
    BY <1>1 DEF Funs, Init
<1> PICK c, t, fr :
       c = <<0>> /\ t = ToplevelTable /\ fr = Frame(c, t, <<Expr>>)
    OBVIOUS
<1>3. c \in Seq(Funs) /\ c # <<>> /\ Len(c) = 1 /\ DOMAIN c = {1} /\ c[1] = 0
    BY <1>2
<1>4. fr \in Frames /\ fr.chain = c /\ fr.table = t /\ fr.todo = <<Expr>>
    BY <1>3, OneExpr, ToplevelTableType DEF Frame, Frames
<1>5. /\ stack \in Seq(Frames) /\ stack # <<>> /\ Len(stack) = 1
      /\ DOMAIN stack = {1} /\ stack[1] = fr
    BY <1>4 DEF Init
<1>6. locals \in [Funs -> SUBSET Symbols]
    BY <1>2, ArgumentsType DEF Init
<1>7. TypeOK
  <2>1. pos \in 0 .. Len(script)
      BY <1>1, <1>2
  <2>2. parent \in [Funs -> Funs \cup {NoFun}]
      BY DEF Init
  <2>3. refs \in [DOMAIN script -> Symbols \cup {NoRef}]
      BY DEF Init
  <2>4. climb \in Seq([fn : Funs, var : Symbols])
      BY EmptySeq DEF Init
  <2>5. status \in {"resolving", "resolved"} \cup Failures
      BY DEF Init
  <2>6. \A i \in DOMAIN stack : stack[i].chain # <<>>
      BY <1>3, <1>4, <1>5
  <2> QED BY <1>1, <1>5, <1>6, <2>1, <2>2, <2>3, <2>4, <2>5, <2>6 DEF TypeOK
<1>8. ChainOK(c)
    BY <1>2, <1>3 DEF ChainOK
<1>9. \A x \in Names : VisibleFrom(c, t[x])
  <2> SUFFICES ASSUME NEW x \in Names PROVE VisibleFrom(c, t[x])
      OBVIOUS
  <2>1. CASE x \in ParamNames(Inputs)
    <3>1. t[x] = Variable(0, 0, x)
        BY <2>1 DEF ToplevelTable, WithArguments
    <3>2. Variable(0, 0, x) \in locals[0]
        BY <1>2, <2>1 DEF Init, Arguments
    <3> QED BY <1>3, <3>1, <3>2 DEF VisibleFrom, OnChain, Variable
  <2>2. CASE x \notin ParamNames(Inputs)
    <3>1. t[x] = Global(x)
        BY <2>2 DEF ToplevelTable, WithArguments
    <3> QED BY <3>1 DEF VisibleFrom, Global
  <2> QED BY <2>1, <2>2
<1>10. FrameOK(fr)
  <2>1. \A k \in DOMAIN <<Expr>> : <<Expr>>[k] = Expr
      OBVIOUS
  <2>2. \A k \in DOMAIN <<Expr>> : ItemOK(c, <<Expr>>[k])
      BY <2>1, ExprOK
  <2> QED BY <1>4, <1>8, <1>9, <2>2 DEF FrameOK
<1>11. ClimbOK
  <2>1. climb = <<>> /\ Len(climb) = 0 /\ DOMAIN climb = {}
      BY DEF Init
  <2>2. Len(TopFrame.chain) = 1
      BY <1>3, <1>4, <1>5 DEF TopFrame
  <2> QED BY <2>1, <2>2 DEF ClimbOK
<1>12. UpvaluesChained
  <2>1. \A f \in Funs : Upvalues(f) = {}
      BY DEF Init, Upvalues, Arguments, Variable
  <2> QED BY <2>1 DEF UpvaluesChained
<1>13. \A f \in Funs : f > pos => locals[f] = {}
    BY <1>2 DEF Init
<1>14. ImportsSucceed
    BY DEF Init, ImportsSucceed
<1>15. \A i \in DOMAIN stack : FrameOK(stack[i])
    BY <1>5, <1>10
<1> QED BY <1>2, <1>7, <1>11, <1>12, <1>13, <1>14, <1>15 DEF Inductive, Init

(* A step that changes nothing.                                            *)
LEMMA StutterStep == ASSUME Inductive, UNCHANGED rvars PROVE Inductive'
<1>1. /\ script' = script /\ pos' = pos /\ stack' = stack
      /\ parent' = parent /\ locals' = locals /\ refs' = refs
      /\ climb' = climb /\ status' = status
    BY DEF rvars
<1>2. TypeOK /\ ImportsSucceed /\ ClimbOK
    BY DEF Inductive
<1>3. pos \in 0 .. Len(script) /\ Len(script) \in Nat
    BY <1>2, TopFrameType DEF TypeOK
<1>4. Preserving
    BY <1>1, <1>3 DEF Preserving
<1>5. StackOK'
    BY <1>1, <1>4, StackUnchanged
<1>6. ClimbOK'
    BY <1>1, <1>2 DEF ClimbOK, TopFrame
<1>7. StatusOK'
    BY <1>1, <1>2 DEF StatusOK, TypeOK, ImportsSucceed
<1>8. /\ climb' \in Seq([fn : Funs, var : Symbols])
      /\ refs' \in [DOMAIN script -> Symbols \cup {NoRef}]
      /\ pos' \in 0 .. Len(script)
    BY <1>1, <1>2, <1>3 DEF TypeOK
<1> QED BY <1>1, <1>4, <1>5, <1>6, <1>7, <1>8, FunctionsUnchanged

LEMMA NextInductive == ASSUME Inductive, [Next]_rvars PROVE Inductive'
<1>1. CASE ResolveOperands  BY <1>1, OperandsStep
<1>2. CASE ResolveVariable  BY <1>2, VariableStep
<1>3. CASE ResolveReturn    BY <1>3, ReturnStep
<1>4. CASE ResolveLet       BY <1>4, LetStep
<1>5. CASE EnterLet         BY <1>5, EnterLetStep
<1>6. CASE ResolveFunction  BY <1>6, FunctionStep
<1>7. CASE EnterBody        BY <1>7, EnterBodyStep
<1>8. CASE ResolveCall      BY <1>8, CallStep
<1>9. CASE ImportUpvalues   BY <1>9, ImportStep
<1>10. CASE CloseFrame      BY <1>10, CloseStep
<1>11. CASE ImportFound     BY <1>11, FoundStep
<1>12. CASE ImportFromParent BY <1>12, FromParentStep
<1>13. CASE UNCHANGED rvars BY <1>13, StutterStep
<1> QED BY <1>1, <1>2, <1>3, <1>4, <1>5, <1>6, <1>7, <1>8, <1>9, <1>10,
           <1>11, <1>12, <1>13 DEF Next

-----------------------------------------------------------------------------
(* The inductive invariant of ASTNode::resolveVariables() and              *)
(* FunctionSymbol::importUpvalue() holds throughout.                       *)
THEOREM Invariance == Spec => []Inductive
<1>1. Init => Inductive
    BY InitInductive
<1>2. Inductive /\ [Next]_rvars => Inductive'
    BY NextInductive
<1> QED BY <1>1, <1>2, PTL DEF Spec

(* Type correctness: every state component of the resolver stays within    *)
(* its type; in particular a frame and an enclosing function always exist  *)
(* for getFrame() and getFunction() to find.                               *)
THEOREM TypeCorrect == Spec => []TypeOK
<1>1. Inductive => TypeOK
    BY DEF Inductive
<1> QED BY <1>1, Invariance, PTL

(* Closure conversion is complete upwards: whatever a function has to get  *)
(* from outside, the function around it has (FunctionSymbol::locals).      *)
THEOREM ClosureConversion == Spec => []UpvaluesChained
<1>1. Inductive => UpvaluesChained
    BY DEF Inductive
<1> QED BY <1>1, Invariance, PTL

(* importUpvalue() never throws: the variable it is asked for is a local   *)
(* of some function on the way up.                                         *)
THEOREM ImportsFound == Spec => []ImportsSucceed
<1>1. Inductive => ImportsSucceed
    BY DEF Inductive
<1> QED BY <1>1, Invariance, PTL

-----------------------------------------------------------------------------
(* The functions whose locals a step changes are being defined: an import  *)
(* climbs from the innermost frame, a `let' adds to the function of that   *)
(* frame, and a function gets its arguments when its node is visited.      *)
LEMMA OnTopDefining ==
    ASSUME TypeOK, NEW k \in DOMAIN TopFrame.chain
    PROVE  Defining(TopFrame.chain[k])
<1>1. Len(stack) \in DOMAIN stack /\ TopFrame = stack[Len(stack)]
    BY TopFrameType DEF TopFrame
<1> QED BY <1>1 DEF Defining

LEMMA SignatureStep ==
    ASSUME Inductive, [Next]_rvars, NEW f \in Funs, ~Defining(f)
    PROVE  locals'[f] = locals[f]
<1>1. TypeOK
    BY DEF Inductive
<1>2. CASE ResolveLet
  <2>1. /\ GetFunction = TopFrame.chain[Len(TopFrame.chain)]
        /\ Len(TopFrame.chain) \in DOMAIN TopFrame.chain
      BY InnermostFunction
  <2>2. f # GetFunction
      BY <1>1, <2>1, OnTopDefining
  <2> QED BY <1>1, <1>2, <2>2 DEF ResolveLet, TypeOK
<1>3. CASE ResolveFunction
  <2>1. Here = pos + 1 /\ pos \in Nat
      BY <1>3, Visited DEF ResolveFunction
  <2>2. f # Here
      BY <2>1 DEF Defining
  <2> QED BY <1>1, <1>3, <2>2 DEF ResolveFunction, TypeOK
<1>4. CASE ImportFound
  <2>1. CASE Len(climb) > 1
    <3>1. Importing
        BY <1>4 DEF ImportFound
    <3>2. PICK n, N : n = Len(climb) - 1 /\ N = Len(TopFrame.chain)
        OBVIOUS
    <3>3. Len(climb) \in 1 .. N
        BY <3>1, <3>2, Climbing
    <3>4. N \in Nat
        BY <3>2, InnermostFunction
    <3>5. n \in 1 .. Len(climb) /\ N + 1 - n \in 1 .. N
        BY <2>1, <3>2, <3>3, <3>4
    <3>6. climb[n].fn = TopFrame.chain[N + 1 - n]
        BY <3>1, <3>2, <3>5, Climbing
    <3>7. DOMAIN TopFrame.chain = 1 .. N
        BY <3>2, InnermostFunction
    <3>8. f # climb[n].fn
        BY <1>1, <3>5, <3>6, <3>7, OnTopDefining
    <3> QED BY <1>1, <1>4, <2>1, <3>2, <3>8 DEF ImportFound, TypeOK
  <2>2. CASE ~(Len(climb) > 1)
      BY <1>4, <2>2 DEF ImportFound
  <2> QED BY <2>1, <2>2
<1>5. CASE UNCHANGED locals
    BY <1>5
<1>6. ASSUME ~ResolveLet, ~ResolveFunction, ~ImportFound
      PROVE  UNCHANGED locals
    BY <1>6 DEF Next, rvars, ResolveOperands, ResolveVariable, ResolveReturn,
                EnterLet, EnterBody, ResolveCall, ImportUpvalues, CloseFrame,
                ImportFromParent, Throw
<1> QED BY <1>2, <1>3, <1>4, <1>5, <1>6

(* Once a function is defined nothing is added to its locals, the list its *)
(* callers have copied and its LLVM signature is made of.                  *)
THEOREM SignaturesAreFinal == Spec => SignaturesFinal
<1>1. Inductive /\ [Next]_rvars
        => [\A f \in Funs : ~Defining(f) => locals'[f] = locals[f]]_rvars
    BY SignatureStep
<1> QED BY <1>1, Invariance, PTL DEF Spec, SignaturesFinal
-----------------------------------------------------------------------------
(* Scopes, those of the subtrees of a node among them.                     *)
LEMMA ScopeFields ==
    ASSUME NEW c, NEW t, NEW s
    PROVE  /\ Scope(c, t, s).chain = c
           /\ Scope(c, t, s).table = t
           /\ Scope(c, t, s).seen = s
BY DEF Scope

LEMMA ScopeType ==
    ASSUME NEW sc \in Scopes
    PROVE  /\ sc.chain \in Seq(Nat) /\ Len(sc.chain) \in 1 .. Len(sc.chain)
           /\ sc.table \in Tables /\ sc.seen \subseteq Symbols
           /\ Innermost(sc) \in Nat
           /\ sc = Scope(sc.chain, sc.table, sc.seen)
<1>1. /\ sc.chain \in Seq(Nat) /\ sc.chain # <<>>
      /\ sc.table \in Tables /\ sc.seen \subseteq Symbols
      /\ sc = Scope(sc.chain, sc.table, sc.seen)
  BY DEF Scopes, Scope
<1>2. Len(sc.chain) \in 1 .. Len(sc.chain)
  BY <1>1, LenProperties, EmptySeq
<1>3. Innermost(sc) \in Nat
  BY <1>1, <1>2, ElementOfSeq DEF Innermost
<1> QED  BY <1>1, <1>2, <1>3

LEMMA MakeScope ==
    ASSUME NEW c \in Seq(Nat), c # <<>>, NEW t \in Tables,
           NEW s \in SUBSET Symbols
    PROVE  Scope(c, t, s) \in Scopes
BY DEF Scope, Scopes

LEMMA NodeAt ==
    ASSUME script \in Seq(Nodes), NEW p \in 1 .. Len(script)
    PROVE  script[p] \in Nodes /\ p \in Nat /\ Len(script) \in Nat
BY LenProperties, ElementOfSeq

LEMMA InnerScopes ==
    ASSUME script \in Seq(Nodes), NEW p \in 1 .. Len(script), NEW sc \in Scopes
    PROVE  /\ script[p].op = "let" => LetScope(sc, p) \in Scopes
           /\ script[p].op = "fun" =>
                 /\ NamedScope(sc, p) \in Scopes
                 /\ BodyScope(sc, p) \in Scopes
<1> DEFINE n == script[p]  f == Innermost(sc)
<1>1. n \in Nodes /\ p \in Nat
  BY NodeAt
<1>2. /\ sc.chain \in Seq(Nat) /\ sc.chain # <<>> /\ f \in Nat
      /\ sc.table \in Tables /\ sc.seen \in SUBSET Symbols
  <2>1. sc.chain # <<>>
    BY DEF Scopes
  <2> QED  BY <2>1, ScopeType
<1>3. ASSUME n.op = "let" PROVE LetScope(sc, p) \in Scopes
  <2>1. n.name \in Names
    BY <1>1, <1>3, NodeFields
  <2> DEFINE v == Variable(f, p, n.name)
  <2>2. v \in Symbols
    BY <1>1, <1>2, <2>1 DEF Variable, Symbols, Kinds
  <2> HIDE DEF v
  <2>3. WithSymbol(sc.table, v) \in Tables
    BY <1>2, <2>2, TableType
  <2>4. Scope(sc.chain, WithSymbol(sc.table, v), sc.seen \cup {v}) \in Scopes
    BY <1>2, <2>2, <2>3, MakeScope
  <2> QED  BY <2>4 DEF LetScope, v
<1>4. ASSUME n.op = "fun" PROVE NamedScope(sc, p) \in Scopes
  <2>1. n.name \in Names
    BY <1>1, <1>4, NodeFields
  <2> DEFINE s == Function(f, p, n.name)
  <2>2. s \in Symbols
    BY <1>1, <1>2, <2>1 DEF Function, Symbols, Kinds
  <2> HIDE DEF s
  <2>3. WithSymbol(sc.table, s) \in Tables
    BY <1>2, <2>2, TableType
  <2>4. Scope(sc.chain, WithSymbol(sc.table, s), sc.seen) \in Scopes
    BY <1>2, <2>3, MakeScope
  <2> QED  BY <2>4 DEF NamedScope, s
<1>5. ASSUME n.op = "fun" PROVE BodyScope(sc, p) \in Scopes
  <2>1. n.params \in Seq(Params)
    BY <1>1, <1>5, NodeFields
  <2>2. Arguments(p, n.params) \subseteq Symbols
    BY <1>1, <2>1, ArgumentsType
  <2>3. WithArguments(sc.table, p, n.params) \in Tables
    BY <1>1, <1>2, <2>1, TableType
  <2>4. Append(sc.chain, p) \in Seq(Nat) /\ Append(sc.chain, p) # <<>>
    BY <1>1, <1>2
  <2>5. sc.seen \cup Arguments(p, n.params) \in SUBSET Symbols
    BY <1>2, <2>2
  <2>6. Scope(Append(sc.chain, p), WithArguments(sc.table, p, n.params),
              sc.seen \cup Arguments(p, n.params)) \in Scopes
    BY <2>3, <2>4, <2>5, MakeScope
  <2> QED  BY <2>6 DEF BodyScope
<1> QED  BY <1>3, <1>4, <1>5

LEMMA SubscopesType ==
    ASSUME script \in Seq(Nodes), NEW p \in 1 .. Len(script), NEW sc \in Scopes
    PROVE  /\ Subscopes(sc, p) \in Seq(Scopes)
           /\ Len(Subscopes(sc, p)) = Arity(script[p])
           /\ Arity(script[p]) \in Nat
           /\ script[p].op \notin {"let", "fun"} =>
                 \A i \in 1 .. Arity(script[p]) : Subscopes(sc, p)[i] = sc
<1> DEFINE n == script[p]
<1>1. n \in Nodes /\ Arity(n) \in Nat
  BY NodeAt, NodeFields
<1>2. CASE n.op = "let"
  <2>1. LetScope(sc, p) \in Scopes
    BY <1>2, InnerScopes
  <2>2. Subscopes(sc, p) = <<sc, LetScope(sc, p)>>
    BY <1>2 DEF Subscopes
  <2>3. Arity(n) = 2
    BY <1>2 DEF Arity
  <2> DEFINE l == LetScope(sc, p)
  <2> HIDE DEF l
  <2>4. l \in Scopes => <<sc, l>> \in Seq(Scopes) /\ Len(<<sc, l>>) = 2
    OBVIOUS
  <2> QED  BY <1>1, <1>2, <2>1, <2>2, <2>3, <2>4 DEF l
<1>3. CASE n.op = "fun"
  <2> DEFINE m == NamedScope(sc, p)  b == BodyScope(m, p)
  <2>1. m \in Scopes
    BY <1>3, InnerScopes
  <2>2. Subscopes(sc, p) = <<b, m>>
    BY <1>3 DEF Subscopes
  <2>3. Arity(n) = 2
    BY <1>3 DEF Arity
  <2> HIDE DEF m
  <2>4. b \in Scopes
    BY <1>3, <2>1, InnerScopes
  <2> HIDE DEF b
  <2>5. <<b, m>> \in Seq(Scopes) /\ Len(<<b, m>>) = 2
    BY <2>1, <2>4
  <2> QED  BY <1>1, <1>3, <2>2, <2>3, <2>5
<1>4. CASE n.op \notin {"let", "fun"}
  <2> DEFINE k == Arity(n)  s == [i \in 1 .. k |-> sc]
  <2>1. Subscopes(sc, p) = s
    BY <1>4 DEF Subscopes
  <2>2. k \in Nat
    BY <1>1
  <2> HIDE DEF k
  <2>3. s \in Seq(Scopes) /\ Len(s) = k /\ \A i \in 1 .. k : s[i] = sc
    BY <2>2
  <2> HIDE DEF s
  <2> QED  BY <2>1, <2>2, <2>3 DEF k
<1> QED  BY <1>2, <1>3, <1>4

(* One step of the walk.                                                   *)
LEMMA VisitStep ==
    ASSUME script \in Seq(Nodes), NEW p \in 1 .. Len(script),
           NEW w \in Seq(Scopes), w # <<>>
    PROVE  LET n == Len(w)  a == Arity(script[p])  s == Subscopes(w[n], p)
               v == Visit(w, p)
           IN  /\ n \in 1 .. n /\ a \in Nat /\ w[n] \in Scopes
               /\ v \in Seq(Scopes) /\ Len(v) = n - 1 + a
               /\ \A k \in 1 .. n - 1 : v[k] = w[k]
               /\ \A i \in 1 .. a : v[n + a - i] = s[i]
<1> DEFINE n == Len(w)  a == Arity(script[p])  s == Subscopes(w[n], p)
           v == Visit(w, p)
<1>1. n \in Nat /\ n >= 1
  BY LenProperties, EmptySeq
<1>2. w[n] \in Scopes /\ \A k \in 1 .. n : w[k] \in Scopes
  BY <1>1, ElementOfSeq
<1>3. s \in Seq(Scopes) /\ Len(s) = a /\ a \in Nat
  BY <1>2, SubscopesType
<1>4. \A i \in 1 .. a : s[i] \in Scopes
  BY <1>3, ElementOfSeq
<1>5. v = [k \in 1 .. n - 1 + a |-> IF k < n THEN w[k] ELSE s[n + a - k]]
  BY <1>3 DEF Visit
<1> HIDE DEF n, a, s, v
<1>6. \A k \in 1 .. n - 1 + a : k < n => v[k] = w[k] /\ k \in 1 .. n
  BY <1>1, <1>3, <1>5
<1>7. \A k \in 1 .. n - 1 + a : ~ (k < n) => v[k] = s[n + a - k] /\ n + a - k \in 1 .. a
  BY <1>1, <1>3, <1>5
<1>8. \A k \in 1 .. n - 1 + a : v[k] \in Scopes
  BY <1>2, <1>4, <1>6, <1>7
<1>9. n - 1 + a \in Nat
  BY <1>1, <1>3
<1>10. v \in Seq(Scopes) /\ Len(v) = n - 1 + a
  <2> DEFINE l == n - 1 + a
  <2>1. l \in Nat /\ v = [k \in 1 .. l |-> IF k < n THEN w[k] ELSE s[n + a - k]]
    BY <1>5, <1>9
  <2>2. \A k \in 1 .. l : v[k] \in Scopes
    BY <1>8
  <2> HIDE DEF l
  <2> QED  BY <2>1, <2>2 DEF l
<1>11. \A k \in 1 .. n - 1 : v[k] = w[k]
  BY <1>1, <1>3, <1>6
<1>12. ASSUME NEW i \in 1 .. a PROVE v[n + a - i] = s[i]
  <2>1. n + a - i \in 1 .. n - 1 + a /\ ~ (n + a - i < n) /\ n + a - (n + a - i) = i
    BY <1>1, <1>3
  <2> QED  BY <1>7, <2>1
<1> QED  BY <1>1, <1>2, <1>3, <1>10, <1>11, <1>12 DEF n, a, s, v

LEMMA VisitType ==
    ASSUME script \in Seq(Nodes), NEW p \in 1 .. Len(script), NEW w \in Seq(Scopes)
    PROVE  Visit(w, p) \in Seq(Scopes)
<1>1. CASE w = <<>>
  BY <1>1 DEF Visit
<1>2. CASE w # <<>>
  BY <1>2, VisitStep
<1> QED  BY <1>1, <1>2

LEMMA ToplevelType == Toplevel \in Scopes
<1>1. Arguments(0, Inputs) \subseteq Symbols
  BY ArgumentsType
<1>2. <<0>> \in Seq(Nat) /\ <<0>> # <<>>
  OBVIOUS
<1> QED  BY <1>1, <1>2, ToplevelTableType, MakeScope DEF Toplevel

(* The walk goes through every node, one step each.                        *)
LEMMA WalkType ==
    ASSUME script \in Seq(Nodes)
    PROVE  /\ Walk \in [0 .. Len(script) -> Seq(Scopes)]
           /\ Walk[0] = <<Toplevel>>
           /\ \A p \in 1 .. Len(script) : Walk[p] = Visit(Walk[p - 1], p)
<1> DEFINE n == Len(script)  D == 0 .. n  S == Seq(Scopes)  c == <<Toplevel>>
           Is(f) == f = [p \in D |-> IF p = 0 THEN c ELSE Visit(f[p - 1], p)]
           F == [p \in 0 + 1 .. n |-> [w \in S |-> Visit(w, p)]]
<1>1. n \in Nat
  BY LenProperties
<1>2. c \in S
  BY ToplevelType
<1>3. \A p \in 1 .. n : \A w \in S : Visit(w, p) \in S
  BY VisitType
<1>4. Walk = CHOOSE f : Is(f)
  BY DEF Walk
<1> HIDE DEF c, S, n
<1>5. 0 + 1 = 1 /\ 0 \in D /\ \A p \in 1 .. n : p \in D /\ p - 1 \in D /\ p # 0
  BY <1>1
<1>6. Steps(F, S, 0, n)
  BY <1>3, <1>5 DEF Steps
<1>7. \A p \in 1 .. n : \A w \in S : F[p][w] = Visit(w, p)
  BY <1>5
<1> HIDE DEF F
<1>8. 0 \in Nat /\ 0 <= n
  BY <1>1
<1>9. PICK f : Iterates(f, S, 0, n, c, F)
  BY <1>1, <1>2, <1>6, <1>8, Iteration
<1>10. f \in [D -> S] /\ f[0] = c /\ \A p \in 1 .. n : f[p] = F[p][f[p - 1]]
  BY <1>5, <1>9 DEF Iterates
<1>11. \A p \in 1 .. n : f[p] = Visit(f[p - 1], p)
  BY <1>5, <1>7, <1>10
<1>12. ASSUME NEW p \in D PROVE f[p] = IF p = 0 THEN c ELSE Visit(f[p - 1], p)
  <2>1. p = 0 \/ p \in 1 .. n
    BY <1>1
  <2> QED  BY <1>5, <1>10, <1>11, <2>1
<1>13. Is(f)
  BY <1>10, <1>12
<1>14. Is(Walk)
  BY <1>4, <1>13
<1>15. Walk[0] = c /\ \A p \in 1 .. n : Walk[p] = Visit(Walk[p - 1], p)
  BY <1>5, <1>14
<1>16. \A p \in 0 .. n : Walk[p] = f[p]
  <2>1. Follows(Walk, f, 0, n)
    BY <1>5, <1>10, <1>11, <1>15 DEF Follows
  <2> QED  BY <1>1, <1>8, <2>1, SameIteration
<1>17. Walk \in [D -> S]
  <2>1. Walk = [p \in D |-> IF p = 0 THEN c ELSE Visit(Walk[p - 1], p)]
    BY <1>14
  <2>2. \A p \in D : Walk[p] \in S
    BY <1>10, <1>16
  <2> QED  BY <2>1, <2>2
<1> QED  BY <1>15, <1>17 DEF c, S, n

-----------------------------------------------------------------------------
(* Scoping is static: what holds of a scope keeps holding, and holds of    *)
(* the scopes inside.                                                      *)
LEMMA ScopeLater ==
    ASSUME NEW sc, NEW p \in Nat, NEW q \in Nat, p <= q, ScopeOK(sc, p)
    PROVE  ScopeOK(sc, q)
<1>1. \A n : n \in 0 .. p => n \in 0 .. q
  OBVIOUS
<1>2. \A n : n \in 1 .. p => n \in 1 .. q
  OBVIOUS
<1>3. ChainScoped(sc.chain, q)
  BY <1>1 DEF ScopeOK, ChainScoped
<1>4. \A v \in sc.seen : SeenScoped(sc.chain, v, q)
  BY <1>1 DEF ScopeOK, SeenScoped
<1>5. \A x \in Names : NameScoped(sc, sc.table[x], q)
  BY <1>2 DEF ScopeOK, NameScoped
<1> QED  BY <1>3, <1>4, <1>5 DEF ScopeOK

LEMMA LetScopeOK ==
    ASSUME script \in Seq(Nodes), NEW q \in 1 .. Len(script), NEW sc \in Scopes,
           script[q].op = "let", ScopeOK(sc, q - 1)
    PROVE  ScopeOK(LetScope(sc, q), q)
<1> DEFINE c == sc.chain  f == Innermost(sc)
           v == Variable(f, q, script[q].name)
           l == LetScope(sc, q)
<1>1. ScopeOK(sc, q)
  <2>1. q \in Nat /\ q - 1 \in Nat /\ q - 1 <= q
    BY NodeAt
  <2> QED  BY <2>1, ScopeLater
<1>2. /\ l.chain = c /\ l.seen = sc.seen \cup {v}
      /\ l.table = WithSymbol(sc.table, v)
  BY ScopeFields DEF LetScope
<1>3. /\ script[q].name \in Names /\ q \in Nat /\ q \in 0 .. q
  BY NodeAt, NodeFields
<1>4. /\ v.kind = "var" /\ v.fn = f /\ v.node = q /\ v.name = script[q].name
      /\ v \in Symbols
  <2>1. f \in Nat
    BY ScopeType
  <2> QED  BY <1>3, <2>1 DEF Variable, Symbols, Kinds
<1>5. /\ ChainScoped(c, q) /\ \A u \in sc.seen : SeenScoped(c, u, q)
      /\ \A x \in Names : NameScoped(sc, sc.table[x], q)
  BY <1>1 DEF ScopeOK
<1>6. Len(c) \in 1 .. Len(c) /\ f = c[Len(c)] /\ c \in Seq(Nat)
  BY ScopeType DEF Innermost
<1>7. SeenScoped(c, v, q)
  <2>1. \A n \in 2 .. Len(c) : ~ (f < c[n])
    <3> SUFFICES ASSUME NEW n \in 2 .. Len(c) PROVE ~ (f < c[n])
      OBVIOUS
    <3>1. n = Len(c) \/ (n \in 1 .. Len(c) /\ n < Len(c))
      BY <1>6
    <3>2. n \in 1 .. Len(c) /\ c[n] \in Nat /\ f \in Nat
      BY <1>6
    <3>3. n < Len(c) => c[n] < c[Len(c)]
      BY <1>5, <1>6, <3>2 DEF ChainScoped
    <3> QED  BY <1>6, <3>1, <3>2, <3>3
  <2> QED  BY <1>3, <1>4, <1>6, <2>1 DEF SeenScoped
<1>8. ASSUME NEW x \in Names PROVE NameScoped(l, l.table[x], q)
  <2>1. sc.table \in Tables
    BY ScopeType
  <2>2. l.table[x] = v \/ l.table[x] = sc.table[x]
    BY <1>2, <2>1 DEF WithSymbol, Tables
  <2>3. NameScoped(l, v, q)
    BY <1>2, <1>4 DEF NameScoped
  <2>4. NameScoped(l, sc.table[x], q)
    BY <1>2, <1>5 DEF NameScoped
  <2> QED  BY <2>2, <2>3, <2>4
<1> QED  BY <1>2, <1>5, <1>7, <1>8 DEF ScopeOK

LEMMA NamedScopeOK ==
    ASSUME script \in Seq(Nodes), NEW q \in 1 .. Len(script), NEW sc \in Scopes,
           script[q].op = "fun", ScopeOK(sc, q - 1), Reached(q), ScopeAt(q) = sc
    PROVE  ScopeOK(NamedScope(sc, q), q)
<1> DEFINE s == Function(Innermost(sc), q, script[q].name)
           m == NamedScope(sc, q)
<1>1. ScopeOK(sc, q)
  <2>1. q \in Nat /\ q - 1 \in Nat /\ q - 1 <= q
    BY NodeAt
  <2> QED  BY <2>1, ScopeLater
<1>2. /\ m.chain = sc.chain /\ m.seen = sc.seen
      /\ m.table = WithSymbol(sc.table, s)
  BY ScopeFields DEF NamedScope
<1>3. q \in 1 .. q
  BY NodeAt
<1>4. s.kind = "fun" /\ s.node = q
  BY DEF Function
<1>5. ASSUME NEW x \in Names PROVE NameScoped(m, m.table[x], q)
  <2>1. sc.table \in Tables
    BY ScopeType
  <2>2. m.table[x] = s \/ m.table[x] = sc.table[x]
    BY <1>2, <2>1 DEF WithSymbol, Tables
  <2>3. NameScoped(m, s, q)
    BY <1>2, <1>3, <1>4 DEF NameScoped
  <2>4. NameScoped(m, sc.table[x], q)
    BY <1>1, <1>2 DEF NameScoped, ScopeOK
  <2> QED  BY <2>2, <2>3, <2>4
<1> QED  BY <1>1, <1>2, <1>5 DEF ScopeOK

LEMMA BodyScopeOK ==
    ASSUME script \in Seq(Nodes), NEW q \in 1 .. Len(script), NEW sc \in Scopes,
           script[q].op = "fun", ScopeOK(sc, q - 1), Reached(q), ScopeAt(q) = sc
    PROVE  ScopeOK(BodyScope(NamedScope(sc, q), q), q)
<1> DEFINE m == NamedScope(sc, q)  ps == script[q].params
           b == BodyScope(m, q)  c == sc.chain  d == Append(c, q)
           A == Arguments(q, ps)
<1>1. ScopeOK(m, q)
  BY NamedScopeOK
<1>2. m.chain = c /\ m.seen = sc.seen
  BY ScopeFields DEF NamedScope
<1>3. /\ b.chain = d /\ b.seen = sc.seen \cup A
      /\ b.table = WithArguments(m.table, q, ps)
  <2> HIDE DEF m
  <2>1. b = Scope(Append(m.chain, q), WithArguments(m.table, q, ps), m.seen \cup A)
    BY DEF BodyScope
  <2> HIDE DEF b, A, ps
  <2> QED  BY <1>2, <2>1 DEF Scope
<1>4. q \in Nat /\ q \in 0 .. q /\ q - 1 \in Nat /\ script[q] \in Nodes
  BY NodeAt
<1>5. ps \in Seq(Params) /\ A \subseteq Symbols
  BY <1>4, NodeFields, ArgumentsType
<1>6. c \in Seq(Nat) /\ Len(c) \in 1 .. Len(c)
  BY ScopeType
<1> HIDE DEF c
<1>7. /\ d \in Seq(Nat) /\ Len(d) = Len(c) + 1 /\ d # <<>>
      /\ \A n \in 1 .. Len(c) : d[n] = c[n]
      /\ d[Len(c) + 1] = q
  BY <1>4, <1>6
<1> USE DEF c
<1>8. /\ c # <<>> /\ c[1] = 0
      /\ \A n \in 1 .. Len(c) : c[n] \in 0 .. q - 1
      /\ \A k, n \in 1 .. Len(c) : k < n => c[k] < c[n]
      /\ \A n \in 2 .. Len(c) : Reached(c[n]) /\ script[c[n]].op = "fun"
  BY DEF ScopeOK, ChainScoped
<1>9. \A v \in sc.seen : SeenScoped(c, v, q - 1)
  BY DEF ScopeOK
<1> HIDE DEF c, d, A
<1>10. ChainScoped(d, q)
  <2>1. d[1] = 0
    BY <1>6, <1>7, <1>8
  <2>2. ASSUME NEW n \in 1 .. Len(d) PROVE d[n] \in 0 .. q
    <3>1. n \in 1 .. Len(c) \/ n = Len(c) + 1
      BY <1>6, <1>7
    <3>2. CASE n \in 1 .. Len(c)
      <4>1. c[n] \in 0 .. q - 1 /\ d[n] = c[n]
        BY <1>7, <1>8, <3>2
      <4> QED  BY <1>4, <4>1
    <3> QED  BY <1>4, <1>7, <3>1, <3>2
  <2>3. ASSUME NEW k \in 1 .. Len(d), NEW n \in 1 .. Len(d), k < n
        PROVE  d[k] < d[n]
    <3>1. k \in 1 .. Len(c)
      BY <1>6, <1>7, <2>3
    <3>2. n \in 1 .. Len(c) \/ n = Len(c) + 1
      BY <1>6, <1>7
    <3>3. CASE n \in 1 .. Len(c)
      BY <1>7, <1>8, <2>3, <3>1, <3>3
    <3>4. CASE n = Len(c) + 1
      <4>1. c[k] \in 0 .. q - 1 /\ d[k] = c[k] /\ d[n] = q
        BY <1>7, <1>8, <3>1, <3>4
      <4> QED  BY <1>4, <4>1
    <3> QED  BY <3>2, <3>3, <3>4
  <2>4. ASSUME NEW n \in 2 .. Len(d) PROVE Reached(d[n]) /\ script[d[n]].op = "fun"
    <3>1. n \in 2 .. Len(c) \/ n = Len(c) + 1
      BY <1>6, <1>7
    <3>2. n \in 2 .. Len(c) => d[n] = c[n]
      BY <1>6, <1>7
    <3> QED  BY <1>7, <1>8, <3>1, <3>2
  <2> QED  BY <1>7, <2>1, <2>2, <2>3, <2>4 DEF ChainScoped
<1>11. ASSUME NEW v \in sc.seen PROVE SeenScoped(d, v, q)
  <2>1. /\ v \in Symbols /\ v.kind = "var" /\ v.node \in 0 .. q - 1
        /\ \E n \in 1 .. Len(c) : c[n] = v.fn
        /\ \A n \in 2 .. Len(c) : v.fn < c[n] => v \in ScopeAt(c[n]).seen
    BY <1>9 DEF SeenScoped
  <2>2. v.node \in 0 .. q
    BY <1>4, <2>1
  <2>3. \E n \in 1 .. Len(d) : d[n] = v.fn
    <3>1. PICK n \in 1 .. Len(c) : c[n] = v.fn
      BY <2>1
    <3>2. n \in 1 .. Len(d) /\ d[n] = c[n]
      BY <1>6, <1>7
    <3> QED  BY <3>1, <3>2
  <2>4. ASSUME NEW n \in 2 .. Len(d), v.fn < d[n] PROVE v \in ScopeAt(d[n]).seen
    <3>1. n \in 2 .. Len(c) \/ n = Len(c) + 1
      BY <1>6, <1>7
    <3>2. n \in 2 .. Len(c) => d[n] = c[n]
      BY <1>6, <1>7
    <3>3. CASE n \in 2 .. Len(c)
      BY <2>1, <2>4, <3>2, <3>3
    <3>4. CASE n = Len(c) + 1
      BY <1>7, <3>4
    <3> QED  BY <3>1, <3>3, <3>4
  <2> QED  BY <2>1, <2>2, <2>3, <2>4 DEF SeenScoped
<1>12. ASSUME NEW v \in A PROVE SeenScoped(d, v, q)
  <2>1. v \in Symbols /\ v.kind = "var" /\ v.node = q /\ v.fn = q
    BY <1>5, <1>12 DEF A, Arguments, Variable
  <2>2. \A n \in 2 .. Len(d) : ~ (q < d[n])
    <3>1. \A n \in 2 .. Len(d) : n \in 1 .. Len(d)
      OBVIOUS
    <3>2. \A n \in 1 .. Len(d) : d[n] \in 0 .. q
      BY <1>10 DEF ChainScoped
    <3> QED  BY <1>4, <3>1, <3>2
  <2>3. Len(c) + 1 \in 1 .. Len(d)
    BY <1>6, <1>7
  <2> QED  BY <1>4, <1>7, <2>1, <2>2, <2>3 DEF SeenScoped
<1>13. ASSUME NEW x \in Names PROVE NameScoped(b, b.table[x], q)
  <2>1. CASE x \in ParamNames(ps)
    <3>1. b.table[x] = Variable(q, q, x)
      BY <1>3, <2>1 DEF WithArguments
    <3>2. Variable(q, q, x) \in A /\ Variable(q, q, x).kind = "var"
      BY <2>1 DEF A, Arguments, Variable
    <3> QED  BY <1>3, <3>1, <3>2 DEF NameScoped
  <2>2. CASE x \notin ParamNames(ps)
    <3>1. b.table[x] = m.table[x]
      BY <1>3, <2>2 DEF WithArguments
    <3>2. NameScoped(m, m.table[x], q)
      BY <1>1 DEF ScopeOK
    <3>3. m.seen \subseteq b.seen
      BY <1>2, <1>3
    <3> HIDE DEF m, b
    <3> QED  BY <3>1, <3>2, <3>3 DEF NameScoped
  <2> QED  BY <2>1, <2>2
<1> QED  BY <1>3, <1>10, <1>11, <1>12, <1>13 DEF ScopeOK

LEMMA ToplevelOK == ScopeOK(Toplevel, 0)
<1> DEFINE A == Arguments(0, Inputs)  t == ToplevelTable
<1>1. Toplevel.chain = <<0>> /\ Toplevel.table = t /\ Toplevel.seen = A
  BY ScopeFields DEF Toplevel
<1>2. <<0>> # <<>> /\ Len(<<0>>) = 1 /\ <<0>>[1] = 0
  OBVIOUS
<1>3. ChainScoped(<<0>>, 0)
  BY <1>2 DEF ChainScoped
<1>4. ASSUME NEW v \in A PROVE SeenScoped(<<0>>, v, 0)
  <2>1. v \in Symbols
    BY ArgumentsType
  <2>2. v.kind = "var" /\ v.node = 0 /\ v.fn = 0
    BY DEF Arguments, Variable
  <2> QED  BY <1>2, <2>1, <2>2 DEF SeenScoped
<1>5. ASSUME NEW x \in Names PROVE NameScoped(Toplevel, t[x], 0)
  <2>1. CASE x \in ParamNames(Inputs)
    <3>1. t[x] = Variable(0, 0, x)
      BY <2>1 DEF ToplevelTable, WithArguments
    <3>2. t[x] \in A /\ t[x].kind = "var"
      BY <2>1, <3>1 DEF Arguments, Variable
    <3> QED  BY <1>1, <3>2 DEF NameScoped
  <2>2. CASE x \notin ParamNames(Inputs)
    <3>1. t[x] = Global(x)
      BY <2>2 DEF ToplevelTable, WithArguments
    <3>2. /\ t[x].kind \in {"value", "callable", "none"} /\ t[x].name = x
          /\ t[x].kind = "callable" => x \in GlobalCalls
      BY <3>1 DEF Global
    <3> QED  BY <3>2 DEF NameScoped
  <2> QED  BY <2>1, <2>2
<1> QED  BY <1>1, <1>3, <1>4, <1>5 DEF ScopeOK

LEMMA SubscopesOK ==
    ASSUME script \in Seq(Nodes), NEW q \in 1 .. Len(script), NEW sc \in Scopes,
           ScopeOK(sc, q - 1), Reached(q), ScopeAt(q) = sc,
           NEW i \in 1 .. Arity(script[q])
    PROVE  ScopeOK(Subscopes(sc, q)[i], q)
<1>1. ScopeOK(sc, q)
  <2>1. q \in Nat /\ q - 1 \in Nat /\ q - 1 <= q
    BY NodeAt
  <2> QED  BY <2>1, ScopeLater
<1>2. CASE script[q].op = "let"
  <2>1. ScopeOK(LetScope(sc, q), q)
    BY <1>2, LetScopeOK
  <2>2. Subscopes(sc, q) = <<sc, LetScope(sc, q)>> /\ Arity(script[q]) = 2
    BY <1>2 DEF Subscopes, Arity
  <2>3. i = 1 \/ i = 2
    BY <2>2
  <2>4. Subscopes(sc, q)[i] \in {sc, LetScope(sc, q)}
    BY <2>2, <2>3, PairSeq
  <2> QED  BY <1>1, <2>1, <2>4
<1>3. CASE script[q].op = "fun"
  <2> DEFINE m == NamedScope(sc, q)  b == BodyScope(m, q)
  <2>1. ScopeOK(m, q) /\ ScopeOK(b, q)
    BY <1>3, NamedScopeOK, BodyScopeOK
  <2>2. Subscopes(sc, q) = <<b, m>> /\ Arity(script[q]) = 2
    BY <1>3 DEF Subscopes, Arity
  <2>3. i = 1 \/ i = 2
    BY <2>2
  <2> HIDE DEF m, b
  <2>4. Subscopes(sc, q)[i] \in {m, b}
    BY <2>2, <2>3, PairSeq
  <2> QED  BY <2>1, <2>4
<1>4. CASE script[q].op \notin {"let", "fun"}
  BY <1>1, <1>4, SubscopesType
<1> QED  BY <1>2, <1>3, <1>4

LEMMA ScopesStatic == ASSUME script \in Seq(Nodes) PROVE WalkOK
<1> DEFINE OK(p) == \A k \in 1 .. Len(Walk[p]) : ScopeOK(Walk[p][k], p)
           T == {p \in Nat : p <= Len(script) => OK(p)}
<1>1. Len(script) \in Nat
  BY LenProperties
<1>2. 0 \in T
  <2>1. Walk[0] = <<Toplevel>>
    BY WalkType
  <2>2. Len(<<Toplevel>>) = 1 /\ <<Toplevel>>[1] = Toplevel
    BY SingletonSeq
  <2>3. OK(0)
    BY <2>1, <2>2, ToplevelOK
  <2> QED  BY <2>3
<1>3. ASSUME NEW p \in Nat, p \in T PROVE p + 1 \in T
  <2> SUFFICES ASSUME p + 1 <= Len(script) PROVE OK(p + 1)
    OBVIOUS
  <2> DEFINE q == p + 1  w == Walk[p]  n == Len(w)  v == Walk[q]
  <2>1. /\ q \in 1 .. Len(script) /\ q - 1 = p /\ p \in 0 .. Len(script)
        /\ q \in Nat /\ p <= q
    BY <1>1
  <2>2. OK(p)
    BY <1>1, <1>3, <2>1
  <2>3. w \in Seq(Scopes) /\ v = Visit(w, q)
    BY <2>1, WalkType
  <2>4. CASE w = <<>>
    <3>1. v = <<>>
      BY <2>3, <2>4 DEF Visit
    <3> QED  BY <3>1
  <2>5. CASE w # <<>>
    <3> DEFINE a == Arity(script[q])  s == Subscopes(w[n], q)  sc == w[n]
    <3> HIDE DEF w, v, q
    <3>1. /\ n \in 1 .. n /\ a \in Nat /\ w[n] \in Scopes
          /\ Len(v) = n - 1 + a
          /\ \A k \in 1 .. n - 1 : v[k] = w[k]
          /\ \A i \in 1 .. a : v[n + a - i] = s[i]
      BY <2>1, <2>3, <2>5, VisitStep
    <3>2. Reached(q) /\ ScopeAt(q) = sc /\ ScopeOK(sc, q - 1)
      BY <2>1, <2>2, <2>5, <3>1 DEF Reached, ScopeAt, w
    <3>3. \A i \in 1 .. a : ScopeOK(s[i], q)
      BY <2>1, <3>1, <3>2, SubscopesOK
    <3>4. \A k \in 1 .. n - 1 : ScopeOK(w[k], q)
      <4>1. \A k \in 1 .. n - 1 : k \in 1 .. n
        BY <3>1
      <4> QED  BY <2>1, <2>2, <4>1, ScopeLater DEF w
    <3> HIDE DEF a, s, n
    <3>5. ASSUME NEW k \in 1 .. Len(v) PROVE ScopeOK(v[k], q)
      <4>1. CASE k \in 1 .. n - 1
        BY <3>1, <3>4, <4>1
      <4>2. CASE k \notin 1 .. n - 1
        <5> DEFINE i == n + a - k
        <5>1. i \in 1 .. a /\ n + a - i = k
          BY <3>1, <4>2
        <5>2. v[k] = s[i]
          BY <3>1, <5>1
        <5> QED  BY <3>3, <5>1, <5>2
      <4> QED  BY <4>1, <4>2
    <3> QED  BY <3>5 DEF v, q
  <2> QED  BY <2>4, <2>5
<1> HIDE DEF OK, T
<1>4. Nat \subseteq T
  BY <1>2, <1>3, AllNumbers
<1>5. \A p \in 0 .. Len(script) : OK(p)
  BY <1>1, <1>4 DEF T
<1> QED  BY <1>5 DEF OK, WalkOK

(* The scope of a node that the walk reaches.                              *)
LEMMA ScopeAtOK ==
    ASSUME script \in Seq(Nodes), NEW p \in 1 .. Len(script), Reached(p)
    PROVE  ScopeAt(p) \in Scopes /\ ScopeOK(ScopeAt(p), p - 1)
<1> DEFINE w == Walk[p - 1]
<1>1. p - 1 \in 0 .. Len(script)
  BY NodeAt
<1>2. w \in Seq(Scopes) /\ w # <<>>
  BY <1>1, WalkType DEF Reached
<1>3. Len(w) \in 1 .. Len(w)
  BY <1>2, LenProperties, EmptySeq
<1>4. w[Len(w)] \in Scopes
  BY <1>2, <1>3, ElementOfSeq
<1>5. ScopeOK(w[Len(w)], p - 1)
  BY <1>1, <1>3, ScopesStatic DEF WalkOK
<1> QED  BY <1>4, <1>5 DEF ScopeAt

-----------------------------------------------------------------------------
(* Stacks of frames, of either pass.                                       *)
Instead(st, u) ==
    [st EXCEPT ![Len(st)] =
        Frame(st[Len(st)].chain, st[Len(st)].table, u \o Tail(st[Len(st)].todo))]

LEMMA StackType ==
    ASSUME NEW st \in Stacks
    PROVE  /\ Len(st) \in Nat /\ Len(st) >= 1 /\ DOMAIN st = 1 .. Len(st)
           /\ st \in Seq(AnyFrames) /\ IsSeq(st)
           /\ \A i \in 1 .. Len(st) :
                 /\ st[i] \in AnyFrames
                 /\ st[i].chain \in Seq(Nat) /\ st[i].chain # <<>>
                 /\ st[i].table \in Tables
                 /\ st[i].todo \in Seq(Tasks) /\ IsSeq(st[i].todo)
<1>1. st \in Seq(AnyFrames) /\ st # <<>>
  BY DEF Stacks
<1>2. Len(st) \in Nat /\ Len(st) >= 1 /\ DOMAIN st = 1 .. Len(st)
  BY <1>1, LenProperties, EmptySeq
<1>3. \A i \in 1 .. Len(st) : st[i] \in AnyFrames
  BY <1>1, ElementOfSeq
<1> QED  BY <1>1, <1>2, <1>3 DEF AnyFrames, IsSeq

LEMMA MakeFrame ==
    ASSUME NEW c \in Seq(Nat), c # <<>>, NEW t \in Tables, NEW u \in Seq(Tasks)
    PROVE  /\ Frame(c, t, u) \in AnyFrames
           /\ Frame(c, t, u).chain = c /\ Frame(c, t, u).table = t
           /\ Frame(c, t, u).todo = u
BY DEF Frame, AnyFrames

LEMMA InsteadType ==
    ASSUME NEW st \in Stacks, st[Len(st)].todo # <<>>, NEW u \in Seq(Tasks)
    PROVE  LET n == Len(st)  r == Instead(st, u) IN
           /\ r \in Stacks /\ Len(r) = n
           /\ \A i \in 1 .. n - 1 : r[i] = st[i]
           /\ r[n].chain = st[n].chain /\ r[n].table = st[n].table
           /\ r[n].todo = u \o Tail(st[n].todo)
           /\ \A i \in 1 .. n : r[i].table = st[i].table /\ r[i].chain = st[i].chain
<1> DEFINE n == Len(st)  fr == st[n]  t == u \o Tail(fr.todo)
           g == Frame(fr.chain, fr.table, t)  r == Instead(st, u)
<1>1. /\ n \in Nat /\ n >= 1 /\ n \in 1 .. n /\ st \in Seq(AnyFrames)
      /\ fr.chain \in Seq(Nat) /\ fr.chain # <<>> /\ fr.table \in Tables
      /\ fr.todo \in Seq(Tasks) /\ fr.todo # <<>>
  <2>1. n \in Nat /\ n >= 1
    BY StackType
  <2>2. n \in 1 .. n
    BY <2>1
  <2> QED  BY <2>1, <2>2, StackType
<1>2. r = [st EXCEPT ![n] = g]
  BY DEF Instead
<1> HIDE DEF n, r
<1>3. t \in Seq(Tasks)
  BY <1>1, Splice DEF Spliced
<1> HIDE DEF t, fr
<1>4. g \in AnyFrames /\ g.chain = fr.chain /\ g.table = fr.table /\ g.todo = t
  BY <1>1, <1>3, MakeFrame
<1> HIDE DEF g
<1>5. n = Len(st)
  BY DEF n
<1>6. r \in Seq(AnyFrames) /\ Len(r) = n /\ r[n] = g
      /\ \A i \in 1 .. n : i # n => r[i] = st[i]
  BY <1>1, <1>2, <1>4, <1>5
<1>7. r # <<>>
  BY <1>1, <1>6, EmptySeq
<1>8. \A i \in 1 .. n - 1 : r[i] = st[i]
  BY <1>1, <1>6
<1>9. \A i \in 1 .. n : r[i].table = st[i].table /\ r[i].chain = st[i].chain
  BY <1>4, <1>6 DEF fr
<1> QED  BY <1>4, <1>6, <1>7, <1>8, <1>9 DEF n, r, t, fr, Stacks

LEMMA PushType ==
    ASSUME NEW st \in Stacks, NEW fr \in AnyFrames
    PROVE  LET n == Len(st)  r == Append(st, fr) IN
           /\ r \in Stacks /\ Len(r) = n + 1
           /\ \A i \in 1 .. n : r[i] = st[i]
           /\ r[n + 1] = fr
<1> DEFINE n == Len(st)  r == Append(st, fr)
<1>1. st \in Seq(AnyFrames) /\ n \in Nat
  BY StackType
<1>2. r \in Seq(AnyFrames) /\ Len(r) = n + 1 /\ r[n + 1] = fr
      /\ \A i \in 1 .. n : r[i] = st[i]
  BY <1>1
<1> HIDE DEF r
<1>3. r # <<>>
  BY <1>1, <1>2, EmptySeq
<1> QED  BY <1>2, <1>3 DEF r, Stacks

LEMMA PopType ==
    ASSUME NEW st \in Stacks, Len(st) > 1
    PROVE  LET n == Len(st)  r == SubSeq(st, 1, n - 1) IN
           /\ r \in Stacks /\ Len(r) = n - 1
           /\ \A i \in 1 .. n - 1 : r[i] = st[i]
<1> DEFINE n == Len(st)  r == SubSeq(st, 1, n - 1)
<1>1. st \in Seq(AnyFrames) /\ n \in Nat /\ n >= 1
  BY StackType
<1> HIDE DEF r
<1>2. r \in Seq(AnyFrames) /\ Len(r) = n - 1 /\ \A i \in 1 .. n - 1 : r[i] = st[i]
  BY <1>1, Popped DEF r
<1>3. r # <<>>
  BY <1>1, <1>2, EmptySeq
<1> QED  BY <1>2, <1>3 DEF r, Stacks

(* What a frame sees is what the tables up to it hold.                     *)
LEMMA SeenSame ==
    ASSUME NEW st, NEW r, NEW i,
           \A j \in 1 .. i : r[j].table = st[j].table
    PROVE  Seen(r, i) = Seen(st, i)
BY DEF Seen

LEMMA ScopeSame ==
    ASSUME NEW st, NEW r, NEW i \in Nat, i >= 1,
           \A j \in 1 .. i : r[j].table = st[j].table, r[i].chain = st[i].chain
    PROVE  ScopeOf(r, i) = ScopeOf(st, i)
<1>1. Seen(r, i) = Seen(st, i)
  BY SeenSame
<1>2. r[i].table = st[i].table
  OBVIOUS
<1> QED  BY <1>1, <1>2 DEF ScopeOf

LEMMA ScopeOfType ==
    ASSUME NEW st \in Stacks, NEW i \in 1 .. Len(st)
    PROVE  ScopeOf(st, i) \in Scopes
<1>1. st[i].chain \in Seq(Nat) /\ st[i].chain # <<>> /\ st[i].table \in Tables
  BY StackType
<1>2. Seen(st, i) \in SUBSET Symbols
  <2>1. \A j \in 1 .. i : st[j].table \in Tables
    BY StackType
  <2>2. \A j \in 1 .. i : \A x \in Names : st[j].table[x] \in Symbols
    BY <2>1 DEF Tables
  <2> QED  BY <2>2 DEF Seen
<1> QED  BY <1>1, <1>2, MakeScope DEF ScopeOf

(* A frame on top sees what the one below saw, and what its table adds.    *)
SeenIn(t) == {v \in {t[x] : x \in Names} : v.kind = "var"}

SameTables(st, r, n) == \A j \in 1 .. n : r[j].table = st[j].table

LEMMA SeenPushed ==
    ASSUME NEW st, NEW r, NEW n \in Nat, SameTables(st, r, n)
    PROVE  Seen(r, n + 1) = Seen(st, n) \cup SeenIn(r[n + 1].table)
<1>1. \A j \in 1 .. n + 1 : j \in 1 .. n \/ j = n + 1
  OBVIOUS
<1>2. \A j \in 1 .. n : j \in 1 .. n + 1
  OBVIOUS
<1>3. n + 1 \in 1 .. n + 1
  OBVIOUS
<1> QED  BY <1>1, <1>2, <1>3 DEF Seen, SeenIn, SameTables

LEMMA SeenTop ==
    ASSUME NEW st, NEW n \in Nat, n >= 1, NEW x \in Names, st[n].table[x].kind = "var"
    PROVE  st[n].table[x] \in Seen(st, n)
<1>1. n \in 1 .. n
  OBVIOUS
<1> QED  BY <1>1 DEF Seen

LEMMA SeenGrows ==
    ASSUME NEW st, NEW i \in Nat, NEW j \in Nat, i <= j
    PROVE  Seen(st, i) \subseteq Seen(st, j)
<1>1. \A k \in 1 .. i : k \in 1 .. j
  OBVIOUS
<1> QED  BY <1>1 DEF Seen

-----------------------------------------------------------------------------
(* Where the items of a stack stand in the walk.                           *)
At(w, st, i) == Positions(w, ScopeOf(st, i))

(* The part of the stack below the first item, which ends at position m.   *)
Below(st, w, m, b) ==
    LET n == Len(st) IN
    /\ m \in Nat /\ b \in [0 .. n - 1 -> Nat] /\ b[0] = 0 /\ b[n - 1] <= m
    /\ \A i, j \in 0 .. n - 1 : i <= j => b[i] <= b[j]
    /\ \A i \in 1 .. n - 1 : Threads(At(w, st, i), st[i].todo, b[i], b[i - 1])
    /\ Threads(At(w, st, n), Tail(st[n].todo), m, b[n - 1])

LEMMA PositionsDescend ==
    ASSUME NEW w, NEW sc
    PROVE  Descends(Positions(w, sc))
<1> SUFFICES ASSUME NEW e, NEW x, NEW y, <<e, x, y>> \in Positions(w, sc)
             PROVE  x \in Nat /\ y \in Nat /\ y <= x
  BY DEF Descends
<1> DEFINE z == <<e, x, y>>
<1>1. z[1] = e /\ z[2] = x /\ z[3] = y
  OBVIOUS
<1>2. z \in Tasks \X Nat \X Nat
  BY DEF Positions
<1>3. x \in Nat /\ y \in Nat
  BY <1>2
<1>4. IF Waits(z[1]) THEN z[2] = z[3] + 1 /\ w[z[2]] = Awaited(sc, z[1])
      ELSE z[2] = z[3]
  BY DEF Positions
<1>5. x = y + 1 \/ x = y
  BY <1>1, <1>4
<1> QED  BY <1>3, <1>5

LEMMA PositionsIn ==
    ASSUME NEW w, NEW sc, NEW e, NEW x, NEW y
    PROVE  <<e, x, y>> \in Positions(w, sc) <=>
              /\ e \in Tasks /\ x \in Nat /\ y \in Nat
              /\ IF Waits(e) THEN x = y + 1 /\ w[x] = Awaited(sc, e) ELSE x = y
<1> DEFINE z == <<e, x, y>>
<1>1. z[1] = e /\ z[2] = x /\ z[3] = y
  OBVIOUS
<1>2. z \in Tasks \X Nat \X Nat <=> e \in Tasks /\ x \in Nat /\ y \in Nat
  OBVIOUS
<1>3. z \in Positions(w, sc) <=>
         /\ z \in Tasks \X Nat \X Nat
         /\ IF Waits(z[1]) THEN z[2] = z[3] + 1 /\ w[z[2]] = Awaited(sc, z[1])
            ELSE z[2] = z[3]
  BY DEF Positions
<1> HIDE DEF z
<1>4. z \in Positions(w, sc) <=>
         /\ e \in Tasks /\ x \in Nat /\ y \in Nat
         /\ IF Waits(e) THEN x = y + 1 /\ w[x] = Awaited(sc, e) ELSE x = y
  BY <1>1, <1>2, <1>3
<1> QED  BY <1>4 DEF z

LEMMA PositionsMoved ==
    ASSUME NEW w, NEW v, NEW sc, NEW m \in Nat, \A k \in 1 .. m : v[k] = w[k],
           NEW a \in Nat, a <= m
    PROVE  Inherits(Positions(w, sc), Positions(v, sc), a)
<1> SUFFICES ASSUME NEW e, NEW x, NEW y, <<e, x, y>> \in Positions(w, sc), x <= a
             PROVE  <<e, x, y>> \in Positions(v, sc)
  BY DEF Inherits
<1>1. /\ e \in Tasks /\ x \in Nat /\ y \in Nat
      /\ IF Waits(e) THEN x = y + 1 /\ w[x] = Awaited(sc, e) ELSE x = y
  BY PositionsIn
<1>2. Waits(e) => v[x] = w[x]
  <2>1. ASSUME Waits(e) PROVE x \in 1 .. m
    BY <1>1, <2>1
  <2> QED  BY <2>1
<1> QED  BY <1>1, <1>2, PositionsIn

LEMMA BelowOf ==
    ASSUME NEW st \in Stacks, NEW w, Standing(st, w), st[Len(st)].todo # <<>>
    PROVE  \E b, m : /\ <<st[Len(st)].todo[1], Len(w), m>> \in At(w, st, Len(st))
                     /\ Below(st, w, m, b)
<1> DEFINE n == Len(st)  t == st[n].todo
<1>1. n \in Nat /\ n >= 1 /\ n \in 1 .. n /\ IsSeq(t) /\ t # <<>>
  <2>1. n \in Nat /\ n >= 1
    BY StackType
  <2>2. n \in 1 .. n
    BY <2>1
  <2> QED  BY <2>1, <2>2, StackType
<1>2. PICK b \in [0 .. n -> Nat] :
         /\ b[0] = 0 /\ b[n] = Len(w)
         /\ \A i, j \in 0 .. n : i <= j => b[i] <= b[j]
         /\ \A i \in 1 .. n : Threads(At(w, st, i), st[i].todo, b[i], b[i - 1])
  BY DEF Standing, At
<1> HIDE DEF n
<1>3. Threads(At(w, st, n), t, Len(w), b[n - 1])
  BY <1>1, <1>2
<1> HIDE DEF t
<1>4. PICK m \in Nat : /\ <<t[1], Len(w), m>> \in At(w, st, n)
                       /\ Threads(At(w, st, n), Tail(t), m, b[n - 1])
  BY <1>1, <1>3, ThreadFirst
<1>5. b[n - 1] <= m
  <2>1. IsSeq(Tail(t))
    <3>1. PICK S : t \in Seq(S)
      BY <1>1 DEF IsSeq
    <3>2. Tail(t) \in Seq(S)
      BY <1>1, <3>1
    <3> QED  BY <3>2 DEF IsSeq
  <2>2. Descends(At(w, st, n))
    BY PositionsDescend DEF At
  <2>3. Inherits(At(w, st, n), At(w, st, n), m)
    BY DEF Inherits
  <2> QED  BY <1>4, <2>1, <2>2, <2>3, ThreadInherited
<1> DEFINE c == [i \in 0 .. n - 1 |-> b[i]]
<1>6. \A i \in 0 .. n - 1 : c[i] = b[i] /\ i \in 0 .. n /\ b[i] \in Nat
  BY <1>1, <1>2
<1>7. c \in [0 .. n - 1 -> Nat] /\ 0 \in 0 .. n - 1 /\ n - 1 \in 0 .. n - 1
  BY <1>1, <1>6
<1> HIDE DEF c
<1>8. \A i, j \in 0 .. n - 1 : i <= j => c[i] <= c[j]
  BY <1>2, <1>6
<1>9. \A i \in 1 .. n - 1 : i \in 1 .. n /\ i \in 0 .. n - 1 /\ i - 1 \in 0 .. n - 1
  BY <1>1
<1>10. \A i \in 1 .. n - 1 : Threads(At(w, st, i), st[i].todo, c[i], c[i - 1])
  BY <1>2, <1>6, <1>9
<1>11. c[0] = 0 /\ c[n - 1] = b[n - 1]
  BY <1>2, <1>6, <1>7
<1>12. Threads(At(w, st, n), Tail(t), m, c[n - 1])
  BY <1>4, <1>11
<1>13. Below(st, w, m, c)
  BY <1>5, <1>7, <1>8, <1>10, <1>11, <1>12 DEF Below, n, t
<1> QED  BY <1>4, <1>13 DEF n, t

LEMMA BelowMoved ==
    ASSUME NEW st \in Stacks, st[Len(st)].todo # <<>>, NEW w, NEW m, NEW b, Below(st, w, m, b),
           NEW v, \A k \in 1 .. m : v[k] = w[k]
    PROVE  Below(st, v, m, b)
<1> DEFINE n == Len(st)
<1>1. /\ m \in Nat /\ b \in [0 .. n - 1 -> Nat] /\ b[0] = 0 /\ b[n - 1] <= m
      /\ \A i, j \in 0 .. n - 1 : i <= j => b[i] <= b[j]
      /\ \A i \in 1 .. n - 1 : Threads(At(w, st, i), st[i].todo, b[i], b[i - 1])
      /\ Threads(At(w, st, n), Tail(st[n].todo), m, b[n - 1])
  BY DEF Below
<1>2. n \in Nat /\ n >= 1 /\ n \in 1 .. n
  <2>1. n \in Nat /\ n >= 1
    BY StackType
  <2> QED  BY <2>1
<1>3. ASSUME NEW i, NEW t, IsSeq(t), NEW x, NEW y, x \in Nat, x <= m,
             Threads(At(w, st, i), t, x, y)
      PROVE  Threads(At(v, st, i), t, x, y)
  <2>1. Descends(At(w, st, i))
    BY PositionsDescend DEF At
  <2>2. Inherits(At(w, st, i), At(v, st, i), x)
    BY <1>1, <1>3, PositionsMoved DEF At
  <2> QED  BY <1>3, <2>1, <2>2, ThreadInherited
<1> HIDE DEF n
<1>4. ASSUME NEW i \in 1 .. n - 1
      PROVE  Threads(At(v, st, i), st[i].todo, b[i], b[i - 1])
  <2>1. i \in 0 .. n - 1 /\ n - 1 \in 0 .. n - 1 /\ i <= n - 1 /\ i \in 1 .. n
    BY <1>2
  <2>2. b[i] <= b[n - 1] /\ b[i] \in Nat /\ b[n - 1] \in Nat
    BY <1>1, <2>1
  <2>3. b[i] <= m
    BY <1>1, <2>2
  <2>4. IsSeq(st[i].todo)
    BY <2>1, StackType DEF n
  <2> QED  BY <1>1, <1>3, <2>2, <2>3, <2>4
<1>5. Threads(At(v, st, n), Tail(st[n].todo), m, b[n - 1])
  <2>1. IsSeq(Tail(st[n].todo))
    <3>1. st[n].todo \in Seq(Tasks) /\ st[n].todo # <<>>
      BY <1>2, StackType DEF n
    <3>2. Tail(st[n].todo) \in Seq(Tasks)
      BY <3>1
    <3> QED  BY <3>2 DEF IsSeq
  <2>2. m <= m
    BY <1>1
  <2> QED  BY <1>1, <1>3, <2>1, <2>2
<1> QED  BY <1>1, <1>4, <1>5 DEF Below, n

LEMMA AboveInstead ==
    ASSUME NEW st \in Stacks, st[Len(st)].todo # <<>>, NEW w, IsSeq(w),
           NEW m, NEW b, Below(st, w, m, b), m <= Len(w),
           NEW u \in Seq(Tasks), Threads(At(w, st, Len(st)), u, Len(w), m)
    PROVE  Standing(Instead(st, u), w)
<1> DEFINE n == Len(st)  r == Instead(st, u)
<1>1. /\ m \in Nat /\ b \in [0 .. n - 1 -> Nat] /\ b[0] = 0 /\ b[n - 1] <= m
      /\ \A i, j \in 0 .. n - 1 : i <= j => b[i] <= b[j]
      /\ \A i \in 1 .. n - 1 : Threads(At(w, st, i), st[i].todo, b[i], b[i - 1])
      /\ Threads(At(w, st, n), Tail(st[n].todo), m, b[n - 1])
  BY DEF Below
<1>2. n \in Nat /\ n >= 1 /\ Len(w) \in Nat
  BY StackType, SeqLength
<1>3. /\ r \in Stacks /\ Len(r) = n
      /\ \A i \in 1 .. n - 1 : r[i] = st[i]
      /\ r[n].todo = u \o Tail(st[n].todo)
      /\ \A i \in 1 .. n : r[i].table = st[i].table /\ r[i].chain = st[i].chain
  BY InsteadType
<1>4. ASSUME NEW i \in 1 .. n PROVE At(w, r, i) = At(w, st, i)
  <2>1. i \in Nat /\ i >= 1 /\ \A j \in 1 .. i : j \in 1 .. n
    BY <1>2
  <2>2. ScopeOf(r, i) = ScopeOf(st, i)
    BY <1>3, <2>1, ScopeSame
  <2> QED  BY <2>2 DEF At
<1>5. Threads(At(w, st, n), u \o Tail(st[n].todo), Len(w), b[n - 1])
  <2>1. IsSeq(u) /\ IsSeq(Tail(st[n].todo))
    <3>1. n \in 1 .. n
      BY <1>2
    <3>2. st[n].todo \in Seq(Tasks) /\ st[n].todo # <<>>
      BY <3>1, StackType
    <3>3. Tail(st[n].todo) \in Seq(Tasks)
      BY <3>2
    <3> QED  BY <3>3 DEF IsSeq
  <2> QED  BY <1>1, <2>1, ThreadConcat
<1> HIDE DEF n, r
<1> DEFINE c == [i \in 0 .. n |-> IF i = n THEN Len(w) ELSE b[i]]
<1>6. \A i \in 0 .. n : i # n => i \in 0 .. n - 1
  BY <1>2
<1>7. \A i \in 0 .. n - 1 : i \in 0 .. n /\ i # n
  BY <1>2
<1>8. /\ c \in [0 .. n -> Nat]
      /\ c[n] = Len(w) /\ \A i \in 0 .. n - 1 : c[i] = b[i]
  <2>1. n \in 0 .. n
    BY <1>2
  <2>2. \A i \in 0 .. n : i # n => b[i] \in Nat
    BY <1>1, <1>6
  <2> QED  BY <1>2, <1>7, <2>1, <2>2
<1> HIDE DEF c
<1>9. n - 1 \in 0 .. n - 1 /\ 0 \in 0 .. n - 1
  BY <1>2
<1>10. ASSUME NEW i \in 0 .. n, NEW j \in 0 .. n, i <= j PROVE c[i] <= c[j]
  <2>1. CASE j = n
    <3>1. CASE i = n
      BY <1>2, <1>8, <2>1, <3>1
    <3>2. CASE i # n
      <4>1. i \in 0 .. n - 1 /\ i <= n - 1
        BY <1>2, <3>2
      <4>2. b[i] <= b[n - 1] /\ b[i] \in Nat /\ b[n - 1] \in Nat
        BY <1>1, <1>9, <4>1
      <4>3. b[i] <= Len(w)
        BY <1>1, <1>2, <4>2
      <4> QED  BY <1>8, <2>1, <4>1, <4>3
    <3> QED  BY <3>1, <3>2
  <2>2. CASE j # n
    <3>1. i \in 0 .. n - 1 /\ j \in 0 .. n - 1
      BY <1>2, <1>10, <2>2
    <3> QED  BY <1>1, <1>8, <1>10, <3>1
  <2> QED  BY <2>1, <2>2
<1>11. ASSUME NEW i \in 1 .. n PROVE Threads(At(w, r, i), r[i].todo, c[i], c[i - 1])
  <2>1. CASE i = n
    BY <1>3, <1>4, <1>5, <1>8, <1>9, <2>1
  <2>2. CASE i # n
    <3>1. i \in 1 .. n - 1 /\ i \in 0 .. n - 1 /\ i - 1 \in 0 .. n - 1
      BY <1>2, <2>2
    <3> QED  BY <1>1, <1>3, <1>4, <1>8, <3>1
  <2> QED  BY <2>1, <2>2
<1>12. c[0] = 0
  BY <1>1, <1>8, <1>9
<1>13. Len(r) = n
  BY <1>3
<1> QED  BY <1>8, <1>10, <1>11, <1>12, <1>13 DEF Standing, At, r

LEMMA AbovePush ==
    ASSUME NEW st \in Stacks, st[Len(st)].todo # <<>>, NEW w, IsSeq(w),
           NEW m, NEW b, Below(st, w, m, b), m <= Len(w), NEW fr \in AnyFrames,
           NEW r, r = Append(Instead(st, <<>>), fr),
           Threads(Positions(w, ScopeOf(r, Len(st) + 1)), fr.todo, Len(w), m)
    PROVE  Standing(r, w)
<1> DEFINE n == Len(st)  q == Instead(st, <<>>)
<1>1. /\ m \in Nat /\ b \in [0 .. n - 1 -> Nat] /\ b[0] = 0 /\ b[n - 1] <= m
      /\ \A i, j \in 0 .. n - 1 : i <= j => b[i] <= b[j]
      /\ \A i \in 1 .. n - 1 : Threads(At(w, st, i), st[i].todo, b[i], b[i - 1])
      /\ Threads(At(w, st, n), Tail(st[n].todo), m, b[n - 1])
  BY DEF Below
<1>2. n \in Nat /\ n >= 1 /\ Len(w) \in Nat
  BY StackType, SeqLength
<1>3. <<>> \in Seq(Tasks)
  OBVIOUS
<1>4. /\ q \in Stacks /\ Len(q) = n
      /\ \A i \in 1 .. n - 1 : q[i] = st[i]
      /\ q[n].todo = <<>> \o Tail(st[n].todo)
      /\ \A i \in 1 .. n : q[i].table = st[i].table /\ q[i].chain = st[i].chain
  BY <1>3, InsteadType
<1>5. q[n].todo = Tail(st[n].todo)
  <2>1. n \in 1 .. n
    BY <1>2
  <2>2. st[n].todo \in Seq(Tasks) /\ st[n].todo # <<>>
    BY <2>1, StackType
  <2>3. Tail(st[n].todo) \in Seq(Tasks)
    BY <2>2
  <2> DEFINE t == Tail(st[n].todo)
  <2>4. t \in Seq(Tasks) => <<>> \o t = t
    <3> HIDE DEF t
    <3> QED  OBVIOUS
  <2> QED  BY <1>4, <2>3, <2>4
<1> HIDE DEF q
<1>6. r = Append(q, fr)
  BY DEF q
<1>7. Len(r) = n + 1 /\ \A i \in 1 .. n : r[i] = q[i]
      /\ r[n + 1] = fr
  BY <1>4, <1>6, PushType
<1>8. ASSUME NEW i \in 1 .. n PROVE At(w, r, i) = At(w, st, i)
  <2>1. i \in Nat /\ i >= 1 /\ \A j \in 1 .. i : j \in 1 .. n
    BY <1>2
  <2>2. ASSUME NEW j \in 1 .. i
        PROVE  r[j].table = st[j].table /\ r[j].chain = st[j].chain
    <3>1. j \in 1 .. n
      BY <2>1
    <3>2. r[j] = q[j]
      BY <1>7, <3>1
    <3>3. q[j].table = st[j].table /\ q[j].chain = st[j].chain
      BY <1>4, <3>1
    <3> QED  BY ONLY <3>2, <3>3
  <2>3. i \in 1 .. i
    BY <2>1
  <2>4. /\ i \in Nat /\ i >= 1 /\ r[i].chain = st[i].chain
        /\ \A j \in 1 .. i : r[j].table = st[j].table
    BY ONLY <2>1, <2>2, <2>3
  <2>5. ScopeOf(r, i) = ScopeOf(st, i)
    BY ONLY <2>4, ScopeSame
  <2> QED  BY <2>5 DEF At
<1>9. Threads(At(w, r, n + 1), fr.todo, Len(w), m)
  BY DEF At
<1> HIDE DEF n
<1> DEFINE c == [i \in 0 .. n + 1 |->
                    IF i = n + 1 THEN Len(w) ELSE IF i = n THEN m ELSE b[i]]
<1>10. /\ c \in [0 .. n + 1 -> Nat]
       /\ c[n + 1] = Len(w) /\ c[n] = m /\ \A i \in 0 .. n - 1 : c[i] = b[i]
  <2>1. \A i \in 0 .. n + 1 : i = n + 1 \/ i = n \/ i \in 0 .. n - 1
    BY <1>2
  <2>2. n + 1 \in 0 .. n + 1 /\ n \in 0 .. n + 1 /\ n # n + 1
    BY <1>2
  <2>3. \A i \in 0 .. n - 1 : i \in 0 .. n + 1 /\ i # n + 1 /\ i # n /\ b[i] \in Nat
    BY <1>1, <1>2
  <2>4. c \in [0 .. n + 1 -> Nat]
    BY <1>1, <1>2, <2>1, <2>3
  <2>5. c[n + 1] = Len(w) /\ c[n] = m
    BY <2>2
  <2>6. \A i \in 0 .. n - 1 : c[i] = b[i]
    BY <2>3
  <2> QED  BY <2>4, <2>5, <2>6
<1> HIDE DEF c
<1>11. n - 1 \in 0 .. n - 1 /\ 0 \in 0 .. n - 1
  BY <1>2
<1>12. \A i \in 0 .. n - 1 : c[i] <= m /\ c[i] \in Nat
  <2> SUFFICES ASSUME NEW i \in 0 .. n - 1 PROVE c[i] <= m /\ c[i] \in Nat
    OBVIOUS
  <2>1. i <= n - 1 /\ b[i] \in Nat /\ b[n - 1] \in Nat
    BY <1>1, <1>2, <1>11
  <2>2. b[i] <= b[n - 1]
    BY <1>1, <1>11, <2>1
  <2> QED  BY <1>1, <1>10, <2>1, <2>2
<1>13. ASSUME NEW i \in 0 .. n + 1, NEW j \in 0 .. n + 1, i <= j PROVE c[i] <= c[j]
  <2>1. CASE i \in 0 .. n - 1 /\ j \in 0 .. n - 1
    BY <1>1, <1>10, <1>13, <2>1
  <2>2. CASE i \in 0 .. n - 1 /\ j \notin 0 .. n - 1
    <3>1. c[j] = m \/ c[j] = Len(w)
      <4>1. j = n \/ j = n + 1
        BY <1>2, <2>2
      <4> QED  BY <1>10, <4>1
    <3> QED  BY <1>1, <1>2, <1>12, <2>2, <3>1
  <2>3. CASE i \notin 0 .. n - 1
    <3>1. \/ i = n /\ j = n
          \/ i = n /\ j = n + 1
          \/ i = n + 1 /\ j = n + 1
      BY <1>2, <1>13, <2>3
    <3> QED  BY <1>1, <1>2, <1>10, <3>1
  <2> QED  BY <2>1, <2>2, <2>3
<1>14. ASSUME NEW i \in 1 .. n + 1
       PROVE  Threads(At(w, r, i), r[i].todo, c[i], c[i - 1])
  <2>1. CASE i = n + 1
    <3>1. i - 1 = n
      BY <1>2, <2>1
    <3> QED  BY <1>7, <1>9, <1>10, <2>1, <3>1
  <2>2. CASE i = n
    <3>1. i \in 1 .. n /\ i - 1 \in 0 .. n - 1
      BY <1>2, <2>2
    <3> QED  BY <1>1, <1>5, <1>7, <1>8, <1>10, <2>2, <3>1 DEF n
  <2>3. CASE i # n /\ i # n + 1
    <3>1. i \in 1 .. n - 1 /\ i \in 1 .. n /\ i \in 0 .. n - 1 /\ i - 1 \in 0 .. n - 1
      BY <1>2, <2>3
    <3> QED  BY <1>1, <1>4, <1>7, <1>8, <1>10, <3>1
  <2> QED  BY <2>1, <2>2, <2>3
<1>15. c[0] = 0
  BY <1>1, <1>10, <1>11
<1> QED  BY <1>7, <1>10, <1>13, <1>14, <1>15 DEF Standing, At

LEMMA StandingPop ==
    ASSUME NEW st \in Stacks, Len(st) > 1, st[Len(st)].todo = <<>>,
           NEW w, Standing(st, w)
    PROVE  Standing(SubSeq(st, 1, Len(st) - 1), w)
<1> DEFINE n == Len(st)  r == SubSeq(st, 1, n - 1)
<1>1. n \in Nat /\ n >= 1
  BY StackType
<1>2. PICK b \in [0 .. n -> Nat] :
         /\ b[0] = 0 /\ b[n] = Len(w)
         /\ \A i, j \in 0 .. n : i <= j => b[i] <= b[j]
         /\ \A i \in 1 .. n : Threads(At(w, st, i), st[i].todo, b[i], b[i - 1])
  BY DEF Standing, At
<1>3. Len(r) = n - 1 /\ \A i \in 1 .. n - 1 : r[i] = st[i]
  BY PopType
<1>4. Threads(At(w, st, n), <<>>, b[n], b[n - 1])
  <2>1. n \in 1 .. n
    BY <1>1
  <2> QED  BY <1>2, <2>1
<1> HIDE DEF n, r
<1>5. b[n] = b[n - 1]
  <2>1. PICK g \in [1 .. Len(<<>>) + 1 -> Nat] : g[1] = b[n] /\ g[Len(<<>>) + 1] = b[n - 1]
    BY <1>4 DEF Threads
  <2>2. Len(<<>>) + 1 = 1
    OBVIOUS
  <2> QED  BY <2>1, <2>2
<1> DEFINE c == [i \in 0 .. n - 1 |-> b[i]]
<1>6. \A i \in 0 .. n - 1 : c[i] = b[i] /\ i \in 0 .. n /\ b[i] \in Nat
  BY <1>1, <1>2
<1>7. c \in [0 .. n - 1 -> Nat] /\ 0 \in 0 .. n - 1 /\ n - 1 \in 0 .. n - 1
  BY <1>1, <1>6
<1> HIDE DEF c
<1>8. \A i, j \in 0 .. n - 1 : i <= j => c[i] <= c[j]
  BY <1>2, <1>6
<1>9. ASSUME NEW i \in 1 .. n - 1
      PROVE  Threads(At(w, r, i), r[i].todo, c[i], c[i - 1])
  <2>1. i \in 1 .. n /\ i \in 0 .. n - 1 /\ i - 1 \in 0 .. n - 1
    BY <1>1
  <2>2. i \in Nat /\ i >= 1 /\ \A j \in 1 .. i : j \in 1 .. n - 1
    BY <1>1
  <2>3. ScopeOf(r, i) = ScopeOf(st, i)
    BY <1>3, <2>2, ScopeSame
  <2> QED  BY <1>2, <1>3, <1>6, <2>1, <2>3 DEF At
<1>10. c[0] = 0 /\ c[n - 1] = Len(w)
  BY <1>2, <1>5, <1>6, <1>7
<1> QED  BY <1>3, <1>7, <1>8, <1>9, <1>10 DEF Standing, At, r, n

-----------------------------------------------------------------------------
(* A node is visited in the scope of the frame, and leaves its subtrees    *)
(* to be visited where the walk goes next.                                 *)
LEMMA VisitStands ==
    ASSUME script \in Seq(Nodes), NEW st \in Stacks, NEW p \in Nat,
           p < Len(script), Standing(st, Walk[p]),
           st[Len(st)].todo # <<>>, st[Len(st)].todo[1] = Expr
    PROVE  LET n == Len(st)  sc == ScopeOf(st, n)  q == p + 1
               v == Walk[q]  a == Arity(script[q])
           IN  /\ q \in 1 .. Len(script) /\ Reached(q) /\ ScopeAt(q) = sc
               /\ a \in Nat
               /\ \E b, m : /\ m \in Nat /\ Below(st, v, m, b)
                            /\ IsSeq(v) /\ Len(v) = m + a
                            /\ \A i \in 1 .. a : v[m + a + 1 - i] = Subscopes(sc, q)[i]
<1> DEFINE n == Len(st)  sc == ScopeOf(st, n)  q == p + 1  w == Walk[p]
           v == Walk[q]  a == Arity(script[q])
<1>1. q \in 1 .. Len(script) /\ p \in 0 .. Len(script) /\ q - 1 = p
  <2>1. Len(script) \in Nat
    BY LenProperties
  <2> QED  BY <2>1
<1>2. w \in Seq(Scopes) /\ v = Visit(w, q)
  BY <1>1, WalkType
<1>3. PICK b, m : <<Expr, Len(w), m>> \in At(w, st, n) /\ Below(st, w, m, b)
  BY BelowOf
<1> HIDE DEF w, v, q, sc
<1>4. /\ m \in Nat /\ Len(w) \in Nat /\ Len(w) = m + 1 /\ w[Len(w)] = sc
  <2>1. Waits(Expr) /\ Awaited(sc, Expr) = sc
    BY DEF Waits, Awaited, Expr
  <2>2. At(w, st, n) = Positions(w, sc)
    BY DEF At, sc
  <2> HIDE DEF n
  <2> DEFINE l == Len(w)
  <2> HIDE DEF l
  <2>3. <<Expr, l, m>> \in Positions(w, sc)
    BY <1>3, <2>2 DEF l
  <2>4. m \in Nat /\ l \in Nat /\ l = m + 1 /\ w[l] = sc
    BY <2>1, <2>3, PositionsIn
  <2> QED  BY <2>4 DEF l
<1>5. w # <<>>
  <2>1. Len(w) # 0
    BY <1>4
  <2> QED  BY <2>1
<1>6. /\ a \in Nat /\ v \in Seq(Scopes) /\ Len(v) = Len(w) - 1 + a
      /\ \A k \in 1 .. Len(w) - 1 : v[k] = w[k]
      /\ \A i \in 1 .. a : v[Len(w) + a - i] = Subscopes(sc, q)[i]
  <2>1. LET s == Subscopes(w[Len(w)], q) IN
        /\ a \in Nat /\ v \in Seq(Scopes) /\ Len(v) = Len(w) - 1 + a
        /\ \A k \in 1 .. Len(w) - 1 : v[k] = w[k]
        /\ \A i \in 1 .. a : v[Len(w) + a - i] = s[i]
    BY <1>1, <1>2, <1>5, VisitStep
  <2> QED  BY <1>4, <2>1
<1>7. Below(st, v, m, b)
  <2>1. \A k \in 1 .. m : v[k] = w[k]
    BY <1>4, <1>6
  <2> QED  BY <1>3, <2>1, BelowMoved
<1>8. Len(v) = m + a /\ \A i \in 1 .. a : v[m + a + 1 - i] = Subscopes(sc, q)[i]
  <2>1. Len(v) = m + a
    BY <1>4, <1>6
  <2>2. ASSUME NEW i \in 1 .. a PROVE v[m + a + 1 - i] = Subscopes(sc, q)[i]
    <3>1. m + a + 1 - i = Len(w) + a - i
      BY <1>4, <1>6
    <3> QED  BY <1>6, <3>1
  <2> QED  BY <2>1, <2>2
<1>9. Reached(q) /\ ScopeAt(q) = sc
  BY <1>1, <1>4, <1>5 DEF Reached, ScopeAt, w
<1>10. IsSeq(v)
  BY <1>6 DEF IsSeq
<1> QED  BY <1>1, <1>4, <1>6, <1>7, <1>8, <1>9, <1>10, ZenonT(60) DEF n, sc, q, v, a

(* An item that is not a visit is worked off where it stands.              *)
LEMMA WorkStands ==
    ASSUME script \in Seq(Nodes), NEW st \in Stacks, NEW p \in 0 .. Len(script),
           Standing(st, Walk[p]), st[Len(st)].todo # <<>>
    PROVE  LET n == Len(st)  sc == ScopeOf(st, n)  w == Walk[p]
               e == st[n].todo[1]
           IN  /\ IsSeq(w) /\ e \in Tasks
               /\ \E b, m : /\ m \in Nat /\ Len(w) \in Nat /\ m <= Len(w)
                            /\ Below(st, w, m, b)
                            /\ Waits(e) => Len(w) = m + 1 /\ w[Len(w)] = Awaited(sc, e)
                            /\ ~ Waits(e) => Len(w) = m
<1> DEFINE n == Len(st)  sc == ScopeOf(st, n)  w == Walk[p]  e == st[n].todo[1]
<1>1. IsSeq(w)
  BY WalkType DEF IsSeq
<1>2. PICK b, m : <<e, Len(w), m>> \in At(w, st, n) /\ Below(st, w, m, b)
  BY BelowOf
<1>3. At(w, st, n) = Positions(w, sc)
  BY DEF At
<1> DEFINE l == Len(w)
<1> HIDE DEF l, w, sc, e
<1>4. <<e, l, m>> \in Positions(w, sc)
  BY <1>2, <1>3 DEF l
<1>5. /\ e \in Tasks /\ l \in Nat /\ m \in Nat
      /\ IF Waits(e) THEN l = m + 1 /\ w[l] = Awaited(sc, e) ELSE l = m
  BY <1>4, PositionsIn
<1>6. m <= l
  BY <1>5
<1> QED  BY <1>1, <1>2, <1>5, <1>6 DEF l, w, sc, e, n

-----------------------------------------------------------------------------
(* The lists of items that the actions leave behind.                       *)
LEMMA ExprTask == Expr \in Tasks /\ Waits(Expr) /\ \A sc : Awaited(sc, Expr) = sc
<1>1. Expr \in Tasks
  BY DEF Expr, Tasks, Doings
<1> QED  BY <1>1 DEF Expr, Waits, Awaited

LEMMA ThreadExprs ==
    ASSUME NEW v, NEW sc, NEW m \in Nat, NEW a \in Nat,
           \A i \in 1 .. a : v[m + a + 1 - i] = sc
    PROVE  Exprs(a) \in Seq(Tasks) /\ Threads(Positions(v, sc), Exprs(a), m + a, m)
<1> DEFINE t == Exprs(a)  R == Positions(v, sc)
           g == [i \in 1 .. a + 1 |-> m + a + 1 - i]
<1>1. t \in [1 .. a -> Tasks] /\ \A i \in 1 .. a : t[i] = Expr
  BY ExprTask DEF Exprs
<1>2. t \in Seq(Tasks) /\ Len(t) = a
  <2>1. t = [i \in 1 .. a |-> Expr]
    BY DEF Exprs
  <2> HIDE DEF t
  <2> QED  BY <2>1, ExprTask
<1>3. /\ g \in [1 .. a + 1 -> Nat] /\ g[1] = m + a /\ g[a + 1] = m
  OBVIOUS
<1>4. \A i \in 1 .. a : g[i] = m + a + 1 - i /\ g[i + 1] = m + a - i
  OBVIOUS
<1> HIDE DEF t, g
<1>5. ASSUME NEW i \in 1 .. a PROVE <<t[i], g[i], g[i + 1]>> \in R
  <2>1. /\ g[i] \in Nat /\ g[i + 1] \in Nat /\ g[i] = g[i + 1] + 1
    BY <1>4
  <2>2. v[g[i]] = sc
    BY <1>4
  <2>3. <<Expr, g[i], g[i + 1]>> \in R
    BY <2>1, <2>2, ExprTask, PositionsIn
  <2> QED  BY <1>1, <2>3
<1>6. Threads(R, t, m + a, m)
  BY <1>2, <1>3, <1>5 DEF Threads
<1> QED  BY <1>2, <1>6 DEF t, R

(* ... followed by an item that is worked off later.                       *)
LEMMA ThreadWith ==
    ASSUME NEW v, NEW sc, NEW x \in Nat, NEW m \in Nat, NEW t \in Seq(Tasks),
           Threads(Positions(v, sc), t, x, m),
           NEW e \in Tasks, ~ Waits(e)
    PROVE  t \o <<e>> \in Seq(Tasks) /\ Threads(Positions(v, sc), t \o <<e>>, x, m)
<1>1. <<e>> \in Seq(Tasks) /\ t \o <<e>> \in Seq(Tasks)
  OBVIOUS
<1>2. <<e, m, m>> \in Positions(v, sc)
  BY PositionsIn
<1>3. Threads(Positions(v, sc), <<e>>, m, m)
  BY <1>2, ThreadOne
<1>4. IsSeq(t) /\ IsSeq(<<e>>)
  BY <1>1 DEF IsSeq
<1> QED  BY <1>1, <1>3, <1>4, ThreadConcat

-----------------------------------------------------------------------------
(* The tree does not change, and nor does what is defined on it.           *)
LEMMA ScopesFixed ==
    ASSUME script' = script
    PROVE  /\ \A sc, p : LetScope(sc, p)' = LetScope(sc, p)
           /\ \A sc, p : NamedScope(sc, p)' = NamedScope(sc, p)
           /\ \A sc, p : BodyScope(sc, p)' = BodyScope(sc, p)
<1>1. \A sc, p : LetScope(sc, p)' = LetScope(sc, p)
  BY DEF LetScope
<1>2. \A sc, p : NamedScope(sc, p)' = NamedScope(sc, p)
  BY DEF NamedScope
<1>3. \A sc, p : BodyScope(sc, p)' = BodyScope(sc, p)
  BY DEF BodyScope
<1> QED  BY <1>1, <1>2, <1>3

LEMMA SubscopesFixed ==
    ASSUME script' = script
    PROVE  \A sc, p : Subscopes(sc, p)' = Subscopes(sc, p)
BY ScopesFixed DEF Subscopes

LEMMA VisitFixed ==
    ASSUME script' = script
    PROVE  \A w, p : Visit(w, p)' = Visit(w, p)
<1> QED  BY SubscopesFixed DEF Visit

LEMMA WalkTypeFormula ==
    script \in Seq(Nodes) =>
           /\ Walk \in [0 .. Len(script) -> Seq(Scopes)]
           /\ Walk[0] = <<Toplevel>>
           /\ \A p \in 1 .. Len(script) : Walk[p] = Visit(Walk[p - 1], p)
BY WalkType

LEMMA WalkFixed ==
    ASSUME script' = script, script \in Seq(Nodes)
    PROVE  Walk' = Walk
<1>1. (script \in Seq(Nodes) =>
           /\ Walk \in [0 .. Len(script) -> Seq(Scopes)]
           /\ Walk[0] = <<Toplevel>>
           /\ \A p \in 1 .. Len(script) : Walk[p] = Visit(Walk[p - 1], p))'
  BY WalkTypeFormula, PTL
<1> DEFINE n == Len(script)  S == Seq(Scopes)
<1>2. /\ Walk' \in [0 .. n -> S] /\ Walk'[0] = <<Toplevel>>
      /\ \A p \in 1 .. n : Walk'[p] = Visit(Walk'[p - 1], p)
  BY <1>1, VisitFixed
<1>3. /\ Walk \in [0 .. n -> S] /\ Walk[0] = <<Toplevel>>
      /\ \A p \in 1 .. n : Walk[p] = Visit(Walk[p - 1], p)
  BY WalkType
<1>4. n \in Nat /\ 0 \in Nat /\ 0 + 1 = 1
  BY LenProperties
<1> DEFINE f == Walk  g == Walk'
<1> HIDE DEF n, S, f, g
<1>5. Follows(g, f, 0, n)
  BY <1>2, <1>3, <1>4 DEF Follows, f, g
<1>6. \A p \in 0 .. n : g[p] = f[p]
  BY <1>4, <1>5, SameIteration
<1>7. g = f
  <2>1. g \in [0 .. n -> S] /\ f \in [0 .. n -> S]
    BY <1>2, <1>3 DEF f, g
  <2>2. g = [p \in 0 .. n |-> g[p]] /\ f = [p \in 0 .. n |-> f[p]]
    BY <2>1
  <2> QED  BY <1>6, <2>2
<1> QED  BY <1>7 DEF f, g

LEMMA ReachedFixed ==
    ASSUME script' = script, script \in Seq(Nodes)
    PROVE  /\ \A p : Reached(p)' = Reached(p)
           /\ \A p : ScopeAt(p)' = ScopeAt(p)
BY WalkFixed DEF Reached, ScopeAt

LEMMA PositionsFixed ==
    ASSUME script' = script, script \in Seq(Nodes)
    PROVE  /\ \A w, sc : Positions(w, sc)' = Positions(w, sc)
           /\ \A sc, e : AtHome(sc, e)' <=> AtHome(sc, e)
<1>1. \A sc, e : Awaited(sc, e)' = Awaited(sc, e)
  BY ScopesFixed DEF Awaited
<1>2. \A w, sc : Positions(w, sc)' = Positions(w, sc)
  BY <1>1 DEF Positions
<1>3. \A sc, e : AtHome(sc, e)' <=> AtHome(sc, e)
  BY ScopesFixed, ReachedFixed DEF AtHome
<1> QED  BY <1>2, <1>3

LEMMA StandingFixed ==
    ASSUME script' = script, script \in Seq(Nodes)
    PROVE  \A st, w : Standing(st, w)' <=> Standing(st, w)
<1>1. \A st, i : ScopeOf(st, i)' = ScopeOf(st, i)
  BY DEF ScopeOf, Seen
<1>2. \A w, st, i : Positions(w, ScopeOf(st, i))' = Positions(w, ScopeOf(st, i))
  BY <1>1, PositionsFixed
<1> SUFFICES ASSUME NEW st, NEW w PROVE Standing(st, w)' <=> Standing(st, w)
  OBVIOUS
<1>3. Standing(st, w)' <=>
         \E b \in [0 .. Len(st) -> Nat] :
            /\ b[0] = 0 /\ b[Len(st)] = Len(w)
            /\ \A i, j \in 0 .. Len(st) : i <= j => b[i] <= b[j]
            /\ \A i \in 1 .. Len(st) :
                  Threads(Positions(w, ScopeOf(st, i))', st[i].todo, b[i], b[i - 1])
  BY DEF Standing
<1>4. \A b, i : Threads(Positions(w, ScopeOf(st, i))', st[i].todo, b[i], b[i - 1])
                   <=> Threads(Positions(w, ScopeOf(st, i)), st[i].todo, b[i], b[i - 1])
  BY <1>2
<1> QED  BY <1>3, <1>4 DEF Standing

-----------------------------------------------------------------------------
LEMMA WorkInstead ==
    ASSUME NEW st \in Stacks, st[Len(st)].todo # <<>>, NEW u \in Seq(Tasks),
           NEW sc, NEW e, InWork(Instead(st, u), sc, e)
    PROVE  \/ InWork(st, sc, e)
           \/ sc = ScopeOf(st, Len(st)) /\ \E k \in 1 .. Len(u) : e = u[k]
<1> DEFINE n == Len(st)  r == Instead(st, u)  t == st[n].todo
<1>1. n \in Nat /\ n >= 1 /\ n \in 1 .. n
  <2>1. n \in Nat /\ n >= 1
    BY StackType
  <2> QED  BY <2>1
<1>2. /\ r \in Stacks /\ Len(r) = n
      /\ \A i \in 1 .. n - 1 : r[i] = st[i]
      /\ r[n].todo = u \o Tail(t)
      /\ \A i \in 1 .. n : r[i].table = st[i].table /\ r[i].chain = st[i].chain
  BY InsteadType
<1>3. t \in Seq(Tasks) /\ t # <<>> /\ IsSeq(t) /\ IsSeq(u) /\ Len(u) \in Nat /\ Len(t) \in Nat
  <2>1. t \in Seq(Tasks) /\ t # <<>> /\ IsSeq(t)
    BY <1>1, StackType
  <2>2. IsSeq(u)
    BY DEF IsSeq
  <2> QED  BY <2>1, <2>2, SeqLength
<1> HIDE DEF t
<1> DEFINE x == u \o Tail(t)
<1>4. /\ Len(x) = Len(u) + Len(t) - 1
      /\ \A i \in 1 .. Len(u) : x[i] = u[i]
      /\ \A i \in 2 .. Len(t) : x[Len(u) + i - 1] = t[i]
  BY <1>3, ReplaceFirst
<1>5. PICK i \in 1 .. n :
         sc = ScopeOf(r, i) /\ \E j \in 1 .. Len(r[i].todo) : e = r[i].todo[j]
  BY <1>2 DEF InWork
<1>5a. PICK j \in 1 .. Len(r[i].todo) : e = r[i].todo[j]
  BY <1>5
<1>6. ScopeOf(r, i) = ScopeOf(st, i)
  <2>1. i \in Nat /\ i >= 1 /\ \A k \in 1 .. i : k \in 1 .. n
    BY <1>1
  <2> QED  BY <1>2, <2>1, ScopeSame
<1> HIDE DEF r, n, x
<1>7. CASE i # n
  <2>1. i \in 1 .. n - 1
    BY <1>1, <1>7
  <2>2. r[i].todo = st[i].todo
    BY <1>2, <2>1
  <2>3. InWork(st, sc, e)
    BY <1>5, <1>5a, <1>6, <2>2 DEF InWork, n
  <2> QED  BY <2>3
<1>8. CASE i = n
  <2>1. r[i].todo = x /\ sc = ScopeOf(st, n)
    BY <1>2, <1>5, <1>6, <1>8 DEF x
  <2>2. j \in 1 .. Len(x) /\ e = x[j]
    BY <1>5a, <2>1
  <2>3. CASE j <= Len(u)
    <3>1. j \in 1 .. Len(u)
      BY <1>3, <2>2, <2>3
    <3> QED  BY <1>4, <2>1, <2>2, <3>1 DEF n
  <2>4. CASE ~ (j <= Len(u))
    <3> DEFINE k == j - Len(u) + 1
    <3>1. k \in 2 .. Len(t) /\ k \in 1 .. Len(t) /\ Len(u) + k - 1 = j
      BY <1>3, <1>4, <2>2, <2>4
    <3> HIDE DEF k
    <3>2. e = t[k]
      BY <1>4, <2>2, <3>1
    <3> QED  BY <1>1, <2>1, <3>1, <3>2 DEF InWork, n, t
  <2> QED  BY <2>3, <2>4
<1> QED  BY <1>7, <1>8

ItemOf(fr, e) == \E k \in 1 .. Len(fr.todo) : e = fr.todo[k]

Pushes(st, fr, r) == st \in Stacks /\ fr \in AnyFrames /\ r = Append(st, fr)

LEMMA WorkPush ==
    ASSUME NEW st, NEW fr, NEW sc, NEW e, NEW r, Pushes(st, fr, r), InWork(r, sc, e)
    PROVE  InWork(st, sc, e) \/ (sc = ScopeOf(r, Len(st) + 1) /\ ItemOf(fr, e))
<1> DEFINE n == Len(st)
<1> USE DEF Pushes, ItemOf
<1>1. n \in Nat
  BY StackType
<1>2. Len(r) = n + 1 /\ \A i \in 1 .. n : r[i] = st[i]
      /\ r[n + 1] = fr
  BY PushType
<1> HIDE DEF n
<1>3. PICK i \in 1 .. n + 1 :
         sc = ScopeOf(r, i) /\ \E j \in 1 .. Len(r[i].todo) : e = r[i].todo[j]
  BY <1>2 DEF InWork
<1>3a. PICK j \in 1 .. Len(r[i].todo) : e = r[i].todo[j]
  BY <1>3
<1>4. CASE i = n + 1
  BY <1>2, <1>3, <1>3a, <1>4 DEF n
<1>5. CASE i # n + 1
  <2>1. i \in 1 .. n
    BY <1>1, <1>5
  <2>2. i \in Nat /\ i >= 1 /\ \A k \in 1 .. i : k \in 1 .. n
    BY <1>1, <2>1
  <2>3. ScopeOf(r, i) = ScopeOf(st, i)
    BY <1>2, <2>1, <2>2, ScopeSame
  <2> QED  BY <1>2, <1>3, <1>3a, <2>1, <2>3 DEF InWork, n
<1> QED  BY <1>4, <1>5

LEMMA WorkPop ==
    ASSUME NEW st \in Stacks, Len(st) > 1, NEW sc, NEW e,
           InWork(SubSeq(st, 1, Len(st) - 1), sc, e)
    PROVE  InWork(st, sc, e)
<1> DEFINE n == Len(st)  r == SubSeq(st, 1, n - 1)
<1>1. n \in Nat
  BY StackType
<1>2. Len(r) = n - 1 /\ \A i \in 1 .. n - 1 : r[i] = st[i]
  BY PopType
<1> HIDE DEF n, r
<1>3. PICK i \in 1 .. n - 1 :
         sc = ScopeOf(r, i) /\ \E j \in 1 .. Len(r[i].todo) : e = r[i].todo[j]
  BY <1>2 DEF InWork, r, n
<1>3a. PICK j \in 1 .. Len(r[i].todo) : e = r[i].todo[j]
  BY <1>3
<1>4. i \in 1 .. n /\ i \in Nat /\ i >= 1 /\ \A k \in 1 .. i : k \in 1 .. n - 1
  BY <1>1
<1>5. ScopeOf(r, i) = ScopeOf(st, i)
  BY <1>2, <1>4, ScopeSame
<1> QED  BY <1>2, <1>3, <1>3a, <1>4, <1>5 DEF InWork, n

LEMMA WorkFirst ==
    ASSUME NEW st \in Stacks, st[Len(st)].todo # <<>>
    PROVE  InWork(st, ScopeOf(st, Len(st)), st[Len(st)].todo[1])
<1>1. Len(st) \in 1 .. Len(st)
  <2>1. Len(st) \in Nat /\ Len(st) >= 1
    BY StackType
  <2> QED  BY <2>1
<1>2. 1 \in 1 .. Len(st[Len(st)].todo)
  <2>1. IsSeq(st[Len(st)].todo)
    BY <1>1, StackType
  <2> DEFINE l == Len(st[Len(st)].todo)
  <2>2. l \in Nat /\ l # 0
    BY <2>1, SeqLength
  <2> HIDE DEF l
  <2>3. 1 \in 1 .. l
    BY <2>2
  <2> QED  BY <2>3 DEF l
<1> QED  BY <1>1, <1>2 DEF InWork

-----------------------------------------------------------------------------
(* The scope of a frame that is opened.                                    *)
Opens(st, r, fr) ==
    /\ fr \in AnyFrames /\ r = Append(Instead(st, <<>>), fr)
    /\ r \in Stacks /\ Len(r) = Len(st) + 1 /\ r[Len(st) + 1] = fr
    /\ \A i \in 1 .. Len(st) : ScopeOf(r, i) = ScopeOf(st, i)
    /\ Instead(st, <<>>) \in Stacks /\ Len(Instead(st, <<>>)) = Len(st)
    /\ ScopeOf(r, Len(st) + 1) =
          Scope(fr.chain, fr.table, Seen(st, Len(st)) \cup SeenIn(fr.table))

LEMMA ScopePushed ==
    ASSUME NEW st \in Stacks, st[Len(st)].todo # <<>>, NEW fr \in AnyFrames,
           NEW r, r = Append(Instead(st, <<>>), fr)
    PROVE  Opens(st, r, fr)
<1>1. PICK n \in Nat : n = Len(st)
  BY StackType
<1>2. PICK q : q = Instead(st, <<>>)
  OBVIOUS
<1>3. <<>> \in Seq(Tasks)
  OBVIOUS
<1>4. q \in Stacks /\ Len(q) = n
      /\ \A i \in 1 .. n : q[i].table = st[i].table /\ q[i].chain = st[i].chain
  BY <1>1, <1>2, <1>3, InsteadType
<1>5. r = Append(q, fr)
  BY <1>2
<1>6. r \in Stacks /\ Len(r) = n + 1 /\ \A i \in 1 .. n : r[i] = q[i]
      /\ r[n + 1] = fr
  <2>1. /\ Append(q, fr) \in Stacks /\ Len(Append(q, fr)) = Len(q) + 1
        /\ \A i \in 1 .. Len(q) : Append(q, fr)[i] = q[i]
        /\ Append(q, fr)[Len(q) + 1] = fr
    BY <1>4, PushType
  <2> QED  BY <1>4, <1>5, <2>1
<1>7. \A i \in 1 .. n : r[i].table = st[i].table /\ r[i].chain = st[i].chain
  BY <1>4, <1>6
<1>8. ASSUME NEW i \in 1 .. n PROVE ScopeOf(r, i) = ScopeOf(st, i)
  <2>1. i \in Nat /\ i >= 1 /\ \A k \in 1 .. i : k \in 1 .. n
    BY <1>1
  <2> QED  BY <1>7, <2>1, ScopeSame
<1>9. Seen(r, n + 1) = Seen(st, n) \cup SeenIn(fr.table)
  <2>1. SameTables(st, r, n)
    BY <1>7 DEF SameTables
  <2>2. Seen(r, n + 1) = Seen(st, n) \cup SeenIn(r[n + 1].table)
    BY <2>1, SeenPushed
  <2>3. r[n + 1] = fr
    BY <1>6
  <2> QED  BY <2>2, <2>3
<1>10. ScopeOf(r, n + 1) =
          Scope(fr.chain, fr.table, Seen(st, n) \cup SeenIn(fr.table))
  <2>1. ScopeOf(r, n + 1) = Scope(r[n + 1].chain, r[n + 1].table, Seen(r, n + 1))
    BY DEF ScopeOf
  <2>2. r[n + 1] = fr
    BY <1>6
  <2> QED  BY <1>9, <2>1, <2>2
<1> QED  BY <1>1, <1>2, <1>4, <1>6, <1>8, <1>10 DEF Opens

LEMMA SeenWithSymbol ==
    ASSUME NEW st \in Stacks, NEW s \in Symbols
    PROVE  LET n == Len(st)  t == WithSymbol(st[n].table, s) IN
           Seen(st, n) \cup SeenIn(t) =
           Seen(st, n) \cup (IF s.kind = "var" THEN {s} ELSE {})
<1> DEFINE n == Len(st)  o == st[n].table  t == WithSymbol(o, s)
<1>1. n \in Nat /\ n >= 1 /\ o \in Tables
  <2>1. n \in Nat /\ n >= 1
    BY StackType
  <2>2. n \in 1 .. n
    BY <2>1
  <2> QED  BY <2>1, <2>2, StackType
<1>2. s.name \in Names
  BY DEF Symbols
<1>3. t[s.name] = s /\ \A x \in Names : t[x] = s \/ t[x] = o[x]
  BY <1>1, <1>2 DEF WithSymbol, Tables
<1>4. \A x \in Names : o[x].kind = "var" => o[x] \in Seen(st, n)
  BY <1>1, SeenTop
<1> HIDE DEF t, o
<1>5. ASSUME NEW v, v \in {t[x] : x \in Names}, v.kind = "var"
      PROVE  v \in Seen(st, n) \/ (v = s /\ s.kind = "var")
  BY <1>3, <1>4, <1>5
<1>6. s.kind = "var" => s \in {v \in {t[x] : x \in Names} : v.kind = "var"}
  BY <1>2, <1>3
<1> HIDE DEF n
<1> QED  BY <1>5, <1>6 DEF t, o, n, SeenIn

LEMMA SeenWithArguments ==
    ASSUME NEW st \in Stacks, NEW p, NEW ps \in Seq(Params)
    PROVE  LET n == Len(st)  t == WithArguments(st[n].table, p, ps) IN
           Seen(st, n) \cup SeenIn(t) =
           Seen(st, n) \cup Arguments(p, ps)
<1> DEFINE n == Len(st)  o == st[n].table  t == WithArguments(o, p, ps)
           A == Arguments(p, ps)
<1>1. n \in Nat /\ n >= 1
  BY StackType
<1>2. \A x \in Names : IF x \in ParamNames(ps) THEN t[x] = Variable(p, p, x)
                       ELSE t[x] = o[x]
  BY DEF WithArguments
<1>3. \A x \in Names : o[x].kind = "var" => o[x] \in Seen(st, n)
  BY <1>1, SeenTop
<1>4. ParamNames(ps) \subseteq Names
  BY ParamNamesType
<1>5. A = {Variable(p, p, x) : x \in ParamNames(ps)}
  BY DEF Arguments
<1>6. \A x : Variable(p, p, x).kind = "var"
  BY DEF Variable
<1> HIDE DEF t, o, n, A
<1>7. ASSUME NEW v, v \in {t[x] : x \in Names}, v.kind = "var"
      PROVE  v \in Seen(st, n) \/ v \in A
  <2>1. PICK x \in Names : v = t[x]
    BY <1>7
  <2> QED  BY <1>2, <1>3, <1>5, <1>7, <2>1
<1>8. \A v \in A : v \in {t[x] : x \in Names} /\ v.kind = "var"
  BY <1>2, <1>4, <1>5, <1>6
<1> QED  BY <1>7, <1>8 DEF t, o, n, A, SeenIn

(* The frames opened by `let', by a function and by its body.              *)
OpenLet(st, p, u) ==
    Append(Instead(st, <<>>),
        Frame(st[Len(st)].chain,
              WithSymbol(st[Len(st)].table,
                  Variable(FunctionOn(st[Len(st)]), p, script[p].name)), u))

OpenNamed(st, p, u) ==
    Append(Instead(st, <<>>),
        Frame(st[Len(st)].chain,
              WithSymbol(st[Len(st)].table,
                  Function(FunctionOn(st[Len(st)]), p, script[p].name)), u))

OpenBody(st, p, u) ==
    Append(Instead(st, <<>>),
        Frame(Append(st[Len(st)].chain, p),
              WithArguments(st[Len(st)].table, p, script[p].params), u))

LEMMA TopType ==
    ASSUME NEW st \in Stacks
    PROVE  LET n == Len(st)  fr == st[n]  sc == ScopeOf(st, n) IN
           /\ n \in Nat /\ n >= 1 /\ n \in 1 .. n
           /\ fr.chain \in Seq(Nat) /\ fr.chain # <<>> /\ fr.table \in Tables
           /\ fr.todo \in Seq(Tasks)
           /\ sc \in Scopes /\ sc.chain = fr.chain /\ sc.table = fr.table
           /\ sc.seen = Seen(st, n) /\ Innermost(sc) = FunctionOn(fr)
           /\ FunctionOn(fr) \in Nat
<1> DEFINE n == Len(st)  fr == st[n]  sc == ScopeOf(st, n)
<1>1. n \in Nat /\ n >= 1
  BY StackType
<1>2. n \in 1 .. n
  BY <1>1
<1>3. fr.chain \in Seq(Nat) /\ fr.chain # <<>> /\ fr.table \in Tables
      /\ fr.todo \in Seq(Tasks)
  BY <1>2, StackType
<1>4. sc \in Scopes
  BY <1>2, ScopeOfType
<1>5. sc.chain = fr.chain /\ sc.table = fr.table /\ sc.seen = Seen(st, n)
  BY DEF ScopeOf, Scope
<1>6. Innermost(sc) = FunctionOn(fr)
  BY <1>5 DEF Innermost, FunctionOn
<1>7. Innermost(sc) \in Nat
  BY <1>4, ScopeType
<1> QED  BY <1>1, <1>2, <1>3, <1>4, <1>5, <1>6, <1>7

LEMMA LetOpened ==
    ASSUME script \in Seq(Nodes), NEW st \in Stacks, st[Len(st)].todo # <<>>,
           NEW p \in 1 .. Len(script), script[p].op = "let",
           NEW u \in Seq(Tasks), NEW r, r = OpenLet(st, p, u)
    PROVE  /\ \E fr : Opens(st, r, fr) /\ fr.todo = u
                      /\ fr.chain = st[Len(st)].chain
                      /\ fr.table = WithSymbol(st[Len(st)].table,
                            Variable(FunctionOn(st[Len(st)]), p, script[p].name))
           /\ ScopeOf(r, Len(st) + 1) = LetScope(ScopeOf(st, Len(st)), p)
<1> DEFINE n == Len(st)  c == st[n].chain  t == st[n].table  f == FunctionOn(st[n])
           s == Variable(f, p, script[p].name)
           fr == Frame(c, WithSymbol(t, s), u)
           sc == ScopeOf(st, n)
<1>1. /\ c \in Seq(Nat) /\ c # <<>> /\ t \in Tables /\ f \in Nat
      /\ sc.chain = c /\ sc.table = t /\ sc.seen = Seen(st, n) /\ Innermost(sc) = f
  BY TopType
<1>2. s \in Symbols /\ s.kind = "var"
  <2>1. script[p].name \in Names /\ p \in Nat
    BY NodeAt, NodeFields
  <2> QED  BY <1>1, <2>1 DEF Variable, Symbols, Kinds
<1>3. r = Append(Instead(st, <<>>), fr)
  BY DEF OpenLet
<1>4. sc.seen \cup {s} = Seen(st, n) \cup
         SeenIn(WithSymbol(t, s))
  BY <1>1, <1>2, SeenWithSymbol
<1> DEFINE l == LetScope(sc, p)
<1>5. l = Scope(c, WithSymbol(t, s), sc.seen \cup {s})
  BY <1>1 DEF LetScope
<1> HIDE DEF s, sc, l
<1>6. WithSymbol(t, s) \in Tables
  BY <1>1, <1>2, TableType
<1> HIDE DEF c, t
<1>7. /\ fr \in AnyFrames /\ fr.chain = c /\ fr.table = WithSymbol(t, s) /\ fr.todo = u
  BY <1>1, <1>6, MakeFrame
<1> HIDE DEF fr
<1>8. Opens(st, r, fr)
  BY <1>3, <1>7, ScopePushed
<1>9. ScopeOf(r, n + 1) =
         Scope(fr.chain, fr.table, Seen(st, n) \cup SeenIn(fr.table))
  BY <1>8 DEF Opens
<1>10. ScopeOf(r, n + 1) = l
  BY <1>4, <1>5, <1>7, <1>9
<1> QED  BY <1>7, <1>8, <1>10 DEF l, sc, s, c, t

LEMMA NamedOpened ==
    ASSUME script \in Seq(Nodes), NEW st \in Stacks, st[Len(st)].todo # <<>>,
           NEW p \in 1 .. Len(script), script[p].op = "fun",
           NEW u \in Seq(Tasks), NEW r, r = OpenNamed(st, p, u)
    PROVE  /\ \E fr : Opens(st, r, fr) /\ fr.todo = u
                      /\ fr.chain = st[Len(st)].chain
                      /\ fr.table = WithSymbol(st[Len(st)].table,
                            Function(FunctionOn(st[Len(st)]), p, script[p].name))
           /\ ScopeOf(r, Len(st) + 1) = NamedScope(ScopeOf(st, Len(st)), p)
<1> DEFINE n == Len(st)  c == st[n].chain  t == st[n].table  f == FunctionOn(st[n])
           s == Function(f, p, script[p].name)
           fr == Frame(c, WithSymbol(t, s), u)
           sc == ScopeOf(st, n)
<1>1. /\ c \in Seq(Nat) /\ c # <<>> /\ t \in Tables /\ f \in Nat
      /\ sc.chain = c /\ sc.table = t /\ sc.seen = Seen(st, n) /\ Innermost(sc) = f
  BY TopType
<1>2. s \in Symbols /\ s.kind # "var"
  <2>1. script[p].name \in Names /\ p \in Nat
    BY NodeAt, NodeFields
  <2> QED  BY <1>1, <2>1 DEF Function, Symbols, Kinds
<1>3. r = Append(Instead(st, <<>>), fr)
  BY DEF OpenNamed
<1>4. sc.seen = Seen(st, n) \cup
         SeenIn(WithSymbol(t, s))
  BY <1>1, <1>2, SeenWithSymbol
<1> DEFINE l == NamedScope(sc, p)
<1>5. l = Scope(c, WithSymbol(t, s), sc.seen)
  BY <1>1 DEF NamedScope
<1> HIDE DEF s, sc, l
<1>6. WithSymbol(t, s) \in Tables
  BY <1>1, <1>2, TableType
<1> HIDE DEF c, t
<1>7. /\ fr \in AnyFrames /\ fr.chain = c /\ fr.table = WithSymbol(t, s) /\ fr.todo = u
  BY <1>1, <1>6, MakeFrame
<1> HIDE DEF fr
<1>8. Opens(st, r, fr)
  BY <1>3, <1>7, ScopePushed
<1>9. ScopeOf(r, n + 1) =
         Scope(fr.chain, fr.table, Seen(st, n) \cup SeenIn(fr.table))
  BY <1>8 DEF Opens
<1>10. ScopeOf(r, n + 1) = l
  BY <1>4, <1>5, <1>7, <1>9
<1> QED  BY <1>7, <1>8, <1>10 DEF l, sc, s, c, t

LEMMA AppendType ==
    ASSUME NEW c \in Seq(Nat), NEW p \in Nat
    PROVE  Append(c, p) \in Seq(Nat) /\ Append(c, p) # <<>>
  OBVIOUS

LEMMA BodyOpened ==
    ASSUME script \in Seq(Nodes), NEW st \in Stacks, st[Len(st)].todo # <<>>,
           NEW p \in 1 .. Len(script), script[p].op = "fun",
           NEW u \in Seq(Tasks), NEW r, r = OpenBody(st, p, u)
    PROVE  /\ \E fr : Opens(st, r, fr) /\ fr.todo = u
                      /\ fr.chain = Append(st[Len(st)].chain, p)
                      /\ fr.table = WithArguments(st[Len(st)].table, p, script[p].params)
           /\ ScopeOf(r, Len(st) + 1) = BodyScope(ScopeOf(st, Len(st)), p)
<1> DEFINE n == Len(st)  c == st[n].chain  t == st[n].table  ps == script[p].params
           d == Append(c, p)
           o == WithArguments(t, p, ps)
           fr == Frame(d, o, u)
           sc == ScopeOf(st, n)
<1>1. /\ c \in Seq(Nat) /\ c # <<>> /\ t \in Tables
      /\ sc.chain = c /\ sc.table = t /\ sc.seen = Seen(st, n)
  BY TopType
<1>2. ps \in Seq(Params) /\ p \in Nat
  BY NodeAt, NodeFields
<1>3. r = Append(Instead(st, <<>>), fr)
  BY DEF OpenBody
<1>4. sc.seen \cup Arguments(p, ps) = Seen(st, n) \cup
         SeenIn(o)
  BY <1>1, <1>2, SeenWithArguments
<1> DEFINE l == BodyScope(sc, p)
<1>5. l = Scope(d, o, sc.seen \cup Arguments(p, ps))
  BY <1>1 DEF BodyScope
<1> HIDE DEF sc, l
<1>6. o \in Tables
  BY <1>1, <1>2, TableType
<1> HIDE DEF c, t, o
<1>7. d \in Seq(Nat) /\ d # <<>>
  BY <1>1, <1>2, AppendType
<1> HIDE DEF d
<1>8. /\ fr \in AnyFrames /\ fr.chain = d /\ fr.table = o /\ fr.todo = u
  BY <1>6, <1>7, MakeFrame
<1> HIDE DEF fr
<1>9. Opens(st, r, fr)
  BY <1>3, <1>8, ScopePushed
<1>10. ScopeOf(r, n + 1) =
         Scope(fr.chain, fr.table, Seen(st, n) \cup SeenIn(fr.table))
  BY <1>9 DEF Opens
<1>11. ScopeOf(r, n + 1) = l
  BY <1>4, <1>5, <1>8, <1>10
<1> QED  BY <1>8, <1>9, <1>11 DEF l, sc, d, o, c, t

-----------------------------------------------------------------------------
(* Lists of items that visit a subtrees, all in scope sc.                  *)
Suits(u, sc, a) ==
    /\ u \in Seq(Tasks)
    /\ \A v, m : m \in Nat /\ (\A i \in 1 .. a : v[m + a + 1 - i] = sc)
                 => Threads(Positions(v, sc), u, m + a, m)

LEMMA SuitExprs ==
    ASSUME NEW a \in Nat, NEW sc
    PROVE  Suits(Exprs(a), sc, a)
<1>1. Exprs(a) \in Seq(Tasks)
  <2>1. Exprs(a) = [i \in 1 .. a |-> Expr]
    BY DEF Exprs
  <2> QED  BY <2>1, ExprTask
<1>2. ASSUME NEW v, NEW m, m \in Nat, \A i \in 1 .. a : v[m + a + 1 - i] = sc
      PROVE  Threads(Positions(v, sc), Exprs(a), m + a, m)
  BY <1>2, ThreadExprs
<1> QED  BY <1>1, <1>2 DEF Suits

LEMMA SuitWith ==
    ASSUME NEW a \in Nat, NEW sc, NEW u, Suits(u, sc, a), NEW e \in Tasks, ~ Waits(e)
    PROVE  Suits(u \o <<e>>, sc, a)
<1>1. u \in Seq(Tasks)
  BY DEF Suits
<1>2. u \o <<e>> \in Seq(Tasks)
  BY <1>1
<1>3. ASSUME NEW v, NEW m, m \in Nat, \A i \in 1 .. a : v[m + a + 1 - i] = sc
      PROVE  Threads(Positions(v, sc), u \o <<e>>, m + a, m)
  <2>1. Threads(Positions(v, sc), u, m + a, m)
    BY <1>3 DEF Suits
  <2>2. m + a \in Nat
    BY <1>3
  <2> QED  BY <1>1, <1>3, <2>1, <2>2, ThreadWith
<1> QED  BY <1>2, <1>3 DEF Suits

LEMMA SuitOne ==
    ASSUME NEW sc
    PROVE  Suits(<<Expr>>, sc, 1)
<1>1. <<Expr>> \in Seq(Tasks)
  BY ExprTask
<1>2. ASSUME NEW v, NEW m, m \in Nat, \A i \in 1 .. 1 : v[m + 1 + 1 - i] = sc
      PROVE  Threads(Positions(v, sc), <<Expr>>, m + 1, m)
  <2>1. v[m + 1] = sc
    <3>1. m + 1 + 1 - 1 = m + 1 /\ 1 \in 1 .. 1
      BY <1>2
    <3> QED  BY <1>2, <3>1
  <2>2. m + 1 \in Nat
    BY <1>2
  <2>3. <<Expr, m + 1, m>> \in Positions(v, sc)
    BY <1>2, <2>1, <2>2, ExprTask, PositionsIn
  <2> QED  BY <1>2, <2>2, <2>3, ThreadOne
<1> QED  BY <1>1, <1>2 DEF Suits

LEMMA SuitReturn ==
    ASSUME NEW sc, NEW e \in Tasks, ~ Waits(e)
    PROVE  Suits(<<Expr, e>>, sc, 1)
<1>1. <<Expr, e>> \in Seq(Tasks)
  BY ExprTask
<1>2. ASSUME NEW v, NEW m, m \in Nat, \A i \in 1 .. 1 : v[m + 1 + 1 - i] = sc
      PROVE  Threads(Positions(v, sc), <<Expr, e>>, m + 1, m)
  <2>1. v[m + 1] = sc
    <3>1. m + 1 + 1 - 1 = m + 1 /\ 1 \in 1 .. 1
      BY <1>2
    <3> QED  BY <1>2, <3>1
  <2>2. m + 1 \in Nat
    BY <1>2
  <2>3. <<Expr, m + 1, m>> \in Positions(v, sc)
    BY <1>2, <2>1, <2>2, ExprTask, PositionsIn
  <2>4. <<e, m, m>> \in Positions(v, sc)
    BY <1>2, PositionsIn
  <2> QED  BY <1>2, <2>2, <2>3, <2>4, ThreadTwo
<1> QED  BY <1>1, <1>2 DEF Suits

-----------------------------------------------------------------------------
(* The stack after each kind of step stands where the walk has come to.    *)
Visits(st, p) ==
    /\ p \in Nat /\ p < Len(script) /\ Standing(st, Walk[p])
    /\ st[Len(st)].todo # <<>> /\ st[Len(st)].todo[1] = Expr

LEMMA VisitsHere ==
    ASSUME script \in Seq(Nodes), NEW st \in Stacks, NEW p, Visits(st, p)
    PROVE  p + 1 \in 1 .. Len(script) /\ Reached(p + 1)
           /\ ScopeAt(p + 1) = ScopeOf(st, Len(st))
BY VisitStands DEF Visits

LEMMA VisitUniform ==
    ASSUME script \in Seq(Nodes), NEW st \in Stacks, NEW p, Visits(st, p),
           script[p + 1].op \notin {"let", "fun"},
           NEW u, Suits(u, ScopeOf(st, Len(st)), Arity(script[p + 1]))
    PROVE  Standing(Instead(st, u), Walk[p + 1])
<1> DEFINE n == Len(st)  sc == ScopeOf(st, n)  q == p + 1
           v == Walk[q]  a == Arity(script[q])
<1>1. /\ q \in 1 .. Len(script) /\ a \in Nat
      /\ \E b, m : /\ m \in Nat /\ Below(st, v, m, b)
                   /\ IsSeq(v) /\ Len(v) = m + a
                   /\ \A i \in 1 .. a : v[m + a + 1 - i] = Subscopes(sc, q)[i]
  BY VisitStands DEF Visits
<1>2. PICK b, m : /\ m \in Nat /\ Below(st, v, m, b)
                  /\ IsSeq(v) /\ Len(v) = m + a
                  /\ \A i \in 1 .. a : v[m + a + 1 - i] = Subscopes(sc, q)[i]
  BY <1>1
<1>3. sc \in Scopes /\ script[q].op \notin {"let", "fun"}
  BY TopType
<1>4. \A i \in 1 .. a : Subscopes(sc, q)[i] = sc
  BY <1>1, <1>3, SubscopesType
<1> HIDE DEF v, a, sc, q
<1>5. \A i \in 1 .. a : v[m + a + 1 - i] = sc
  BY <1>2, <1>4
<1>6. Threads(Positions(v, sc), u, m + a, m) /\ u \in Seq(Tasks)
  <2>1. Suits(u, sc, a)
    BY DEF sc, a, q
  <2> QED  BY <1>2, <1>5, <2>1 DEF Suits
<1>7. Threads(At(v, st, n), u, Len(v), m)
  BY <1>2, <1>6 DEF At, sc
<1>8. m <= Len(v)
  BY <1>1, <1>2
<1>9. st[Len(st)].todo # <<>>
  BY DEF Visits
<1>10. Standing(Instead(st, u), v)
  BY <1>2, <1>6, <1>7, <1>8, <1>9, AboveInstead
<1> QED  BY <1>10 DEF v, q

LEMMA VisitLet ==
    ASSUME script \in Seq(Nodes), NEW st \in Stacks, NEW p, Visits(st, p),
           script[p + 1].op = "let",
           NEW e \in Tasks, e.do \in {"in", "bind"}, e.node = p + 1
    PROVE  Standing(Instead(st, <<Expr, e>>), Walk[p + 1])
<1> DEFINE n == Len(st)  sc == ScopeOf(st, n)  q == p + 1
           v == Walk[q]  a == Arity(script[q])  u == <<Expr, e>>
<1>1. /\ q \in 1 .. Len(script) /\ a \in Nat
      /\ \E b, m : /\ m \in Nat /\ Below(st, v, m, b)
                   /\ IsSeq(v) /\ Len(v) = m + a
                   /\ \A i \in 1 .. a : v[m + a + 1 - i] = Subscopes(sc, q)[i]
  BY VisitStands DEF Visits
<1>2. PICK b, m : /\ m \in Nat /\ Below(st, v, m, b)
                  /\ IsSeq(v) /\ Len(v) = m + a
                  /\ \A i \in 1 .. a : v[m + a + 1 - i] = Subscopes(sc, q)[i]
  BY <1>1
<1>3. a = 2
  BY DEF Arity
<1>4. Subscopes(sc, q)[1] = sc /\ Subscopes(sc, q)[2] = LetScope(sc, q)
  <2>1. Subscopes(sc, q) = <<sc, LetScope(sc, q)>>
    BY DEF Subscopes
  <2> HIDE DEF sc, q
  <2> QED  BY <2>1
<1>5. u \in Seq(Tasks)
  BY ExprTask
<1> HIDE DEF v, a, sc, q
<1>6. v[m + 2] = sc /\ v[m + 1] = LetScope(sc, q)
  <2>1. m + 2 + 1 - 1 = m + 2 /\ m + 2 + 1 - 2 = m + 1 /\ 1 \in 1 .. 2 /\ 2 \in 1 .. 2
    BY <1>2
  <2> QED  BY <1>2, <1>3, <1>4, <2>1
<1>7. Waits(e) /\ Awaited(sc, e) = LetScope(sc, q)
  BY DEF Waits, Awaited, q
<1>8. Threads(Positions(v, sc), u, m + 2, m)
  <2>1. m \in Nat /\ m + 1 \in Nat /\ m + 2 \in Nat /\ m + 2 = (m + 1) + 1
    BY <1>2
  <2>2. <<Expr, m + 2, m + 1>> \in Positions(v, sc)
    BY <1>6, <2>1, ExprTask, PositionsIn
  <2>3. <<e, m + 1, m>> \in Positions(v, sc)
    BY <1>6, <1>7, <2>1, PositionsIn
  <2> QED  BY <2>1, <2>2, <2>3, ThreadTwo
<1> HIDE DEF u
<1>9. Threads(At(v, st, n), u, Len(v), m)
  BY <1>2, <1>3, <1>8 DEF At, sc
<1>10. m <= Len(v)
  BY <1>2, <1>3
<1>11. st[Len(st)].todo # <<>>
  BY DEF Visits
<1>12. Standing(Instead(st, u), v)
  BY <1>2, <1>5, <1>9, <1>10, <1>11, AboveInstead
<1> QED  BY <1>12 DEF v, q, u

LEMMA VisitFunction ==
    ASSUME script \in Seq(Nodes), NEW st \in Stacks, NEW p, Visits(st, p),
           script[p + 1].op = "fun",
           NEW e \in Tasks, e.do \in {"body", "define"}, e.node = p + 1
    PROVE  Standing(OpenNamed(st, p + 1, <<e, Expr>>), Walk[p + 1])
<1> DEFINE n == Len(st)  sc == ScopeOf(st, n)  q == p + 1
           v == Walk[q]  a == Arity(script[q])  u == <<e, Expr>>
           ns == NamedScope(sc, q)  r == OpenNamed(st, q, u)
<1>1. /\ q \in 1 .. Len(script) /\ a \in Nat
      /\ \E b, m : /\ m \in Nat /\ Below(st, v, m, b)
                   /\ IsSeq(v) /\ Len(v) = m + a
                   /\ \A i \in 1 .. a : v[m + a + 1 - i] = Subscopes(sc, q)[i]
  BY VisitStands DEF Visits
<1>2. PICK b, m : /\ m \in Nat /\ Below(st, v, m, b)
                  /\ IsSeq(v) /\ Len(v) = m + a
                  /\ \A i \in 1 .. a : v[m + a + 1 - i] = Subscopes(sc, q)[i]
  BY <1>1
<1>3. a = 2
  BY DEF Arity
<1>4. Subscopes(sc, q)[1] = BodyScope(ns, q) /\ Subscopes(sc, q)[2] = ns
  <2>1. Subscopes(sc, q) = <<BodyScope(ns, q), ns>>
    BY DEF Subscopes
  <2> HIDE DEF sc, q, ns
  <2> QED  BY <2>1
<1>5. u \in Seq(Tasks)
  BY ExprTask
<1>6. st[Len(st)].todo # <<>>
  BY DEF Visits
<1> HIDE DEF v, a, q, u, r
<1>7. PICK fr : /\ Opens(st, r, fr) /\ fr.todo = u
                /\ ScopeOf(r, n + 1) = ns
  <2>1. script[q].op = "fun"
    BY DEF q
  <2> QED  BY <1>1, <1>5, <1>6, <2>1, NamedOpened DEF r
<1> HIDE DEF ns
<1>8. v[m + 2] = BodyScope(ns, q) /\ v[m + 1] = ns
  <2>1. m + 2 + 1 - 1 = m + 2 /\ m + 2 + 1 - 2 = m + 1 /\ 1 \in 1 .. 2 /\ 2 \in 1 .. 2
    BY <1>2
  <2> QED  BY <1>2, <1>3, <1>4, <2>1
<1>9. Waits(e) /\ Awaited(ns, e) = BodyScope(ns, q)
  BY DEF Waits, Awaited, q
<1>10. Threads(Positions(v, ns), u, m + 2, m)
  <2>1. m \in Nat /\ m + 1 \in Nat /\ m + 2 \in Nat /\ m + 2 = (m + 1) + 1
    BY <1>2
  <2>2. <<e, m + 2, m + 1>> \in Positions(v, ns)
    BY <1>8, <1>9, <2>1, PositionsIn
  <2>3. <<Expr, m + 1, m>> \in Positions(v, ns)
    BY <1>8, <2>1, ExprTask, PositionsIn
  <2> QED  BY <2>1, <2>2, <2>3, ThreadTwo DEF u
<1>11. Threads(Positions(v, ScopeOf(r, Len(st) + 1)), fr.todo, Len(v), m)
  BY <1>2, <1>3, <1>7, <1>10
<1>12. m <= Len(v)
  BY <1>2, <1>3
<1>13. fr \in AnyFrames /\ r = Append(Instead(st, <<>>), fr)
  BY <1>7 DEF Opens
<1>14. Standing(r, v)
  BY <1>2, <1>6, <1>11, <1>12, <1>13, AbovePush
<1> QED  BY <1>14 DEF v, q, u, r

(* Items that have been worked off.                                        *)
Works(st, p) ==
    /\ p \in 0 .. Len(script) /\ Standing(st, Walk[p]) /\ st[Len(st)].todo # <<>>

LEMMA WorkDone ==
    ASSUME script \in Seq(Nodes), NEW st \in Stacks, NEW p, Works(st, p),
           ~ Waits(st[Len(st)].todo[1])
    PROVE  Standing(Instead(st, <<>>), Walk[p])
<1> DEFINE n == Len(st)  w == Walk[p]  e == st[n].todo[1]
<1>1. PICK b, m : /\ IsSeq(w) /\ m \in Nat /\ Len(w) \in Nat /\ m <= Len(w)
                  /\ Below(st, w, m, b) /\ Len(w) = m
  BY WorkStands DEF Works
<1> HIDE DEF w
<1>2. <<>> \in Seq(Tasks) /\ st[Len(st)].todo # <<>>
  BY DEF Works
<1>3. Threads(At(w, st, n), <<>>, Len(w), m)
  BY <1>1, ThreadNothing
<1>4. Standing(Instead(st, <<>>), w)
  BY <1>1, <1>2, <1>3, AboveInstead
<1> QED  BY <1>4 DEF w

LEMMA EnterLetStands ==
    ASSUME script \in Seq(Nodes), NEW st \in Stacks, NEW p, Works(st, p),
           NEW e, e = st[Len(st)].todo[1], e.do \in {"in", "bind"},
           e.node \in 1 .. Len(script), script[e.node].op = "let",
           NEW u, Suits(u, LetScope(ScopeOf(st, Len(st)), e.node), 1)
    PROVE  Standing(OpenLet(st, e.node, u), Walk[p])
<1> DEFINE n == Len(st)  w == Walk[p]  ls == LetScope(ScopeOf(st, n), e.node)
           r == OpenLet(st, e.node, u)
<1>1. Waits(e) /\ Awaited(ScopeOf(st, n), e) = ls
  BY DEF Waits, Awaited
<1>2. PICK b, m : /\ IsSeq(w) /\ m \in Nat /\ Len(w) \in Nat /\ m <= Len(w)
                  /\ Below(st, w, m, b) /\ Len(w) = m + 1 /\ w[Len(w)] = ls
  BY <1>1, WorkStands DEF Works
<1>3. u \in Seq(Tasks) /\ st[Len(st)].todo # <<>>
  BY DEF Suits, Works
<1> HIDE DEF w, r
<1>4. PICK fr : Opens(st, r, fr) /\ fr.todo = u /\ ScopeOf(r, n + 1) = ls
  BY <1>3, LetOpened DEF r
<1>5. Threads(Positions(w, ls), u, m + 1, m)
  <2>1. \A i \in 1 .. 1 : w[m + 1 + 1 - i] = ls
    BY <1>2
  <2>2. Suits(u, ls, 1)
    OBVIOUS
  <2> HIDE DEF ls
  <2> QED  BY <1>2, <2>1, <2>2 DEF Suits
<1> HIDE DEF ls
<1>6. Threads(Positions(w, ScopeOf(r, Len(st) + 1)), fr.todo, Len(w), m)
  BY <1>2, <1>4, <1>5
<1>7. fr \in AnyFrames /\ r = Append(Instead(st, <<>>), fr)
  BY <1>4 DEF Opens
<1>8. Standing(r, w)
  BY <1>2, <1>3, <1>6, <1>7, AbovePush
<1> QED  BY <1>8 DEF w, r

LEMMA EnterBodyStands ==
    ASSUME script \in Seq(Nodes), NEW st \in Stacks, NEW p, Works(st, p),
           NEW e, e = st[Len(st)].todo[1], e.do \in {"body", "define"},
           e.node \in 1 .. Len(script), script[e.node].op = "fun",
           NEW u, Suits(u, BodyScope(ScopeOf(st, Len(st)), e.node), 1)
    PROVE  Standing(OpenBody(st, e.node, u), Walk[p])
<1> DEFINE n == Len(st)  w == Walk[p]  ls == BodyScope(ScopeOf(st, n), e.node)
           r == OpenBody(st, e.node, u)
<1>1. Waits(e) /\ Awaited(ScopeOf(st, n), e) = ls
  BY DEF Waits, Awaited
<1>2. PICK b, m : /\ IsSeq(w) /\ m \in Nat /\ Len(w) \in Nat /\ m <= Len(w)
                  /\ Below(st, w, m, b) /\ Len(w) = m + 1 /\ w[Len(w)] = ls
  BY <1>1, WorkStands DEF Works
<1>3. u \in Seq(Tasks) /\ st[Len(st)].todo # <<>>
  BY DEF Suits, Works
<1> HIDE DEF w, r
<1>4. PICK fr : Opens(st, r, fr) /\ fr.todo = u /\ ScopeOf(r, n + 1) = ls
  BY <1>3, BodyOpened DEF r
<1>5. Threads(Positions(w, ls), u, m + 1, m)
  <2>1. \A i \in 1 .. 1 : w[m + 1 + 1 - i] = ls
    BY <1>2
  <2>2. Suits(u, ls, 1)
    OBVIOUS
  <2> HIDE DEF ls
  <2> QED  BY <1>2, <2>1, <2>2 DEF Suits
<1> HIDE DEF ls
<1>6. Threads(Positions(w, ScopeOf(r, Len(st) + 1)), fr.todo, Len(w), m)
  BY <1>2, <1>4, <1>5
<1>7. fr \in AnyFrames /\ r = Append(Instead(st, <<>>), fr)
  BY <1>4 DEF Opens
<1>8. Standing(r, w)
  BY <1>2, <1>3, <1>6, <1>7, AbovePush
<1> QED  BY <1>8 DEF w, r

-----------------------------------------------------------------------------
(* Items stay at home.                                                     *)
LEMMA HomeOf ==
    ASSUME NEW st, HomeStack(st), NEW sc, NEW e, InWork(st, sc, e)
    PROVE  AtHome(sc, e)
BY DEF HomeStack, InWork

LEMMA HomeFrom ==
    ASSUME NEW st, \A sc, e : InWork(st, sc, e) => AtHome(sc, e)
    PROVE  HomeStack(st)
<1> SUFFICES ASSUME NEW i \in 1 .. Len(st), NEW j \in 1 .. Len(st[i].todo)
             PROVE  AtHome(ScopeOf(st, i), st[i].todo[j])
  BY DEF HomeStack
<1>1. InWork(st, ScopeOf(st, i), st[i].todo[j])
  BY DEF InWork
<1> QED  BY <1>1

LEMMA HomeFirst ==
    ASSUME NEW st \in Stacks, HomeStack(st), st[Len(st)].todo # <<>>
    PROVE  AtHome(ScopeOf(st, Len(st)), st[Len(st)].todo[1])
BY WorkFirst, HomeOf

LEMMA HomeInstead ==
    ASSUME NEW st \in Stacks, HomeStack(st), st[Len(st)].todo # <<>>,
           NEW u \in Seq(Tasks),
           \A k \in 1 .. Len(u) : AtHome(ScopeOf(st, Len(st)), u[k])
    PROVE  HomeStack(Instead(st, u))
<1>1. ASSUME NEW sc, NEW e, InWork(Instead(st, u), sc, e) PROVE AtHome(sc, e)
  <2>1. \/ InWork(st, sc, e)
        \/ sc = ScopeOf(st, Len(st)) /\ \E k \in 1 .. Len(u) : e = u[k]
    BY <1>1, WorkInstead
  <2> QED  BY <2>1, HomeOf
<1> QED  BY <1>1, HomeFrom

LEMMA HomeOpen ==
    ASSUME NEW st \in Stacks, HomeStack(st), st[Len(st)].todo # <<>>,
           NEW r, NEW fr, Opens(st, r, fr),
           \A k \in 1 .. Len(fr.todo) : AtHome(ScopeOf(r, Len(st) + 1), fr.todo[k])
    PROVE  HomeStack(r)
<1>1. <<>> \in Seq(Tasks)
  OBVIOUS
<1>2. HomeStack(Instead(st, <<>>))
  <2>1. \A k \in 1 .. Len(<<>>) : AtHome(ScopeOf(st, Len(st)), <<>>[k])
    OBVIOUS
  <2> QED  BY <1>1, <2>1, HomeInstead
<1>3. PICK q : q = Instead(st, <<>>)
  OBVIOUS
<1>4. q \in Stacks /\ fr \in AnyFrames /\ r = Append(q, fr) /\ Len(q) = Len(st)
  BY <1>3 DEF Opens
<1>5. ASSUME NEW sc, NEW e, InWork(r, sc, e) PROVE AtHome(sc, e)
  <2>1. InWork(q, sc, e) \/ (sc = ScopeOf(r, Len(q) + 1) /\ ItemOf(fr, e))
    <3>1. Pushes(q, fr, r)
      BY <1>4 DEF Pushes
    <3> QED  BY <1>5, <3>1, WorkPush
  <2>2. HomeStack(q)
    BY <1>2, <1>3
  <2> QED  BY <1>4, <2>1, <2>2, HomeOf DEF ItemOf
<1> QED  BY <1>5, HomeFrom

LEMMA HomePop ==
    ASSUME NEW st \in Stacks, Len(st) > 1, HomeStack(st)
    PROVE  HomeStack(SubSeq(st, 1, Len(st) - 1))
<1>1. PICK q : q = SubSeq(st, 1, Len(st) - 1)
  OBVIOUS
<1>2. ASSUME NEW sc, NEW e, InWork(q, sc, e) PROVE AtHome(sc, e)
  <2>1. InWork(st, sc, e)
    BY <1>1, <1>2, WorkPop
  <2> QED  BY <2>1, HomeOf
<1>3. HomeStack(q)
  BY <1>2, HomeFrom
<1> QED  BY <1>1, <1>3

LEMMA ExprAtHome == \A sc : AtHome(sc, Expr)
BY DEF AtHome, Expr

LEMMA HomeFixed ==
    ASSUME script' = script, script \in Seq(Nodes)
    PROVE  \A st : HomeStack(st)' <=> HomeStack(st)
<1>1. \A st, i : ScopeOf(st, i)' = ScopeOf(st, i)
  BY DEF ScopeOf, Seen
<1>2. \A st, i, e : AtHome(ScopeOf(st, i), e)' <=> AtHome(ScopeOf(st, i), e)
  BY <1>1, PositionsFixed
<1> SUFFICES ASSUME NEW st PROVE HomeStack(st)' <=> HomeStack(st)
  OBVIOUS
<1>3. HomeStack(st)' <=>
         \A i \in 1 .. Len(st) : \A j \in 1 .. Len(st[i].todo) :
            AtHome(ScopeOf(st, i), st[i].todo[j])'
  BY DEF HomeStack
<1> QED  BY <1>2, <1>3 DEF HomeStack

(* A visited stack, in parts that fit the actions of either pass.          *)
LEMMA VisitedUniform ==
    ASSUME script \in Seq(Nodes), NEW st \in Stacks, NEW p, Visits(st, p),
           HomeStack(st), script[p + 1].op \notin {"let", "fun"},
           NEW u, Suits(u, ScopeOf(st, Len(st)), Arity(script[p + 1])),
           \A k \in 1 .. Len(u) : AtHome(ScopeOf(st, Len(st)), u[k])
    PROVE  StandsHome(Instead(st, u), p + 1)
<1>1. Standing(Instead(st, u), Walk[p + 1])
  BY VisitUniform
<1>2. u \in Seq(Tasks) /\ st[Len(st)].todo # <<>>
  BY DEF Suits, Visits
<1>3. HomeStack(Instead(st, u))
  BY <1>2, HomeInstead
<1> QED  BY <1>1, <1>3 DEF StandsHome

LEMMA VisitedLet ==
    ASSUME script \in Seq(Nodes), NEW st \in Stacks, NEW p, Visits(st, p),
           HomeStack(st), script[p + 1].op = "let",
           NEW e \in Tasks, e.do \in {"in", "bind"}, e.node = p + 1
    PROVE  StandsHome(Instead(st, <<Expr, e>>), p + 1)
<1> DEFINE sc == ScopeOf(st, Len(st))
<1>1. Standing(Instead(st, <<Expr, e>>), Walk[p + 1])
  BY VisitLet
<1>2. st[Len(st)].todo # <<>>
  BY DEF Visits
<1>3. <<Expr, e>> \in Seq(Tasks)
  BY ExprTask
<1>4. AtHome(sc, e)
  <2>1. p + 1 \in 1 .. Len(script) /\ Reached(p + 1) /\ ScopeAt(p + 1) = sc
    BY VisitsHere
  <2> QED  BY <2>1 DEF AtHome
<1>5. \A k \in 1 .. Len(<<Expr, e>>) : AtHome(sc, <<Expr, e>>[k])
  BY <1>4, ExprAtHome, PairSeq
<1>6. HomeStack(Instead(st, <<Expr, e>>))
  BY <1>2, <1>3, <1>5, HomeInstead
<1> QED  BY <1>1, <1>6 DEF StandsHome

LEMMA VisitedFunction ==
    ASSUME script \in Seq(Nodes), NEW st \in Stacks, NEW p, Visits(st, p),
           HomeStack(st), script[p + 1].op = "fun",
           NEW e \in Tasks, e.do \in {"body", "define"}, e.node = p + 1
    PROVE  StandsHome(OpenNamed(st, p + 1, <<e, Expr>>), p + 1)
<1> DEFINE sc == ScopeOf(st, Len(st))  q == p + 1  u == <<e, Expr>>
           r == OpenNamed(st, q, u)
<1>1. Standing(r, Walk[q])
  BY VisitFunction
<1>2. st[Len(st)].todo # <<>>
  BY DEF Visits
<1>3. u \in Seq(Tasks)
  BY ExprTask
<1>4. q \in 1 .. Len(script) /\ Reached(q) /\ ScopeAt(q) = sc
  BY VisitsHere
<1> HIDE DEF r, u
<1>5. PICK fr : Opens(st, r, fr) /\ fr.todo = u
                /\ ScopeOf(r, Len(st) + 1) = NamedScope(sc, q)
  BY <1>2, <1>3, <1>4, NamedOpened DEF r
<1>6. AtHome(NamedScope(sc, q), e)
  BY <1>4 DEF AtHome
<1>7. \A k \in 1 .. Len(u) : AtHome(NamedScope(sc, q), u[k])
  BY <1>6, ExprAtHome, PairSeq DEF u
<1>8. HomeStack(r)
  BY <1>2, <1>5, <1>7, HomeOpen
<1> QED  BY <1>1, <1>8 DEF StandsHome, r, u

LEMMA WorkedOff ==
    ASSUME script \in Seq(Nodes), NEW st \in Stacks, NEW p, Works(st, p),
           HomeStack(st), ~ Waits(st[Len(st)].todo[1])
    PROVE  StandsHome(Instead(st, <<>>), p)
<1>1. Standing(Instead(st, <<>>), Walk[p])
  BY WorkDone
<1>2. <<>> \in Seq(Tasks) /\ st[Len(st)].todo # <<>>
      /\ \A k \in 1 .. Len(<<>>) : AtHome(ScopeOf(st, Len(st)), <<>>[k])
  BY DEF Works
<1>3. HomeStack(Instead(st, <<>>))
  BY <1>2, HomeInstead
<1> QED  BY <1>1, <1>3 DEF StandsHome

LEMMA EnteredLet ==
    ASSUME script \in Seq(Nodes), NEW st \in Stacks, NEW p, Works(st, p),
           HomeStack(st), NEW e, e = st[Len(st)].todo[1], e.do \in {"in", "bind"},
           e.node \in 1 .. Len(script), script[e.node].op = "let"
    PROVE  StandsHome(OpenLet(st, e.node, <<Expr>>), p)
<1> DEFINE sc == LetScope(ScopeOf(st, Len(st)), e.node)  u == <<Expr>>
           r == OpenLet(st, e.node, u)
<1>1. Suits(u, sc, 1)
  BY SuitOne
<1>2. Standing(r, Walk[p])
  BY <1>1, EnterLetStands
<1>3. u \in Seq(Tasks) /\ st[Len(st)].todo # <<>>
  BY ExprTask DEF Works
<1> HIDE DEF r, u
<1>4. PICK fr : Opens(st, r, fr) /\ fr.todo = u
  BY <1>3, LetOpened DEF r
<1>5. \A s : \A k \in 1 .. Len(u) : AtHome(s, u[k])
  BY ExprAtHome, SingletonSeq DEF u
<1>6. HomeStack(r)
  BY <1>3, <1>4, <1>5, HomeOpen
<1> QED  BY <1>2, <1>6 DEF StandsHome, r, u

LEMMA EnteredBody ==
    ASSUME script \in Seq(Nodes), NEW st \in Stacks, NEW p, Works(st, p),
           HomeStack(st), NEW e, e = st[Len(st)].todo[1],
           e.do \in {"body", "define"},
           e.node \in 1 .. Len(script), script[e.node].op = "fun",
           NEW u, Suits(u, BodyScope(ScopeOf(st, Len(st)), e.node), 1),
           \A k \in 1 .. Len(u) :
              AtHome(BodyScope(ScopeOf(st, Len(st)), e.node), u[k])
    PROVE  StandsHome(OpenBody(st, e.node, u), p)
<1> DEFINE sc == BodyScope(ScopeOf(st, Len(st)), e.node)
           r == OpenBody(st, e.node, u)
<1>1. Standing(r, Walk[p])
  BY EnterBodyStands
<1>2. u \in Seq(Tasks) /\ st[Len(st)].todo # <<>>
  BY DEF Works, Suits
<1> HIDE DEF r
<1>3. PICK fr : Opens(st, r, fr) /\ fr.todo = u /\ ScopeOf(r, Len(st) + 1) = sc
  BY <1>2, BodyOpened DEF r
<1> HIDE DEF sc
<1>4. \A k \in 1 .. Len(fr.todo) : AtHome(ScopeOf(r, Len(st) + 1), fr.todo[k])
  BY <1>3 DEF sc
<1>5. HomeStack(r)
  BY <1>2, <1>3, <1>4, HomeOpen
<1> QED  BY <1>1, <1>5 DEF StandsHome, r

LEMMA PoppedFrame ==
    ASSUME NEW st \in Stacks, Len(st) > 1, st[Len(st)].todo = <<>>, NEW p,
           StandsHome(st, p)
    PROVE  StandsHome(SubSeq(st, 1, Len(st) - 1), p)
BY StandingPop, HomePop DEF StandsHome

-----------------------------------------------------------------------------
(* The first pass, in terms of the walk.                                   *)
LEMMA ItemsTasks == Items \subseteq Tasks /\ Seq(Items) \subseteq Seq(Tasks)
<1>1. Items \subseteq Tasks
  BY DEF Items, Tasks, Doings
<1> QED  BY <1>1

LEMMA SubsetSeq ==
    ASSUME NEW A, NEW B, A \subseteq B
    PROVE  Seq(A) \subseteq Seq(B)
OBVIOUS

LEMMA StackOfPass ==
    ASSUME TypeOK
    PROVE  stack \in Stacks
<1>1. stack \in Seq(Frames) /\ stack # <<>> /\ \A i \in DOMAIN stack : stack[i].chain # <<>>
  BY DEF TypeOK
<1>2. Funs \subseteq Nat
  BY TopFrameType
<1>3. Seq(Funs) \subseteq Seq(Nat)
  BY <1>2, SubsetSeq
<1>4. ASSUME NEW i \in 1 .. Len(stack) PROVE stack[i] \in AnyFrames
  <2>1. stack[i] \in Frames /\ stack[i].chain # <<>>
    BY <1>1
  <2> QED  BY <1>3, <2>1, ItemsTasks DEF Frames, AnyFrames
<1>5. stack = [i \in 1 .. Len(stack) |-> stack[i]] /\ Len(stack) \in Nat
  BY <1>1
<1>6. stack \in Seq(AnyFrames)
  BY <1>4, <1>5
<1> QED  BY <1>1, <1>6 DEF Stacks

LEMMA TopOfPass ==
    /\ stack[Len(stack)] = TopFrame /\ stack[Len(stack)].todo = Todo
    /\ stack[Len(stack)].table = Table /\ FunctionOn(stack[Len(stack)]) = GetFunction
    /\ \A w : Rest(w) = Instead(stack, w)
BY DEF TopFrame, Todo, Table, FunctionOn, GetFunction, Rest, Instead

LEMMA FirstTodo ==
    ASSUME TypeOK, Todo # <<>>
    PROVE  Head(Todo) = Todo[1]
<1>1. Todo \in Seq(Items)
  BY TopFrameType
<1> QED  BY <1>1

LEMMA InStepParts ==
    ASSUME Inductive, InStep
    PROVE  /\ TypeOK /\ script \in Seq(Nodes) /\ pos \in 0 .. Len(script)
           /\ pos \in Nat /\ Len(script) \in Nat
           /\ stack \in Stacks /\ Standing(stack, Walk[pos]) /\ HomeStack(stack)
           /\ Recorded /\ ClimbScoped
<1>1. TypeOK
  BY DEF Inductive
<1>2. script \in Seq(Nodes) /\ pos \in 0 .. Len(script)
  BY <1>1 DEF TypeOK
<1>3. Len(script) \in Nat /\ pos \in Nat
  BY <1>2, LenProperties
<1> QED  BY <1>1, <1>2, <1>3, StackOfPass DEF InStep

LEMMA VisitingPass ==
    ASSUME Inductive, InStep, NEW ops, Visiting(ops)
    PROVE  /\ Visits(stack, pos) /\ HomeStack(stack) /\ Todo # <<>>
           /\ Here = pos + 1 /\ Here \in 1 .. Len(script) /\ pos' = Here
           /\ script[Here] \in Nodes /\ script[Here].op \in ops
           /\ Reached(Here) /\ ScopeAt(Here) = ScopeOf(stack, Len(stack))
           /\ climb = <<>> /\ status = "resolving"
<1>1. /\ TypeOK /\ Here \in 1 .. Len(script) /\ Here = pos + 1
      /\ pos \in Nat /\ pos' = Here
      /\ script[Here] \in Nodes /\ script[Here].op \in ops
      /\ Todo # <<>> /\ climb = <<>> /\ status = "resolving"
  BY Visited
<1>2. Todo[1] = Expr /\ pos < Len(script)
  BY <1>1, FirstTodo DEF Visiting
<1>3. stack[Len(stack)].todo = Todo
  BY TopOfPass
<1>4. Visits(stack, pos)
  BY <1>1, <1>2, <1>3, InStepParts DEF Visits
<1>5. Reached(pos + 1) /\ ScopeAt(pos + 1) = ScopeOf(stack, Len(stack))
  BY <1>4, InStepParts, VisitsHere
<1> QED  BY <1>1, <1>4, <1>5, InStepParts

LEMMA WorkingPass ==
    ASSUME Inductive, InStep, NEW what, Working(what)
    PROVE  /\ Works(stack, pos) /\ HomeStack(stack) /\ Todo # <<>>
           /\ pos' = pos /\ Head(Todo) = stack[Len(stack)].todo[1]
           /\ Head(Todo).do = what /\ Head(Todo) \in Tasks
           /\ ItemOK(TopFrame.chain, Head(Todo))
           /\ AtHome(ScopeOf(stack, Len(stack)), Head(Todo))
           /\ climb = <<>> /\ status = "resolving"
<1>1. /\ TypeOK /\ pos \in 0 .. Len(script) /\ pos' = pos
      /\ Todo # <<>> /\ climb = <<>> /\ status = "resolving"
      /\ Head(Todo).do = what /\ Head(Todo) \in Items
      /\ ItemOK(TopFrame.chain, Head(Todo))
  BY Worked
<1>2. stack[Len(stack)].todo = Todo /\ Head(Todo) = Todo[1]
  BY <1>1, TopOfPass, FirstTodo
<1>3. Works(stack, pos)
  BY <1>1, <1>2, InStepParts DEF Works
<1>4. AtHome(ScopeOf(stack, Len(stack)), stack[Len(stack)].todo[1])
  BY <1>1, <1>2, InStepParts, HomeFirst
<1> QED  BY <1>1, <1>2, <1>3, <1>4, InStepParts, ItemsTasks

(* What can be seen has been declared.                                     *)
LEMMA SeenDeclared ==
    ASSUME Inductive, NEW v, v \in Seen(stack, Len(stack))
    PROVE  v.kind = "var" /\ v \in Symbols /\ v.fn \in Funs /\ v \in locals[v.fn]
<1>1. TypeOK
  BY DEF Inductive
<1>2. PICK i \in 1 .. Len(stack) : \E x \in Names : v = stack[i].table[x]
  BY DEF Seen
<1>3. PICK x \in Names : v = stack[i].table[x]
  BY <1>2
<1>4. v.kind = "var"
  BY DEF Seen
<1>5. i \in DOMAIN stack /\ stack[i] \in Frames
  BY <1>1, TopFrameType, ElementOfSeq DEF TypeOK
<1>6. VisibleFrom(stack[i].chain, v)
  BY <1>3, <1>5 DEF Inductive, FrameOK
<1>7. v \in locals[v.fn] /\ \E n \in DOMAIN stack[i].chain : stack[i].chain[n] = v.fn
  BY <1>4, <1>6 DEF VisibleFrom, OnChain
<1>8. v.fn \in Funs
  <2>1. stack[i].chain \in Seq(Funs)
    BY <1>5 DEF Frames
  <2> QED  BY <1>7, <2>1
<1>9. v \in Symbols
  BY <1>3, <1>5 DEF Frames, Tables
<1> QED  BY <1>4, <1>7, <1>8, <1>9

-----------------------------------------------------------------------------
(* What has been recorded stays recorded.                                  *)
LEMMA RecordsLater ==
    ASSUME NEW sc, NEW n, NEW p, NEW l, NEW k, NEW r, NEW c, NEW d,
           Records(sc, n, p, l, r, c),
           \A v \in sc.seen : l[v.fn] \subseteq k[v.fn],
           l[Innermost(sc)] \subseteq k[Innermost(sc)], l[p] \subseteq k[p],
           c # <<>> => \/ d # <<>> /\ d[1] = c[1]
                       \/ c[1].var \in k[c[1].fn]
    PROVE  Records(sc, n, p, k, r, d)
<1>1. \A v \in sc.seen : v \in k[v.fn]
  BY DEF Records
<1>2. n.op = "call" => r = sc.table[n.name] /\ IsCallable(r)
  BY DEF Records
<1>3. n.op = "let" => Variable(Innermost(sc), p, n.name) \in k[Innermost(sc)]
  BY DEF Records
<1>4. n.op = "fun" => Arguments(p, n.params) \subseteq k[p]
  BY DEF Records
<1>5. n.op = "return" => Innermost(sc) = 0
  BY DEF Records
<1>6. ASSUME n.op = "var"
      PROVE  /\ r = sc.table[n.name] /\ IsValued(r)
             /\ r.kind = "var" =>
                   \/ r \in k[Innermost(sc)]
                   \/ d # <<>> /\ d[1] = [fn |-> Innermost(sc), var |-> r]
  <2>1. /\ r = sc.table[n.name] /\ IsValued(r)
        /\ r.kind = "var" =>
                   \/ r \in l[Innermost(sc)]
                   \/ c # <<>> /\ c[1] = [fn |-> Innermost(sc), var |-> r]
    BY <1>6 DEF Records
  <2>2. ASSUME c # <<>>, c[1] = [fn |-> Innermost(sc), var |-> r]
        PROVE  \/ r \in k[Innermost(sc)]
               \/ d # <<>> /\ d[1] = [fn |-> Innermost(sc), var |-> r]
    <3>1. c[1].var = r /\ c[1].fn = Innermost(sc)
      BY <2>2
    <3> QED  BY <2>2, <3>1
  <2> QED  BY <2>1, <2>2
<1> QED  BY <1>1, <1>2, <1>3, <1>4, <1>5, <1>6 DEF Records

LEMMA ScopeFuns ==
    ASSUME script \in Seq(Nodes), NEW p \in 1 .. Len(script), Reached(p)
    PROVE  /\ Innermost(ScopeAt(p)) \in Funs /\ Innermost(ScopeAt(p)) < p
           /\ \A v \in ScopeAt(p).seen : v \in Symbols /\ v.kind = "var" /\ v.fn \in Funs
           /\ p \in Funs
<1>1. ScopeAt(p) \in Scopes /\ ScopeOK(ScopeAt(p), p - 1)
  BY ScopeAtOK
<1> DEFINE c == ScopeAt(p).chain
<1>2. c \in Seq(Nat) /\ Len(c) \in 1 .. Len(c)
  BY <1>1, ScopeType
<1>3. \A n \in 1 .. Len(c) : c[n] \in 0 .. p - 1
  BY <1>1 DEF ScopeOK, ChainScoped
<1>4. p \in Nat /\ Len(script) \in Nat
  BY NodeAt
<1>5. Innermost(ScopeAt(p)) \in 0 .. p - 1
  BY <1>2, <1>3 DEF Innermost
<1>6. ASSUME NEW v \in ScopeAt(p).seen
      PROVE  v \in Symbols /\ v.kind = "var" /\ v.fn \in 0 .. p - 1
  BY <1>1, <1>3 DEF ScopeOK, SeenScoped
<1>7. 0 .. p - 1 \subseteq Funs
  BY <1>4 DEF Funs
<1> QED  BY <1>4, <1>5, <1>6, <1>7 DEF Funs

Grown ==
    /\ script' = script
    /\ \A f \in Funs : locals[f] \subseteq locals'[f]
    /\ \A p \in 1 .. pos : refs'[p] = refs[p]
    /\ climb # <<>> => \/ climb' # <<>> /\ climb'[1] = climb[1]
                       \/ climb[1].var \in locals'[climb[1].fn]

Added ==
    \A f \in Funs : \A v \in locals'[f] : v \in locals[f] \/ MayHold(f, v)

NewResolved ==
    \A q : q = pos' /\ q = pos + 1 =>
        q \in 1 .. Len(script) /\ Reached(q)
        /\ Records(ScopeAt(q), script[q], q, locals', refs'[q], climb')

LEMMA ResolvedFixed ==
    ASSUME script' = script, script \in Seq(Nodes)
    PROVE  /\ \A p : Resolved(p)' <=>
                Reached(p) /\ Records(ScopeAt(p), script[p], p, locals', refs'[p], climb')
           /\ \A f, v : MayHold(f, v)' <=> MayHold(f, v)
BY ReachedFixed DEF Resolved, Records, MayHold

LEMMA RecordedGrown ==
    ASSUME script \in Seq(Nodes), pos \in Nat, pos <= Len(script), Recorded, Grown, Added,
           pos' \in {pos, pos + 1}, NewResolved
    PROVE  Recorded'
<1>0. script' = script /\ Len(script) \in Nat
  BY LenProperties DEF Grown
<1>1. ASSUME NEW p \in 1 .. pos PROVE Resolved(p)'
  <2>1. p \in 1 .. Len(script)
    BY <1>0
  <2>2. Reached(p) /\ Records(ScopeAt(p), script[p], p, locals, refs[p], climb)
    BY DEF Recorded, Resolved
  <2>3. /\ Innermost(ScopeAt(p)) \in Funs
        /\ \A v \in ScopeAt(p).seen : v.fn \in Funs
        /\ p \in Funs
    BY <2>1, <2>2, ScopeFuns
  <2>4. Records(ScopeAt(p), script[p], p, locals', refs[p], climb')
    BY <2>2, <2>3, RecordsLater DEF Grown
  <2>5. refs'[p] = refs[p]
    BY DEF Grown
  <2> QED  BY <1>0, <2>2, <2>4, <2>5, ResolvedFixed
<1>2. ASSUME NEW p \in 1 .. pos' PROVE Resolved(p)'
  <2>1. p \in 1 .. pos \/ (p = pos' /\ p = pos + 1)
    OBVIOUS
  <2>2. ASSUME p = pos', p = pos + 1 PROVE Resolved(p)'
    BY <1>0, <2>2, ResolvedFixed DEF NewResolved
  <2> QED  BY <1>1, <2>1, <2>2
<1>3. LocalsScoped'
  <2>1. Funs' = Funs
    BY <1>0 DEF Funs
  <2>2. \A f \in Funs : \A v \in locals'[f] : MayHold(f, v)
    BY DEF Recorded, LocalsScoped, Added
  <2>3. \A f \in Funs : \A v \in locals'[f] : MayHold(f, v)'
    BY <1>0, <2>2, ResolvedFixed
  <2> QED  BY <2>1, <2>3 DEF LocalsScoped
<1>4. \A v \in Arguments(0, Inputs) : v \in locals'[0]
  <2>1. 0 \in Funs
    BY <1>0 DEF Funs
  <2> QED  BY <2>1 DEF Recorded, Grown
<1>5. (\A p \in 1 .. pos : Resolved(p))'
  BY <1>2
<1> QED  BY <1>3, <1>4, <1>5 DEF Recorded

(* What is to be shown of each step.                                       *)
LEMMA InStepFrom ==
    ASSUME Inductive, InStep, Grown, Added, pos' \in {pos, pos + 1}, NewResolved,
           NEW st, st = stack', NEW q, q = pos', StandsHome(st, q),
           ClimbScoped',
           (status = "resolved" => Len(stack) = 1 /\ Todo = <<>> /\ climb = <<>>)'
    PROVE  InStep'
<1>1. script \in Seq(Nodes) /\ script' = script /\ pos \in Nat /\ pos <= Len(script) /\ Recorded
  BY InStepParts DEF Grown
<1>2. Recorded'
  BY <1>1, RecordedGrown
<1>3. HomeStack(st)'
  BY <1>1, HomeFixed DEF StandsHome
<1>4. HomeStack(stack)'
  BY <1>3
<1>5. PICK w : w = Walk[q]
  OBVIOUS
<1>6. w = (Walk[pos])'
  BY <1>1, <1>5, WalkFixed
<1>7. Standing(st, w)'
  BY <1>1, <1>5, StandingFixed DEF StandsHome
<1>8. Standing(stack, Walk[pos])'
  BY <1>6, <1>7
<1> QED  BY <1>2, <1>4, <1>8 DEF InStep

-----------------------------------------------------------------------------
(* One lemma per action of the first pass.                                 *)
LEMMA NotResolved ==
    ASSUME status' # "resolved"
    PROVE  (status = "resolved" => Len(stack) = 1 /\ Todo = <<>> /\ climb = <<>>)'
OBVIOUS

LEMMA LocalsSame ==
    ASSUME UNCHANGED <<script, locals>>, climb = <<>>,
           \A p \in 1 .. pos : refs'[p] = refs[p]
    PROVE  Grown /\ Added
BY DEF Grown, Added

LEMMA NotImporting ==
    ASSUME climb' = <<>>
    PROVE  ClimbScoped'
BY DEF ClimbScoped

LEMMA HereResolved ==
    ASSUME Here = pos + 1, Here \in 1 .. Len(script), Reached(Here),
           Records(ScopeAt(Here), script[Here], Here, locals', refs'[Here], climb')
    PROVE  NewResolved
BY DEF NewResolved

LEMMA NothingNew ==
    ASSUME pos \in Nat, pos' = pos
    PROVE  NewResolved
BY DEF NewResolved

LEMMA SeenRecorded ==
    ASSUME Inductive, NEW q, ScopeAt(q) = ScopeOf(stack, Len(stack)),
           \A f \in Funs : locals[f] \subseteq locals'[f]
    PROVE  \A v \in ScopeAt(q).seen : v \in locals'[v.fn]
<1>1. ScopeAt(q).seen = Seen(stack, Len(stack))
  BY DEF ScopeOf, Scope
<1> SUFFICES ASSUME NEW v \in ScopeAt(q).seen PROVE v \in locals'[v.fn]
  OBVIOUS
<1>2. v \in Seen(stack, Len(stack))
  BY <1>1
<1>3. v.fn \in Funs /\ v \in locals[v.fn]
  BY <1>2, SeenDeclared
<1> QED  BY <1>3

LEMMA HomeExprs ==
    ASSUME NEW a \in Nat, NEW sc
    PROVE  \A k \in 1 .. Len(Exprs(a)) : AtHome(sc, Exprs(a)[k])
<1>1. Exprs(a) = [i \in 1 .. a |-> Expr]
  BY DEF Exprs
<1>2. Len(Exprs(a)) = a /\ \A k \in 1 .. a : Exprs(a)[k] = Expr
  BY <1>1
<1> QED  BY <1>2, ExprAtHome

LEMMA HomeWith ==
    ASSUME NEW a \in Nat, NEW sc, NEW e, AtHome(sc, e)
    PROVE  \A k \in 1 .. Len(Exprs(a) \o <<e>>) : AtHome(sc, (Exprs(a) \o <<e>>)[k])
<1> DEFINE t == Exprs(a) \o <<e>>
<1>1. Exprs(a) = [i \in 1 .. a |-> Expr]
  BY DEF Exprs
<1>2. Len(t) = a + 1 /\ \A k \in 1 .. a + 1 : t[k] = Expr \/ t[k] = e
  <2>1. Exprs(a) \in Seq({Expr, e}) /\ Len(Exprs(a)) = a
    BY <1>1
  <2>2. t \in Seq({Expr, e}) /\ Len(t) = a + 1
    BY <2>1
  <2> HIDE DEF t
  <2> QED  BY <2>2
<1> HIDE DEF t
<1>3. \A k \in 1 .. Len(t) : AtHome(sc, t[k])
  BY <1>2, ExprAtHome
<1> QED  BY <1>3 DEF t

LEMMA OperandsInStep ==
    ASSUME Inductive, InStep, ResolveOperands
    PROVE  InStep'
<1> DEFINE ops == {"const", "vector", "splat", "if"}  a == Arity(script[Here])
           st == Instead(stack, Exprs(a))
<1>1. Visiting(ops) /\ stack' = Rest(Exprs(a))
      /\ UNCHANGED <<script, parent, locals, refs, climb, status>>
  BY DEF ResolveOperands
<1>2. /\ Visits(stack, pos) /\ HomeStack(stack)
      /\ Here = pos + 1 /\ Here \in 1 .. Len(script) /\ pos' = Here
      /\ script[Here] \in Nodes /\ script[Here].op \in ops
      /\ Reached(Here) /\ ScopeAt(Here) = ScopeOf(stack, Len(stack))
      /\ climb = <<>> /\ status = "resolving"
  BY <1>1, VisitingPass
<1>3. stack' = st
  BY <1>1, TopOfPass
<1>4. a \in Nat
  BY <1>2, NodeFields
<1>5. StandsHome(st, Here)
  <2>1. Suits(Exprs(a), ScopeOf(stack, Len(stack)), a)
    BY <1>4, SuitExprs
  <2>2. script[Here].op \notin {"let", "fun"}
    BY <1>2
  <2> QED  BY <1>2, <1>4, <2>1, <2>2, HomeExprs, VisitedUniform, InStepParts
<1>6. Grown /\ Added
  BY <1>1, <1>2, LocalsSame
<1>7. NewResolved
  <2>1. \A v \in ScopeAt(Here).seen : v \in locals'[v.fn]
    BY <1>1, <1>2, SeenRecorded
  <2>2. Records(ScopeAt(Here), script[Here], Here, locals', refs'[Here], climb')
    BY <1>2, <2>1 DEF Records
  <2> QED  BY <1>2, <2>2, HereResolved
<1>8. ClimbScoped' /\ status' # "resolved"
  BY <1>1, <1>2, NotImporting
<1> HIDE DEF st
<1> QED  BY <1>2, <1>3, <1>5, <1>6, <1>7, <1>8, NotResolved, InStepFrom

LEMMA ReturnInStep ==
    ASSUME Inductive, InStep, ResolveReturn, status' \in {"resolving", "resolved"}
    PROVE  InStep'
<1> DEFINE st == Instead(stack, <<>>)  sc == ScopeOf(stack, Len(stack))
<1>1. Visiting({"return"}) /\ script' = script
  BY DEF ResolveReturn
<1>2. /\ Visits(stack, pos) /\ HomeStack(stack)
      /\ Here = pos + 1 /\ Here \in 1 .. Len(script) /\ pos' = Here
      /\ script[Here] \in Nodes /\ script[Here].op = "return"
      /\ Reached(Here) /\ ScopeAt(Here) = sc
      /\ climb = <<>> /\ status = "resolving"
  BY <1>1, VisitingPass
<1>3. /\ GetFunction = 0 /\ stack' = Rest(<<>>)
      /\ UNCHANGED <<parent, locals, refs, climb, status>>
  BY <1>1 DEF ResolveReturn, Throw
<1>4. stack' = st
  BY <1>3, TopOfPass
<1>5. StandsHome(st, Here)
  <2>1. Arity(script[Here]) = 0
    BY <1>2 DEF Arity
  <2>2. Exprs(0) = <<>>
    BY DEF Exprs
  <2>3. Suits(<<>>, sc, Arity(script[Here]))
    BY <2>1, <2>2, SuitExprs
  <2>4. script[Here].op \notin {"let", "fun"}
    BY <1>2
  <2>5. \A k \in 1 .. Len(<<>>) : AtHome(sc, <<>>[k])
    OBVIOUS
  <2> QED  BY <1>2, <2>3, <2>4, <2>5, VisitedUniform, InStepParts
<1>6. Grown /\ Added
  BY <1>1, <1>2, <1>3, LocalsSame
<1>7. NewResolved
  <2>1. \A v \in ScopeAt(Here).seen : v \in locals'[v.fn]
    BY <1>2, <1>3, SeenRecorded
  <2>2. Innermost(ScopeAt(Here)) = 0
    BY <1>2, <1>3, TopType, TopOfPass, InStepParts
  <2>3. Records(ScopeAt(Here), script[Here], Here, locals', refs'[Here], climb')
    BY <1>2, <2>1, <2>2 DEF Records
  <2> QED  BY <1>2, <2>3, HereResolved
<1>8. ClimbScoped' /\ status' # "resolved"
  BY <1>2, <1>3, NotImporting
<1> HIDE DEF st
<1> QED  BY <1>2, <1>4, <1>5, <1>6, <1>7, <1>8, NotResolved, InStepFrom

LEMMA VariableInStep ==
    ASSUME Inductive, InStep, ResolveVariable, status' \in {"resolving", "resolved"}
    PROVE  InStep'
<1> DEFINE st == Instead(stack, <<>>)  sc == ScopeOf(stack, Len(stack))
           s == Table[script[Here].name]
<1>1. Visiting({"var"}) /\ script' = script
  BY DEF ResolveVariable
<1>2. /\ Visits(stack, pos) /\ HomeStack(stack)
      /\ Here = pos + 1 /\ Here \in 1 .. Len(script) /\ pos' = Here
      /\ script[Here] \in Nodes /\ script[Here].op = "var"
      /\ Reached(Here) /\ ScopeAt(Here) = sc
      /\ climb = <<>> /\ status = "resolving"
  BY <1>1, VisitingPass
<1>3. /\ IsValued(s) /\ refs' = [refs EXCEPT ![Here] = s]
      /\ climb' = IF s.kind = "var" THEN <<[fn |-> GetFunction, var |-> s]>> ELSE <<>>
      /\ stack' = Rest(<<>>)
      /\ UNCHANGED <<parent, locals, status>>
  BY <1>1 DEF ResolveVariable, Throw
<1>4. stack' = st
  BY <1>3, TopOfPass
<1>5. StandsHome(st, Here)
  <2>1. Arity(script[Here]) = 0
    BY <1>2 DEF Arity
  <2>2. Exprs(0) = <<>>
    BY DEF Exprs
  <2>3. Suits(<<>>, sc, Arity(script[Here]))
    BY <2>1, <2>2, SuitExprs
  <2>4. script[Here].op \notin {"let", "fun"}
    BY <1>2
  <2>5. \A k \in 1 .. Len(<<>>) : AtHome(sc, <<>>[k])
    OBVIOUS
  <2> QED  BY <1>2, <2>3, <2>4, <2>5, VisitedUniform, InStepParts
<1>6. refs'[Here] = s /\ \A p \in 1 .. pos : refs'[p] = refs[p]
  <2>1. Here \in DOMAIN refs /\ pos \in Nat
    BY <1>2, InStepParts DEF TypeOK
  <2> QED  BY <1>2, <1>3, <2>1
<1>7. Grown /\ Added
  BY <1>1, <1>2, <1>3, <1>6, LocalsSame
<1>8. script[Here].name \in Names
  BY <1>2, NodeFields
<1>9. Innermost(sc) = GetFunction /\ sc.table = Table /\ sc.seen = Seen(stack, Len(stack))
  BY TopType, TopOfPass, InStepParts
<1> HIDE DEF st, sc, s
<1>10. s = sc.table[script[Here].name]
  BY <1>9 DEF s
<1>11. s.kind = "var" => climb' # <<>> /\ climb'[1] = [fn |-> GetFunction, var |-> s]
                        /\ Len(climb') = 1
  BY <1>3
<1>12. NewResolved
  <2>1. \A v \in ScopeAt(Here).seen : v \in locals'[v.fn]
    BY <1>2, <1>3, SeenRecorded DEF sc
  <2>2. Records(ScopeAt(Here), script[Here], Here, locals', refs'[Here], climb')
    BY <1>2, <1>3, <1>6, <1>9, <1>10, <1>11, <2>1 DEF Records
  <2> QED  BY <1>2, <2>2, HereResolved
<1>13. ClimbScoped'
  <2>1. CASE s.kind # "var"
    BY <1>3, <2>1, NotImporting
  <2>2. CASE s.kind = "var"
    <3>1. climb'[1].var = s /\ Len(climb') = 1
      BY <1>11, <2>2
    <3>2. s \in sc.seen
      <4>1. Len(stack) \in Nat /\ Len(stack) >= 1
        BY StackType, InStepParts
      <4>2. s = stack[Len(stack)].table[script[Here].name]
        BY TopOfPass DEF s
      <4> QED  BY <1>8, <1>9, <2>2, <4>1, <4>2, SeenTop
    <3>3. PICK r : r = stack'
      OBVIOUS
    <3>4. ScopeOf(r, Len(r)) = sc /\ Seen(r, Len(r)) = sc.seen
      <4>1. r = Instead(stack, <<>>) /\ <<>> \in Seq(Tasks)
        BY <1>4, <3>3 DEF st
      <4>2. stack[Len(stack)].todo # <<>>
        BY <1>2 DEF Visits
      <4>3. Len(r) = Len(stack) /\ \A i \in 1 .. Len(stack) :
                r[i].table = stack[i].table /\ r[i].chain = stack[i].chain
        BY <4>1, <4>2, InsteadType, InStepParts
      <4>4. Len(stack) \in Nat /\ Len(stack) >= 1 /\ Len(stack) \in 1 .. Len(stack)
        <5>1. Len(stack) \in Nat /\ Len(stack) >= 1
          BY StackType, InStepParts
        <5> QED  BY <5>1
      <4>5. ScopeOf(r, Len(stack)) = sc
        BY <4>3, <4>4, ScopeSame DEF sc
      <4>6. ScopeOf(r, Len(r)).seen = Seen(r, Len(r))
        BY DEF ScopeOf, Scope
      <4> QED  BY <4>3, <4>5, <4>6
    <3>5. \E p \in 1 .. pos' : Reached(p)' /\ ScopeOf(r, Len(r)) = ScopeAt(p)'
      <4>1. PICK h : h = Here
        OBVIOUS
      <4>2. h \in 1 .. pos'
        BY <1>2, <4>1
      <4>3. Reached(h)' /\ ScopeAt(h)' = sc
        BY <1>1, <1>2, <4>1, ReachedFixed, InStepParts
      <4> QED  BY <3>4, <4>2, <4>3
    <3>6. \A n \in 1 .. Len(climb') - 1 : FALSE
      BY <3>1
    <3> QED  BY <3>1, <3>2, <3>3, <3>4, <3>5, <3>6 DEF ClimbScoped
  <2> QED  BY <2>1, <2>2
<1>14. status' # "resolved"
  BY <1>2, <1>3
<1> QED  BY <1>2, <1>4, <1>5, <1>7, <1>12, <1>13, <1>14, NotResolved, InStepFrom

LEMMA LetInStep ==
    ASSUME Inductive, InStep, ResolveLet
    PROVE  InStep'
<1> DEFINE sc == ScopeOf(stack, Len(stack))
           v == Variable(GetFunction, Here, script[Here].name)
           st == Instead(stack, <<Expr, In(Here)>>)
<1>1. /\ Visiting({"let"})
      /\ locals' = [locals EXCEPT ![GetFunction] = @ \cup {v}]
      /\ stack' = Rest(<<Expr, In(Here)>>)
      /\ UNCHANGED <<script, parent, refs, climb, status>>
  BY DEF ResolveLet
<1>2. /\ Visits(stack, pos) /\ HomeStack(stack)
      /\ Here = pos + 1 /\ Here \in 1 .. Len(script) /\ pos' = Here
      /\ script[Here] \in Nodes /\ script[Here].op = "let"
      /\ Reached(Here) /\ ScopeAt(Here) = sc
      /\ climb = <<>> /\ status = "resolving"
  BY <1>1, VisitingPass
<1>3. stack' = st
  BY <1>1, TopOfPass
<1>4. In(Here) \in Tasks /\ In(Here).do = "in" /\ In(Here).node = pos + 1
  BY <1>2, InStepParts DEF In, Tasks, Doings
<1>5. StandsHome(st, Here)
  BY <1>2, <1>4, VisitedLet, InStepParts
<1>6. GetFunction \in Funs /\ locals \in [Funs -> SUBSET Symbols]
  BY InStepParts, TopFrameType DEF TypeOK
<1>7. v.kind = "var" /\ v.fn = GetFunction
  BY DEF Variable
<1> HIDE DEF v, st
<1>8. /\ \A f \in Funs : locals[f] \subseteq locals'[f]
      /\ v \in locals'[GetFunction]
      /\ \A f \in Funs : f # GetFunction => locals'[f] = locals[f]
      /\ locals'[GetFunction] = locals[GetFunction] \cup {v}
  BY <1>1, <1>6
<1>9. Grown
  BY <1>1, <1>2, <1>8 DEF Grown
<1>10. Added
  BY <1>7, <1>8 DEF Added, MayHold
<1>11. NewResolved
  <2>1. \A u \in ScopeAt(Here).seen : u \in locals'[u.fn]
    BY <1>2, <1>8, SeenRecorded
  <2>2. Innermost(ScopeAt(Here)) = GetFunction
    BY <1>2, TopType, TopOfPass, InStepParts
  <2>3. Records(ScopeAt(Here), script[Here], Here, locals', refs'[Here], climb')
    BY <1>2, <1>8, <2>1, <2>2 DEF Records, v
  <2> QED  BY <1>2, <2>3, HereResolved
<1>12. ClimbScoped' /\ status' # "resolved"
  BY <1>1, <1>2, NotImporting
<1> QED  BY <1>2, <1>3, <1>5, <1>9, <1>10, <1>11, <1>12, NotResolved, InStepFrom

LEMMA EnterLetInStep ==
    ASSUME Inductive, InStep, EnterLet
    PROVE  InStep'
<1> DEFINE e == Head(Todo)  st == OpenLet(stack, e.node, <<Expr>>)
           s == Variable(GetFunction, e.node, script[e.node].name)
<1>1. /\ Working("in")
      /\ stack' = Append(Rest(<<>>),
                     Frame(TopFrame.chain, WithSymbol(Table, s), <<Expr>>))
      /\ UNCHANGED <<script, parent, locals, refs, climb, status>>
  BY DEF EnterLet
<1>2. /\ Works(stack, pos) /\ HomeStack(stack)
      /\ pos' = pos /\ e = stack[Len(stack)].todo[1]
      /\ e.do = "in" /\ ItemOK(TopFrame.chain, e)
      /\ climb = <<>> /\ status = "resolving"
  BY <1>1, WorkingPass
<1>3. stack' = st
  BY <1>1, TopOfPass DEF OpenLet
<1>4. e.node \in 1 .. Len(script) /\ script[e.node].op = "let"
  <2>1. e.node \in 1 .. pos /\ script[e.node].op = "let"
    BY <1>2 DEF ItemOK
  <2> QED  BY <2>1, InStepParts
<1>5. StandsHome(st, pos)
  <2> HIDE DEF e
  <2> QED  BY <1>2, <1>4, EnteredLet, InStepParts
<1>6. Grown /\ Added
  BY <1>1, <1>2, LocalsSame
<1>7. NewResolved
  BY <1>2, NothingNew, InStepParts
<1>8. ClimbScoped' /\ status' # "resolved"
  BY <1>1, <1>2, NotImporting
<1> HIDE DEF st
<1> QED  BY <1>2, <1>3, <1>5, <1>6, <1>7, <1>8, NotResolved, InStepFrom

LEMMA FunctionInStep ==
    ASSUME Inductive, InStep, ResolveFunction
    PROVE  InStep'
<1> DEFINE sc == ScopeOf(stack, Len(stack))  A == Arguments(Here, script[Here].params)
           st == OpenNamed(stack, Here, <<Body(Here), Expr>>)
<1>1. /\ Visiting({"fun"})
      /\ locals' = [locals EXCEPT ![Here] = A]
      /\ stack' = Append(Rest(<<>>),
             Frame(TopFrame.chain,
                   WithSymbol(Table, Function(GetFunction, Here, script[Here].name)),
                   <<Body(Here), Expr>>))
      /\ UNCHANGED <<script, refs, climb, status>>
  BY DEF ResolveFunction
<1>2. /\ Visits(stack, pos) /\ HomeStack(stack)
      /\ Here = pos + 1 /\ Here \in 1 .. Len(script) /\ pos' = Here
      /\ script[Here] \in Nodes /\ script[Here].op = "fun"
      /\ Reached(Here) /\ ScopeAt(Here) = sc
      /\ climb = <<>> /\ status = "resolving"
  BY <1>1, VisitingPass
<1>3. stack' = st
  BY <1>1, TopOfPass DEF OpenNamed
<1>4. Body(Here) \in Tasks /\ Body(Here).do = "body" /\ Body(Here).node = pos + 1
  BY <1>2, InStepParts DEF Body, Tasks, Doings
<1>5. StandsHome(st, Here)
  BY <1>2, <1>4, VisitedFunction, InStepParts
<1>6. Here \in Funs /\ locals \in [Funs -> SUBSET Symbols] /\ locals[Here] = {}
  <2>1. Here \in Funs /\ Here > pos
    BY <1>2, InStepParts DEF Funs
  <2> QED  BY <2>1, InStepParts DEF Inductive, TypeOK
<1>7. \A v \in A : v.kind = "var" /\ v.fn = Here
  BY DEF Arguments, Variable
<1> HIDE DEF A, st
<1>8. /\ \A f \in Funs : locals[f] \subseteq locals'[f]
      /\ locals'[Here] = A
      /\ \A f \in Funs : f # Here => locals'[f] = locals[f]
  BY <1>1, <1>6
<1>9. Grown
  BY <1>1, <1>2, <1>8 DEF Grown
<1>10. Added
  BY <1>7, <1>8 DEF Added, MayHold
<1>11. NewResolved
  <2>1. \A u \in ScopeAt(Here).seen : u \in locals'[u.fn]
    BY <1>2, <1>8, SeenRecorded
  <2>2. Records(ScopeAt(Here), script[Here], Here, locals', refs'[Here], climb')
    BY <1>2, <1>8, <2>1 DEF Records, A
  <2> QED  BY <1>2, <2>2, HereResolved
<1>12. ClimbScoped' /\ status' # "resolved"
  BY <1>1, <1>2, NotImporting
<1> QED  BY <1>2, <1>3, <1>5, <1>9, <1>10, <1>11, <1>12, NotResolved, InStepFrom

LEMMA EnterBodyInStep ==
    ASSUME Inductive, InStep, EnterBody
    PROVE  InStep'
<1> DEFINE e == Head(Todo)  st == OpenBody(stack, e.node, <<Expr>>)
<1>1. /\ Working("body")
      /\ stack' = Append(Rest(<<>>),
                     Frame(Append(TopFrame.chain, e.node),
                           WithArguments(Table, e.node, script[e.node].params),
                           <<Expr>>))
      /\ UNCHANGED <<script, parent, locals, refs, climb, status>>
  BY DEF EnterBody
<1>2. /\ Works(stack, pos) /\ HomeStack(stack)
      /\ pos' = pos /\ e = stack[Len(stack)].todo[1]
      /\ e.do = "body" /\ ItemOK(TopFrame.chain, e)
      /\ climb = <<>> /\ status = "resolving"
  BY <1>1, WorkingPass
<1>3. stack' = st
  BY <1>1, TopOfPass DEF OpenBody
<1>4. e.node \in 1 .. Len(script) /\ script[e.node].op = "fun"
  <2>1. e.node \in 1 .. pos /\ script[e.node].op = "fun"
    BY <1>2 DEF ItemOK
  <2> QED  BY <2>1, InStepParts
<1>5. StandsHome(st, pos)
  <2> HIDE DEF e
  <2>1. \A sc : \A k \in 1 .. Len(<<Expr>>) : AtHome(sc, <<Expr>>[k])
    BY ExprAtHome, SingletonSeq
  <2> DEFINE u == <<Expr>>
  <2>2. \A sc : Suits(u, sc, 1)
    BY SuitOne
  <2>3. \A sc : \A k \in 1 .. Len(u) : AtHome(sc, u[k])
    BY <2>1
  <2> HIDE DEF u
  <2>4. StandsHome(OpenBody(stack, e.node, u), pos)
    BY <1>2, <1>4, <2>2, <2>3, EnteredBody, InStepParts
  <2> QED  BY <2>4 DEF u
<1>6. Grown /\ Added
  BY <1>1, <1>2, LocalsSame
<1>7. NewResolved
  BY <1>2, NothingNew, InStepParts
<1>8. ClimbScoped' /\ status' # "resolved"
  BY <1>1, <1>2, NotImporting
<1> HIDE DEF st
<1> QED  BY <1>2, <1>3, <1>5, <1>6, <1>7, <1>8, NotResolved, InStepFrom

LEMMA ConcatNothing ==
    ASSUME NEW S, NEW s \in Seq(S)
    PROVE  s \o <<>> = s
OBVIOUS

LEMMA CallInStep ==
    ASSUME Inductive, InStep, ResolveCall, status' \in {"resolving", "resolved"}
    PROVE  InStep'
<1> DEFINE sc == ScopeOf(stack, Len(stack))  s == Table[script[Here].name]
           n == script[Here].argc
           u == Exprs(n) \o (IF s.kind = "fun" THEN <<Import(Here)>> ELSE <<>>)
           st == Instead(stack, u)
<1>1. Visiting({"call"}) /\ script' = script
  BY DEF ResolveCall
<1>2. /\ Visits(stack, pos) /\ HomeStack(stack)
      /\ Here = pos + 1 /\ Here \in 1 .. Len(script) /\ pos' = Here
      /\ script[Here] \in Nodes /\ script[Here].op = "call"
      /\ Reached(Here) /\ ScopeAt(Here) = sc
      /\ climb = <<>> /\ status = "resolving"
  BY <1>1, VisitingPass
<1>3. /\ IsCallable(s) /\ refs' = [refs EXCEPT ![Here] = s]
      /\ stack' = Rest(u)
      /\ UNCHANGED <<parent, locals, climb, status>>
  BY <1>1 DEF ResolveCall, Throw
<1>4. stack' = st
  BY <1>3, TopOfPass
<1>5. n \in Nat /\ Arity(script[Here]) = n
  <2>1. n \in Nat
    BY <1>2, NodeFields
  <2>2. Arity(script[Here]) = n
    BY <1>2 DEF Arity
  <2> QED  BY <2>1, <2>2
<1> HIDE DEF n
<1>6. Suits(u, sc, n) /\ \A k \in 1 .. Len(u) : AtHome(sc, u[k])
  <2>1. CASE s.kind = "fun"
    <3>1. u = Exprs(n) \o <<Import(Here)>>
      BY <2>1
    <3>2. Import(Here) \in Tasks /\ ~ Waits(Import(Here))
      BY <1>2, InStepParts DEF Import, Tasks, Doings, Waits
    <3>3. AtHome(sc, Import(Here))
      BY <1>2 DEF AtHome, Import
    <3>4. Suits(Exprs(n) \o <<Import(Here)>>, sc, n)
      BY <1>5, <3>2, SuitExprs, SuitWith
    <3>5. \A k \in 1 .. Len(Exprs(n) \o <<Import(Here)>>) :
             AtHome(sc, (Exprs(n) \o <<Import(Here)>>)[k])
      BY <1>5, <3>3, HomeWith
    <3> QED  BY <3>1, <3>4, <3>5
  <2>2. CASE s.kind # "fun"
    <3>1. u = Exprs(n) \o <<>>
      BY <2>2
    <3>2. Exprs(n) \in Seq(Tasks)
      BY <1>5, SuitExprs DEF Suits
    <3>3. u = Exprs(n)
      BY <3>1, <3>2, ConcatNothing
    <3> QED  BY <1>5, <3>3, SuitExprs, HomeExprs
  <2> QED  BY <2>1, <2>2
<1> HIDE DEF u
<1>7. StandsHome(st, Here)
  <2>1. Suits(u, sc, Arity(script[Here]))
    BY <1>5, <1>6
  <2>2. script[Here].op \notin {"let", "fun"}
    BY <1>2
  <2> QED  BY <1>2, <1>6, <2>1, <2>2, VisitedUniform, InStepParts
<1>8. refs'[Here] = s /\ \A p \in 1 .. pos : refs'[p] = refs[p]
  <2>1. Here \in DOMAIN refs /\ pos \in Nat
    BY <1>2, InStepParts DEF TypeOK
  <2> QED  BY <1>2, <1>3, <2>1
<1>9. Grown /\ Added
  BY <1>1, <1>2, <1>3, <1>8, LocalsSame
<1>10. NewResolved
  <2>1. \A v \in ScopeAt(Here).seen : v \in locals'[v.fn]
    BY <1>2, <1>3, SeenRecorded
  <2>2. s = ScopeAt(Here).table[script[Here].name]
    BY <1>2, TopType, TopOfPass, InStepParts
  <2>3. Records(ScopeAt(Here), script[Here], Here, locals', refs'[Here], climb')
    BY <1>2, <1>3, <1>8, <2>1, <2>2 DEF Records
  <2> QED  BY <1>2, <2>3, HereResolved
<1>11. ClimbScoped' /\ status' # "resolved"
  BY <1>2, <1>3, NotImporting
<1> HIDE DEF st
<1> QED  BY <1>2, <1>4, <1>7, <1>9, <1>10, <1>11, NotResolved, InStepFrom

(* An import asks for what can be seen: the callee can, and so can what it *)
(* was declared in.                                                        *)
LEMMA UpvaluesSeen ==
    ASSUME script \in Seq(Nodes), NEW p \in 1 .. Len(script), Reached(p),
           Records(ScopeAt(p), script[p], p, locals, refs[p], climb),
           script[p].op = "call", refs[p].kind = "fun",
           LocalsScoped, NEW v \in Upvalues(refs[p].node)
    PROVE  v \in ScopeAt(p).seen /\ refs[p].node \in 1 .. Len(script)
<1> DEFINE sc == ScopeAt(p)  s == refs[p]
<1>1. sc \in Scopes /\ ScopeOK(sc, p - 1)
  BY ScopeAtOK
<1>2. s = sc.table[script[p].name]
  BY DEF Records
<1>3. script[p].name \in Names
  BY NodeAt, NodeFields
<1> HIDE DEF s, sc
<1>4. NameScoped(sc, s, p - 1)
  BY <1>1, <1>2, <1>3 DEF ScopeOK
<1>5. s.node \in 1 .. p - 1 /\ ScopeAt(s.node).seen \subseteq sc.seen
  BY <1>4 DEF NameScoped, s
<1>6. s.node \in 1 .. Len(script) /\ s.node \in Funs
  BY <1>5, NodeAt DEF Funs
<1>7. v \in locals[s.node] /\ v.fn # s.node
  BY DEF Upvalues, s
<1>8. MayHold(s.node, v)
  BY <1>6, <1>7 DEF LocalsScoped
<1>9. v \in ScopeAt(s.node).seen
  BY <1>7, <1>8 DEF MayHold
<1> QED  BY <1>5, <1>6, <1>9 DEF s, sc

LEMMA ImportInStep ==
    ASSUME Inductive, InStep, ImportUpvalues
    PROVE  InStep'
<1> DEFINE e == Head(Todo)  sc == ScopeOf(stack, Len(stack))
<1>1. Working("import") /\ UNCHANGED <<script, parent, locals, refs, status>>
  BY DEF ImportUpvalues
<1>2. /\ Works(stack, pos) /\ HomeStack(stack)
      /\ pos' = pos /\ e = stack[Len(stack)].todo[1]
      /\ e.do = "import" /\ ItemOK(TopFrame.chain, e) /\ AtHome(sc, e)
      /\ climb = <<>> /\ status = "resolving"
  BY <1>1, WorkingPass
<1>3. Grown /\ Added
  BY <1>1, <1>2, LocalsSame
<1>4. NewResolved
  BY <1>2, NothingNew, InStepParts
<1>5. CASE stack' = Rest(<<>>) /\ UNCHANGED climb
  <2>1. stack' = Instead(stack, <<>>)
    BY <1>5, TopOfPass
  <2>2. ~ Waits(stack[Len(stack)].todo[1])
    BY <1>2 DEF Waits
  <2>3. StandsHome(Instead(stack, <<>>), pos)
    BY <1>2, <2>2, WorkedOff, InStepParts
  <2>4. ClimbScoped' /\ status' # "resolved"
    BY <1>1, <1>2, <1>5, NotImporting
  <2> DEFINE st == Instead(stack, <<>>)
  <2>5. st = stack' /\ StandsHome(st, pos)
    BY <2>1, <2>3
  <2> HIDE DEF st
  <2> QED  BY <1>2, <1>3, <1>4, <2>4, <2>5, NotResolved, InStepFrom
<1>6. ASSUME NEW v \in Upvalues(refs[e.node].node),
             climb' = <<[fn |-> GetFunction, var |-> v]>>, stack' = stack
      PROVE  InStep'
  <2>1. StandsHome(stack, pos)
    BY InStepParts DEF StandsHome
  <2>2. /\ e.node \in 1 .. pos /\ Reached(e.node) /\ sc = ScopeAt(e.node)
        /\ script[e.node].op = "call" /\ refs[e.node].kind = "fun"
    BY <1>2 DEF AtHome, ItemOK
  <2>3. Records(sc, script[e.node], e.node, locals, refs[e.node], climb)
        /\ LocalsScoped
    BY <2>2, InStepParts DEF Recorded, Resolved
  <2>4. e.node \in 1 .. Len(script)
    BY <2>2, InStepParts
  <2>5. v \in sc.seen
    BY <2>2, <2>3, <2>4, InStepParts, UpvaluesSeen
  <2>6. sc.seen = Seen(stack, Len(stack))
    BY DEF ScopeOf, Scope
  <2>7. climb'[1].var = v /\ Len(climb') = 1
    BY <1>6
  <2>8. ClimbScoped'
    <3>1. PICK st, h : st = stack' /\ h = e.node
      OBVIOUS
    <3>2. v \in Seen(st, Len(st)) /\ ScopeOf(st, Len(st)) = sc
      BY <1>6, <2>5, <2>6, <3>1
    <3>3. h \in 1 .. pos' /\ Reached(h)' /\ ScopeAt(h)' = sc
      BY <1>1, <1>2, <2>2, <3>1, ReachedFixed, InStepParts
    <3>4. \A n \in 1 .. Len(climb') - 1 : FALSE
      BY <2>7
    <3> QED  BY <2>7, <3>1, <3>2, <3>3, <3>4 DEF ClimbScoped
  <2>9. status' # "resolved"
    BY <1>1, <1>2
  <2>10. PICK st, q : st = stack' /\ q = pos' /\ StandsHome(st, q)
    BY <1>2, <1>6, <2>1
  <2> QED  BY <1>2, <1>3, <1>4, <2>8, <2>9, <2>10, NotResolved, InStepFrom
<1> QED  BY <1>5, <1>6 DEF ImportUpvalues

LEMMA CloseInStep ==
    ASSUME Inductive, InStep, CloseFrame
    PROVE  InStep'
<1>1. /\ status = "resolving" /\ climb = <<>> /\ Todo = <<>>
      /\ UNCHANGED <<script, pos, parent, locals, refs, climb>>
      /\ IF Len(stack) > 1
         THEN stack' = SubSeq(stack, 1, Len(stack) - 1) /\ status' = status
         ELSE status' = "resolved" /\ stack' = stack
  BY DEF CloseFrame, Resolving
<1>2. Grown /\ Added
  BY <1>1, LocalsSame
<1>3. NewResolved
  BY <1>1, NothingNew, InStepParts
<1>4. ClimbScoped'
  BY <1>1, NotImporting
<1>5. StandsHome(stack, pos) /\ stack \in Stacks /\ stack[Len(stack)].todo = <<>>
  BY <1>1, InStepParts, TopOfPass DEF StandsHome
<1>6. CASE Len(stack) > 1
  <2>1. StandsHome(SubSeq(stack, 1, Len(stack) - 1), pos)
    BY <1>5, <1>6, PoppedFrame
  <2>2. PICK st, q : st = stack' /\ q = pos' /\ StandsHome(st, q)
    BY <1>1, <1>6, <2>1
  <2>3. status' # "resolved"
    BY <1>1, <1>6
  <2> QED  BY <1>1, <1>2, <1>3, <1>4, <2>2, <2>3, NotResolved, InStepFrom
<1>7. CASE ~ (Len(stack) > 1)
  <2>1. PICK st, q : st = stack' /\ q = pos' /\ StandsHome(st, q)
    BY <1>1, <1>5, <1>7
  <2>2. Len(stack) = 1
    <3>0. stack \in Stacks
      BY <1>5
    <3>1. PICK n : n = Len(stack)
      OBVIOUS
    <3>2. n \in Nat /\ n >= 1
      BY <3>0, <3>1, StackType
    <3>3. ~ (n > 1)
      BY <1>7, <3>1
    <3>4. n = 1
      BY <3>2, <3>3
    <3> QED  BY <3>1, <3>4
  <2>3. Todo' = Todo
    BY <1>1, <1>7 DEF Todo, TopFrame
  <2>4. (status = "resolved" => Len(stack) = 1 /\ Todo = <<>> /\ climb = <<>>)'
    BY <1>1, <1>7, <2>2, <2>3
  <2> QED  BY <1>1, <1>2, <1>3, <1>4, <2>1, <2>4, InStepFrom
<1> QED  BY <1>6, <1>7

(* The functions that an import passes were defined around the place that  *)
(* asks, but inside the function that has the variable.                    *)
LEMMA PassedFunctions ==
    ASSUME Inductive, InStep, Importing,
           NEW l \in Nat, l < Len(climb), l >= 1,
           \A n \in 1 .. l : climb[1].var \notin locals[climb[n].fn]
    PROVE  /\ MayHold(climb[l].fn, climb[1].var) /\ climb[l].fn \in Funs
           /\ \A n \in 1 .. Len(climb) : n # l => climb[n].fn # climb[l].fn
<1> DEFINE sc == ScopeOf(stack, Len(stack))  v == climb[1].var
           c == TopFrame.chain  N == Len(c)  L == Len(climb)
<1>1. /\ L \in 1 .. N /\ N \in Nat
      /\ \A n \in 1 .. L : climb[n].fn = c[N + 1 - n] /\ climb[n] \in [fn : Funs, var : Symbols]
  BY Climbing, InnermostFunction
<1>2. sc.chain = c /\ sc.seen = Seen(stack, Len(stack))
  BY DEF ScopeOf, Scope, TopFrame
<1>3. climb # <<>>
  BY DEF Importing
<1>4. PICK p \in 1 .. pos : Reached(p) /\ sc = ScopeAt(p)
  BY <1>3, InStepParts DEF ClimbScoped
<1>5. v \in sc.seen
  BY <1>2, <1>3, InStepParts DEF ClimbScoped
<1>6. p \in 1 .. Len(script)
  BY <1>4, InStepParts
<1>7. ScopeOK(sc, p - 1)
  BY <1>4, <1>6, ScopeAtOK, InStepParts
<1>8. v \in locals[v.fn] /\ v.kind = "var"
  BY <1>2, <1>5, SeenDeclared
<1> HIDE DEF sc, v
<1>9. /\ \A n \in 1 .. N : c[n] \in 0 .. p - 1
      /\ \A m, n \in 1 .. N : m < n => c[m] < c[n]
      /\ \A n \in 2 .. N : Reached(c[n])
      /\ c[1] = 0
  BY <1>2, <1>7 DEF ScopeOK, ChainScoped
<1>10. /\ \E n \in 1 .. N : c[n] = v.fn
       /\ \A n \in 2 .. N : v.fn < c[n] => v \in ScopeAt(c[n]).seen
  BY <1>2, <1>5, <1>7 DEF ScopeOK, SeenScoped
<1> HIDE DEF c
<1>11. PICK m \in 1 .. N : c[m] = v.fn
  BY <1>10
<1>12. L \in Nat /\ l < L /\ \A n \in 1 .. l : n \in 1 .. L
  BY <1>1
<1>13. ASSUME N + 1 - l <= m PROVE FALSE
  <2>1. N + 1 - m \in 1 .. l /\ N + 1 - (N + 1 - m) = m
    BY <1>1, <1>12, <1>13
  <2>2. climb[N + 1 - m].fn = v.fn
    BY <1>1, <1>11, <1>12, <2>1
  <2> QED  BY <1>8, <2>1, <2>2 DEF v
<1> DEFINE k == N + 1 - l
<1>14. k \in 2 .. N /\ k \in 1 .. N /\ m < k
  BY <1>1, <1>12, <1>13
<1>15. climb[l].fn = c[k]
  BY <1>1, <1>12
<1> HIDE DEF k
<1>16. v.fn < c[k] /\ v \in ScopeAt(c[k]).seen /\ Reached(c[k])
  BY <1>9, <1>10, <1>11, <1>14
<1>17. c[k] \in 1 .. Len(script)
  <2>1. c[1] < c[k]
    BY <1>9, <1>14
  <2>2. c[k] \in 0 .. p - 1
    BY <1>9, <1>14
  <2> QED  BY <1>6, <1>9, <2>1, <2>2, InStepParts
<1>18. MayHold(climb[l].fn, v)
  BY <1>8, <1>15, <1>16, <1>17 DEF MayHold
<1>19. ASSUME NEW n \in 1 .. L, n # l PROVE climb[n].fn # climb[l].fn
  <2>1. PICK j \in 1 .. N : climb[n].fn = c[j] /\ j # k
    <3>1. climb[n].fn = c[N + 1 - n] /\ N + 1 - n \in 1 .. N /\ N + 1 - n # k
      BY <1>1, <1>12, <1>19 DEF k
    <3> QED  BY <3>1
  <2>2. c[j] \in Nat /\ c[k] \in Nat
    BY <1>9, <1>14, <2>1
  <2>3. c[j] < c[k] \/ c[k] < c[j]
    <3>1. j < k \/ k < j
      BY <1>14, <2>1
    <3> QED  BY <1>9, <1>14, <3>1
  <2>4. c[j] # c[k]
    BY <2>2, <2>3
  <2> QED  BY <1>15, <2>1, <2>4
<1>20. climb[l].fn \in Funs
  BY <1>1, <1>12
<1> QED  BY <1>18, <1>19, <1>20 DEF v

LEMMA FoundInStep ==
    ASSUME Inductive, InStep, ImportFound
    PROVE  InStep'
<1> DEFINE L == Len(climb)
<1>1. /\ Importing /\ Activation.var \in locals[Activation.fn]
      /\ climb' = SubSeq(climb, 1, L - 1)
      /\ locals' = IF L > 1
                   THEN [locals EXCEPT ![climb[L - 1].fn] = @ \cup {Activation.var}]
                   ELSE locals
      /\ UNCHANGED <<script, pos, stack, parent, refs, status>>
  BY DEF ImportFound
<1>2. /\ TypeOK /\ L \in Nat /\ L >= 1 /\ IsSeq(climb)
      /\ Activation = climb[L]
      /\ \A n \in 1 .. L : climb[n].fn \in Funs /\ climb[n].var = Activation.var
  <2>1. /\ TypeOK /\ L \in 1 .. Len(TopFrame.chain) /\ Activation = climb[L]
        /\ climb \in Seq([fn : Funs, var : Symbols])
        /\ \A n \in 1 .. L : climb[n] \in [fn : Funs, var : Symbols]
                             /\ climb[n].var = Activation.var
    BY <1>1, Climbing
  <2>2. IsSeq(climb)
    BY <2>1 DEF IsSeq
  <2> QED  BY <2>1, <2>2
<1>3. /\ locals \in [Funs -> SUBSET Symbols] /\ status = "resolving" /\ climb # <<>>
      /\ pos \in Nat
  BY <1>1, <1>2 DEF TypeOK, Importing
<1>4. climb[1].var = Activation.var
  <2>1. 1 \in 1 .. L
    BY <1>2
  <2> QED  BY <1>2, <2>1
<1>5. NewResolved
  BY <1>1, <1>3, NothingNew
<1>6. PICK st, q : st = stack' /\ q = pos' /\ StandsHome(st, q)
  BY <1>1, InStepParts DEF StandsHome
<1>7. status' # "resolved"
  BY <1>1, <1>3
<1>8. CASE L = 1
  <2>1. climb' = <<>>
    BY <1>1, <1>8
  <2>2. locals' = locals /\ climb[1].var \in locals'[climb[1].fn]
    BY <1>1, <1>2, <1>8
  <2>3. Grown
    BY <1>1, <2>2 DEF Grown
  <2>4. Added
    BY <2>2 DEF Added
  <2>5. ClimbScoped'
    BY <2>1, NotImporting
  <2> QED  BY <1>1, <1>5, <1>6, <1>7, <2>3, <2>4, <2>5, NotResolved, InStepFrom
<1>9. CASE L > 1
  <2>1. PICK f, v : f = climb[L - 1].fn /\ v = climb[1].var
    OBVIOUS
  <2>2. /\ IsSeq(climb') /\ Len(climb') = L - 1
        /\ \A i \in 1 .. L - 1 : climb'[i] = climb[i]
    BY <1>1, <1>2, <1>9, FrontSeq
  <2>3. climb' # <<>> /\ climb'[1] = climb[1]
    <3>1. 1 \in 1 .. L - 1 /\ L - 1 # 0
      BY <1>2, <1>9
    <3> QED  BY <2>2, <3>1, SeqLength
  <2>4. locals' = [locals EXCEPT ![f] = @ \cup {v}]
    BY <1>1, <1>4, <1>9, <2>1
  <2>5. ClimbScoped
    BY InStepParts
  <2>6. \A n \in 1 .. L - 1 : climb[1].var \notin locals[climb[n].fn]
    BY <1>3, <2>5 DEF ClimbScoped
  <2>7. L - 1 \in Nat /\ L - 1 < L /\ L - 1 >= 1
    BY <1>2, <1>9
  <2>8. /\ MayHold(f, v) /\ f \in Funs
        /\ \A n \in 1 .. L : n # L - 1 => climb[n].fn # f
    BY <1>1, <2>1, <2>6, <2>7, PassedFunctions
  <2>9. /\ \A g \in Funs : locals[g] \subseteq locals'[g]
        /\ \A g \in Funs : g # f => locals'[g] = locals[g]
        /\ locals'[f] = locals[f] \cup {v}
    BY <1>3, <2>4, <2>8
  <2>10. Grown
    BY <1>1, <2>3, <2>9 DEF Grown
  <2>11. Added
    BY <2>8, <2>9 DEF Added
  <2>12. ClimbScoped'
    <3>1. /\ climb[1].var \in Seen(stack, Len(stack))
          /\ \E p \in 1 .. pos : Reached(p) /\ ScopeOf(stack, Len(stack)) = ScopeAt(p)
      BY <1>3, <2>5 DEF ClimbScoped
    <3>2. PICK p \in 1 .. pos : Reached(p) /\ ScopeOf(stack, Len(stack)) = ScopeAt(p)
      BY <3>1
    <3>3. PICK s : s = stack' /\ s = stack
      BY <1>1
    <3>4. p \in 1 .. pos' /\ Reached(p)' /\ ScopeAt(p)' = ScopeOf(s, Len(s))
      BY <1>1, <3>2, <3>3, ReachedFixed, InStepParts
    <3>5. ASSUME NEW n \in 1 .. L - 2
          PROVE  climb'[1].var \notin locals'[climb'[n].fn]
      <4>1. n \in 1 .. L - 1 /\ n \in 1 .. L /\ n # L - 1
        BY <1>2, <1>9
      <4>2. climb'[n] = climb[n] /\ climb[n].fn # f /\ climb[n].fn \in Funs
        BY <1>2, <2>2, <2>8, <4>1
      <4> QED  BY <2>3, <2>6, <2>9, <4>1, <4>2
    <3>6. Len(climb') - 1 = L - 2
      BY <1>2, <2>2
    <3>7. climb'[1].var \in Seen(s, Len(s))
      BY <2>3, <3>1, <3>3
    <3> HIDE DEF L
    <3> QED  BY <3>3, <3>4, <3>5, <3>6, <3>7 DEF ClimbScoped
  <2> QED  BY <1>1, <1>5, <1>6, <1>7, <2>10, <2>11, <2>12, NotResolved, InStepFrom
<1>10. L = 1 \/ L > 1
  <2>1. L \in Nat /\ L >= 1
    BY <1>2
  <2> HIDE DEF L
  <2> QED  BY <2>1
<1> QED  BY <1>8, <1>9, <1>10

LEMMA FromParentInStep ==
    ASSUME Inductive, InStep, ImportFromParent, status' \in {"resolving", "resolved"}
    PROVE  InStep'
<1> DEFINE L == Len(climb)
<1>1. /\ Importing /\ Activation.var \notin locals[Activation.fn]
      /\ \E up : climb' = Append(climb, [fn |-> up, var |-> Activation.var])
      /\ UNCHANGED <<script, pos, stack, parent, locals, refs>>
      /\ status' = status
  BY DEF ImportFromParent
<1>2. PICK a : climb' = Append(climb, a)
  BY <1>1
<1>3. /\ TypeOK /\ L \in Nat /\ L >= 1 /\ IsSeq(climb) /\ Activation = climb[L]
      /\ \A n \in 1 .. L : climb[n].var = Activation.var
  <2>1. /\ TypeOK /\ L \in 1 .. Len(TopFrame.chain) /\ Activation = climb[L]
        /\ climb \in Seq([fn : Funs, var : Symbols])
        /\ \A n \in 1 .. L : climb[n].var = Activation.var
    BY <1>1, Climbing
  <2>2. IsSeq(climb)
    BY <2>1 DEF IsSeq
  <2> QED  BY <2>1, <2>2
<1>4. /\ status = "resolving" /\ climb # <<>> /\ pos \in Nat
  BY <1>1, <1>3 DEF TypeOK, Importing
<1>5. /\ IsSeq(climb') /\ Len(climb') = L + 1
      /\ \A i \in 1 .. L : climb'[i] = climb[i]
  BY <1>2, <1>3, AppendSeq
<1>6. climb' # <<>> /\ climb'[1] = climb[1]
  <2>1. 1 \in 1 .. L /\ L + 1 # 0
    BY <1>3
  <2> QED  BY <1>5, <2>1, SeqLength
<1>7. NewResolved
  BY <1>1, <1>4, NothingNew
<1>8. PICK st, q : st = stack' /\ q = pos' /\ StandsHome(st, q)
  BY <1>1, InStepParts DEF StandsHome
<1>9. status' # "resolved"
  BY <1>1, <1>4
<1>10. Grown
  BY <1>1, <1>6 DEF Grown
<1>11. Added
  BY <1>1 DEF Added
<1>12. ClimbScoped'
  <2>1. /\ climb[1].var \in Seen(stack, Len(stack))
        /\ \E p \in 1 .. pos : Reached(p) /\ ScopeOf(stack, Len(stack)) = ScopeAt(p)
        /\ \A n \in 1 .. L - 1 : climb[1].var \notin locals[climb[n].fn]
    BY <1>4, InStepParts DEF ClimbScoped
  <2>2. PICK p \in 1 .. pos : Reached(p) /\ ScopeOf(stack, Len(stack)) = ScopeAt(p)
    BY <2>1
  <2>3. PICK s : s = stack' /\ s = stack
    BY <1>1
  <2>4. p \in 1 .. pos' /\ Reached(p)' /\ ScopeAt(p)' = ScopeOf(s, Len(s))
    BY <1>1, <2>2, <2>3, ReachedFixed, InStepParts
  <2>5. ASSUME NEW n \in 1 .. L PROVE climb'[1].var \notin locals'[climb'[n].fn]
    <3>1. CASE n = L
      <4>1. climb[1].var = Activation.var /\ climb'[n] = Activation
        <5>1. 1 \in 1 .. L /\ L \in 1 .. L
          BY <1>3
        <5> QED  BY <1>3, <1>5, <3>1, <5>1
      <4> QED  BY <1>1, <1>6, <4>1
    <3>2. CASE n # L
      <4>1. n \in 1 .. L - 1
        BY <1>3, <3>2
      <4> QED  BY <1>1, <1>5, <1>6, <2>1, <4>1
    <3> QED  BY <3>1, <3>2
  <2>6. Len(climb') - 1 = L
    BY <1>3, <1>5
  <2>7. climb'[1].var \in Seen(s, Len(s))
    BY <1>6, <2>1, <2>3
  <2> HIDE DEF L
  <2> QED  BY <2>3, <2>4, <2>5, <2>6, <2>7 DEF ClimbScoped
<1> QED  BY <1>1, <1>7, <1>8, <1>9, <1>10, <1>11, <1>12, NotResolved, InStepFrom

LEMMA StutterInStep ==
    ASSUME Inductive, InStep, UNCHANGED rvars
    PROVE  InStep'
<1>1. /\ UNCHANGED <<script, pos, stack, parent, locals, refs, climb, status>>
      /\ pos \in Nat
  BY InStepParts DEF rvars
<1>2. Grown /\ Added
  BY <1>1 DEF Grown, Added
<1>3. NewResolved
  BY <1>1, NothingNew
<1>4. PICK st, q : st = stack' /\ q = pos' /\ StandsHome(st, q)
  BY <1>1, InStepParts DEF StandsHome
<1>5. ClimbScoped'
  <2>1. script \in Seq(Nodes) /\ ClimbScoped
    BY InStepParts
  <2>2. PICK s, k : s = stack' /\ s = stack /\ k = Len(s)
    BY <1>1
  <2>3. ASSUME climb # <<>>
        PROVE  \E p \in 1 .. pos' : Reached(p)' /\ ScopeOf(s, k) = ScopeAt(p)'
    <3>1. PICK p \in 1 .. pos : Reached(p) /\ ScopeOf(s, k) = ScopeAt(p)
      BY <2>1, <2>2, <2>3 DEF ClimbScoped
    <3> QED  BY <1>1, <2>1, <3>1, ReachedFixed
  <2>4. climb # <<>> => climb[1].var \in Seen(s, k)
                        /\ \A n \in 1 .. Len(climb) - 1 : climb[1].var \notin locals[climb[n].fn]
    BY <2>1, <2>2 DEF ClimbScoped
  <2> QED  BY <1>1, <2>2, <2>3, <2>4 DEF ClimbScoped
<1>6. (status = "resolved" => Len(stack) = 1 /\ Todo = <<>> /\ climb = <<>>)'
  <2>1. Todo' = Todo
    BY <1>1 DEF Todo, TopFrame
  <2> QED  BY <1>1, <2>1 DEF InStep
<1> QED  BY <1>1, <1>2, <1>3, <1>4, <1>5, <1>6, InStepFrom

-----------------------------------------------------------------------------
Passing == status \in {"resolving", "resolved"}

(* Either pass begins at the toplevel.                                     *)
ToplevelChain == <<0>>

FirstStack == <<Frame(ToplevelChain, ToplevelTable, <<Expr>>)>>

LEMMA AtToplevel ==
    ASSUME script \in Seq(Nodes), NEW st, st = FirstStack
    PROVE  /\ st \in Stacks /\ Len(st) = 1
           /\ st[1].chain = ToplevelChain /\ st[1].todo = <<Expr>>
           /\ ScopeOf(st, 1) = Toplevel
           /\ StandsHome(st, 0)
<1> DEFINE fr == Frame(<<0>>, ToplevelTable, <<Expr>>)
<1>1. Len(st) = 1 /\ st[1] = fr /\ ToplevelChain = <<0>>
  BY DEF FirstStack, ToplevelChain
<1>2. fr.chain = <<0>> /\ fr.table = ToplevelTable /\ fr.todo = <<Expr>>
  BY DEF Frame
<1>3. st \in Stacks
  <2>1. <<0>> \in Seq(Nat) /\ <<0>> # <<>>
    OBVIOUS
  <2>2. <<Expr>> \in Seq(Tasks)
    BY ExprTask
  <2>3. fr \in AnyFrames
    BY <2>1, <2>2, ToplevelTableType, MakeFrame
  <2> HIDE DEF fr
  <2>4. <<fr>> \in Seq(AnyFrames) /\ <<fr>> # <<>>
    BY <2>3
  <2>5. st = <<fr>>
    BY DEF fr, FirstStack, ToplevelChain
  <2> QED  BY <2>4, <2>5 DEF Stacks
<1> HIDE DEF fr
<1>4. Seen(st, 1) = SeenIn(ToplevelTable)
  <2>1. \A j \in 1 .. 1 : j = 1
    OBVIOUS
  <2>2. 1 \in 1 .. 1
    OBVIOUS
  <2> QED  BY <1>1, <1>2, <2>1, <2>2 DEF Seen, SeenIn
<1>5. SeenIn(ToplevelTable) = Arguments(0, Inputs)
  <2>1. ParamNames(Inputs) \subseteq Names
    BY InputsAssumption, ParamNamesType
  <2>2. \A x \in Names : Global(x).kind # "var"
    BY DEF Global
  <2>3. \A x \in Names : IF x \in ParamNames(Inputs) THEN ToplevelTable[x] = Variable(0, 0, x)
                         ELSE ToplevelTable[x] = Global(x)
    BY DEF ToplevelTable, WithArguments
  <2>4. \A x : Variable(0, 0, x).kind = "var"
    BY DEF Variable
  <2> HIDE InputsAssumption
  <2>5. \A v : v \in SeenIn(ToplevelTable) <=> v \in Arguments(0, Inputs)
    BY <2>1, <2>2, <2>3, <2>4 DEF SeenIn, Arguments
  <2> QED  BY <2>5
<1>6. ScopeOf(st, 1) = Toplevel
  BY <1>1, <1>2, <1>4, <1>5 DEF ScopeOf, Toplevel
<1>7. Standing(st, Walk[0])
  <2>1. Walk[0] = <<Toplevel>>
    BY WalkType
  <2> DEFINE w == <<Toplevel>>  b == [i \in 0 .. 1 |-> i]
  <2>2. Len(w) = 1 /\ w[1] = Toplevel
    OBVIOUS
  <2> HIDE DEF w
  <2>3. <<Expr, 1, 0>> \in Positions(w, Toplevel)
    <3>1. /\ Expr \in Tasks /\ 1 \in Nat /\ 0 \in Nat /\ 1 = 0 + 1
          /\ Waits(Expr) /\ w[1] = Awaited(Toplevel, Expr)
      BY <2>2, ExprTask
    <3> QED  BY ONLY <3>1, PositionsIn
  <2>4. Threads(Positions(w, Toplevel), <<Expr>>, 1, 0)
    BY <2>3, ThreadOne
  <2>5. b \in [0 .. 1 -> Nat] /\ b[0] = 0 /\ b[1] = 1
        /\ \A i, j \in 0 .. 1 : i <= j => b[i] <= b[j]
    OBVIOUS
  <2> HIDE DEF b
  <2>6. \A i \in 1 .. 1 : i = 1 /\ i - 1 = 0
    OBVIOUS
  <2>7. \A i \in 1 .. 1 : Threads(Positions(w, ScopeOf(st, i)), st[i].todo, b[i], b[i - 1])
    BY <1>1, <1>2, <1>6, <2>4, <2>5, <2>6
  <2>8. Standing(st, w)
    BY <1>1, <2>2, <2>5, <2>7 DEF Standing
  <2> QED  BY <2>1, <2>8 DEF w
<1>8. HomeStack(st)
  <2>1. \A i \in 1 .. 1 : i = 1
    OBVIOUS
  <2>2. \A sc : \A k \in 1 .. Len(<<Expr>>) : AtHome(sc, <<Expr>>[k])
    BY ExprAtHome, SingletonSeq
  <2> QED  BY <1>1, <1>2, <2>1, <2>2 DEF HomeStack
<1> QED  BY <1>1, <1>2, <1>3, <1>6, <1>7, <1>8 DEF StandsHome

LEMMA InitInStep == ASSUME Init PROVE InStep
<1>1. script \in Seq(Nodes)
  BY InitInductive DEF Inductive, TypeOK
<1>2. /\ pos = 0 /\ stack = <<Frame(<<0>>, ToplevelTable, <<Expr>>)>>
      /\ locals = [f \in Funs |-> IF f = 0 THEN Arguments(0, Inputs) ELSE {}]
      /\ climb = <<>> /\ status = "resolving"
  BY DEF Init
<1>3. 0 \in Funs
  BY <1>1, LenProperties DEF Funs
<1>4. Standing(stack, Walk[pos]) /\ HomeStack(stack)
  BY <1>1, <1>2, AtToplevel DEF StandsHome, FirstStack, ToplevelChain
<1>5. Recorded
  <2>1. \A p \in 1 .. pos : FALSE
    BY <1>2
  <2>2. \A v \in Arguments(0, Inputs) : v.kind = "var" /\ v.fn = 0
    BY DEF Arguments, Variable
  <2>3. LocalsScoped
    BY <1>2, <2>2 DEF LocalsScoped, MayHold
  <2>4. \A v \in Arguments(0, Inputs) : v \in locals[0]
    BY <1>2, <1>3
  <2> QED  BY <2>1, <2>3, <2>4 DEF Recorded
<1> QED  BY <1>2, <1>4, <1>5 DEF InStep, ClimbScoped

LEMMA NextInStep ==
    ASSUME Inductive, Passing => InStep, [Next]_rvars
    PROVE  (Passing => InStep)'
<1> SUFFICES ASSUME Passing' PROVE InStep'
  OBVIOUS
<1>1. status' \in {"resolving", "resolved"}
  BY DEF Passing
<1>2. CASE UNCHANGED rvars
  <2>1. Passing
    BY <1>1, <1>2 DEF Passing, rvars
  <2> QED  BY <1>2, <2>1, StutterInStep
<1>3. CASE Next
  <2>1. status = "resolving"
    BY <1>3 DEF Next, ResolveOperands, ResolveVariable, ResolveReturn, ResolveLet,
                EnterLet, ResolveFunction, EnterBody, ResolveCall, ImportUpvalues,
                CloseFrame, ImportFound, ImportFromParent, Visiting, Working,
                Resolving, Importing
  <2>2. InStep
    BY <2>1 DEF Passing
  <2> QED  BY <1>1, <1>3, <2>2, OperandsInStep, VariableInStep, ReturnInStep, LetInStep,
              EnterLetInStep, FunctionInStep, EnterBodyInStep, CallInStep,
              ImportInStep, CloseInStep, FoundInStep, FromParentInStep DEF Next
<1> QED  BY <1>2, <1>3

(* What the first pass has recorded is what the scopes of the tree say: it *)
(* walks through these scopes, and no function gets a variable that was    *)
(* not declared around it (ASTNode::resolveVariables).                     *)
THEOREM ScopesRecorded == Spec => [](Passing => InStep)
<1>1. Init => (Passing => InStep)
  BY InitInStep
<1>2. Inductive /\ (Passing => InStep) /\ [Next]_rvars => (Passing => InStep)'
  BY NextInStep
<1> QED  BY <1>1, <1>2, Invariance, PTL DEF Spec

-----------------------------------------------------------------------------
(* Static scoping.  The subtrees of a node, by how many subtrees remain.   *)
LEMMA RemainingIs ==
    ASSUME NEW t \in Seq(Nodes)
    PROVE  /\ Remaining(t) \in [0 .. Len(t) -> Int]
           /\ Remaining(t)[0] = 1
           /\ \A p \in 1 .. Len(t) :
                 Remaining(t)[p] = Remaining(t)[p - 1] - 1 + Arity(t[p])
<1> DEFINE n == Len(t)  D == 0 .. n  r == Remaining(t)
           a == [p \in 1 .. n |-> Arity(t[p])]
           Is(f) == f = [p \in D |-> IF p = 0 THEN 1 ELSE f[p - 1] - 1 + Arity(t[p])]
           F == [p \in 0 + 1 .. n |-> [k \in Int |-> k - 1 + Arity(t[p])]]
<1>1. n \in Nat
  BY LenProperties
<1>2. \A p \in 1 .. n : Arity(t[p]) \in Nat
  BY ElementOfSeq, NodeFields
<1>3. r = CHOOSE f : Is(f)
  BY DEF Remaining
<1> HIDE DEF n, r
<1>4. 0 + 1 = 1 /\ 0 \in D /\ \A p \in 1 .. n : p \in D /\ p - 1 \in D /\ p # 0
  BY <1>1
<1>5. Steps(F, Int, 0, n)
  <2>1. \A p \in 1 .. n : F[p] \in [Int -> Int]
    <3> TAKE p \in 1 .. n
    <3>1. PICK k \in Nat : k = Arity(t[p])
      BY <1>2
    <3>2. F[p] = [j \in Int |-> j - 1 + k]
      BY <1>4, <3>1
    <3> QED  BY <3>2
  <2> QED  BY <1>4, <2>1 DEF Steps
<1>6. \A p \in 1 .. n : \A k \in Int : F[p][k] = k - 1 + Arity(t[p])
  BY <1>4
<1> HIDE DEF F
<1>7. 0 \in Nat /\ 0 <= n /\ 1 \in Int
  BY <1>1
<1>8. PICK f : Iterates(f, Int, 0, n, 1, F)
  BY <1>1, <1>5, <1>7, Iteration
<1>9. f \in [D -> Int] /\ f[0] = 1 /\ \A p \in 1 .. n : f[p] = F[p][f[p - 1]]
  BY <1>4, <1>8 DEF Iterates
<1>10. \A p \in 1 .. n : f[p] = f[p - 1] - 1 + Arity(t[p])
  BY <1>4, <1>6, <1>9
<1>11. ASSUME NEW p \in D
       PROVE  f[p] = IF p = 0 THEN 1 ELSE f[p - 1] - 1 + Arity(t[p])
  <2>1. p = 0 \/ p \in 1 .. n
    BY <1>1
  <2> QED  BY <1>4, <1>9, <1>10, <2>1
<1>12. Is(r)
  <2>1. Is(f)
    BY <1>9, <1>11
  <2> QED  BY <1>3, <2>1
<1>13. r[0] = 1 /\ \A p \in 1 .. n : r[p] = r[p - 1] - 1 + Arity(t[p])
  BY <1>4, <1>12
<1>14. \A p \in 0 .. n : r[p] = f[p]
  <2>1. Follows(r, f, 0, n)
    BY <1>4, <1>9, <1>10, <1>13 DEF Follows
  <2> QED  BY <1>1, <1>7, <2>1, SameIteration
<1>15. r \in [D -> Int]
  <2>1. r = [p \in D |-> IF p = 0 THEN 1 ELSE r[p - 1] - 1 + Arity(t[p])]
    BY <1>12
  <2>2. \A p \in D : r[p] \in Int
    BY <1>9, <1>14
  <2> QED  BY <2>1, <2>2
<1> QED  BY <1>13, <1>15 DEF n, r

\* From position p to position q the trees never number c or fewer.
Above(d, p, q, c) == \A s \in p .. q : d[s] > c

LEMMA UpToLast ==
    ASSUME NEW t \in Seq(Nodes), NEW p \in 0 .. Len(t), NEW k \in Int,
           NEW q \in p + 1 .. Len(t)
    PROVE  q <= LastOf(t, p, k)
               <=> Above(Remaining(t), p, q - 1, Remaining(t)[p] - k)
<1> DEFINE d == Remaining(t)  c == d[p] - k
           read == {s \in p .. Len(t) : d[s] <= c}
<1>1. Len(t) \in Nat /\ p \in Nat /\ q \in Nat
  BY LenProperties
<1>2. d \in [0 .. Len(t) -> Int] /\ d[p] \in Int
  BY RemainingIs
<1>3. LastOf(t, p, k) = IF read = {} THEN Len(t) ELSE Min(read)
  BY DEF LastOf
<1> HIDE DEF d
<1>4. c \in Int
  BY <1>2
<1> HIDE DEF c
<1>5. \A s \in p .. q - 1 : s \in p .. Len(t) /\ d[s] \in Int
  BY <1>1, <1>2
<1>6. CASE read = {}
  <2>1. q <= LastOf(t, p, k)
    BY <1>1, <1>3, <1>6
  <2>2. \A s \in p .. q - 1 : ~ (d[s] <= c)
    BY <1>5, <1>6
  <2> QED  BY <1>4, <1>5, <2>1, <2>2 DEF Above, c, d
<1>7. CASE read # {}
  <2>1. read \subseteq Nat
    BY <1>1
  <2>2. PICK m \in read : \A s \in read : m <= s
    BY <1>7, <2>1, LeastNumber
  <2>3. Min(read) \in read /\ \A s \in read : Min(read) <= s
    BY <2>2 DEF Min
  <2> DEFINE l == Min(read)
  <2>4. LastOf(t, p, k) = l
    BY <1>3, <1>7
  <2> HIDE DEF l
  <2>5. l \in p .. Len(t) /\ d[l] <= c /\ l \in Nat
    BY <1>1, <2>3 DEF l
  <2>6. ASSUME q <= l, NEW s \in p .. q - 1 PROVE d[s] > c
    <3>1. s \notin read
      BY <1>1, <2>3, <2>5, <2>6 DEF l
    <3> QED  BY <1>4, <1>5, <3>1
  <2>7. ASSUME ~ (q <= l) PROVE ~ Above(d, p, q - 1, c)
    <3>1. l \in p .. q - 1
      BY <1>1, <2>5, <2>7
    <3> QED  BY <1>4, <1>5, <2>5, <3>1 DEF Above
  <2> QED  BY <2>4, <2>6, <2>7 DEF Above, c, d
<1> QED  BY <1>6, <1>7

\* The subtree that waits at level k after r nodes is, or is in, the i-th
\* subtree of p; d is the list of levels.
PartOf(d, p, i, r, k) ==
    /\ Above(d, p, r, d[p] - i) /\ k > d[p] - i
    /\ k <= d[p] - i + 1 \/ ~ Above(d, p, r, d[p] - i + 1)

LEMMA SubtreeIs ==
    ASSUME NEW t \in Seq(Nodes), NEW p \in 1 .. Len(t), NEW i \in {1, 2},
           NEW q \in 1 .. Len(t)
    PROVE  q \in Subtree(t, p, i)
               <=> p < q /\ PartOf(Remaining(t), p, i, q - 1, Remaining(t)[q - 1])
<1> DEFINE d == Remaining(t)
<1>1. Len(t) \in Nat /\ p \in Nat /\ q \in Nat /\ q - 1 \in 0 .. Len(t)
  BY LenProperties
<1>2. d \in [0 .. Len(t) -> Int] /\ d[p] \in Int /\ d[q - 1] \in Int
  <2>1. d \in [0 .. Len(t) -> Int]
    BY RemainingIs
  <2>2. p \in 0 .. Len(t) /\ q - 1 \in 0 .. Len(t)
    BY <1>1
  <2> HIDE DEF d
  <2> QED  BY <2>1, <2>2
<1>3. \A j \in {0, 1, 2} : LastOf(t, p, j) \in p .. Len(t)
  <2> TAKE j \in {0, 1, 2}
  <2> DEFINE read == {s \in p .. Len(t) : d[s] <= d[p] - j}
  <2>1. LastOf(t, p, j) = IF read = {} THEN Len(t) ELSE Min(read)
    BY DEF LastOf
  <2>2. read \subseteq Nat
    BY <1>1
  <2>3. read # {} => \E m \in read : \A s \in read : m <= s
    BY <2>2, LeastNumber
  <2>4. read # {} => Min(read) \in read
    BY <2>3 DEF Min
  <2> HIDE DEF d
  <2>5. read # {} => Min(read) \in p .. Len(t)
    BY <2>4
  <2> HIDE DEF read
  <2> QED  BY <1>1, <2>1, <2>5
<1>4. CASE ~ (p < q)
  <2>1. i - 1 \in {0, 1, 2}
    OBVIOUS
  <2>2. PICK l \in p .. Len(t) : LastOf(t, p, i - 1) = l
    BY <1>3, <2>1
  <2> QED  BY <1>1, <1>4, <2>2 DEF Subtree
<1>5. CASE p < q
  <2>1. PICK l \in Nat : LastOf(t, p, i) = l
    BY <1>1, <1>3
  <2>2. PICK k \in Nat : LastOf(t, p, i - 1) = k
    <3>1. i - 1 \in {0, 1, 2}
      OBVIOUS
    <3> QED  BY <1>1, <1>3, <3>1
  <2>3. q \in Subtree(t, p, i) <=> q <= l /\ ~ (q <= k)
    BY <1>1, <2>1, <2>2 DEF Subtree
  <2>4. p \in 0 .. Len(t) /\ q \in p + 1 .. Len(t) /\ i \in Int /\ i - 1 \in Int
    BY <1>1, <1>5
  <2>5. q <= l <=> Above(d, p, q - 1, d[p] - i)
    BY <2>1, <2>4, UpToLast
  <2>6. q <= k <=> Above(d, p, q - 1, d[p] - (i - 1))
    BY <2>2, <2>4, UpToLast
  <2> HIDE DEF d
  <2>7. d[p] - (i - 1) = d[p] - i + 1
    BY <1>2, <2>4
  <2>8. q - 1 \in p .. q - 1
    BY <1>1, <1>5
  <2>9. Above(d, p, q - 1, d[p] - i) => d[q - 1] > d[p] - i
    BY <2>8 DEF Above
  <2>10. d[q - 1] <= d[p] - i + 1 => ~ Above(d, p, q - 1, d[p] - i + 1)
    <3>1. PICK a \in Int : a = d[q - 1]
      BY <1>2
    <3>2. PICK b \in Int : b = d[p] - i + 1
      BY <1>2, <2>4
    <3>3. a <= b => ~ (a > b)
      OBVIOUS
    <3> QED  BY <2>8, <3>1, <3>2, <3>3 DEF Above
  <2> QED  BY <1>5, <2>3, <2>5, <2>6, <2>7, <2>9, <2>10 DEF PartOf, d
<1> QED  BY <1>4, <1>5

(* When the next node q has been read, which has a subtrees, the subtrees  *)
(* below it are where they were, and its own are where it was.             *)
Level(k, n) == IF k < n THEN k ELSE n

NextUnder(d, q, r, i, k, n, a) ==
    /\ \A p \in 1 .. r : PartOf(d, p, i, q, k) <=> PartOf(d, p, i, r, Level(k, n))
    /\ PartOf(d, q, i, q, k) => IF k < n THEN i > a ELSE n + a - k = i
    /\ ~ (k < n) /\ n + a - k = i => PartOf(d, q, i, q, k)

LEMMA UnderNext ==
    ASSUME NEW d, NEW r \in Nat, NEW q \in Nat, q = r + 1,
           \A p \in 1 .. r : d[p] \in Int,
           NEW n \in Int, d[r] = n, NEW a \in Nat, d[q] = n - 1 + a,
           NEW i \in {1, 2}, NEW k \in 1 .. n - 1 + a
    PROVE  NextUnder(d, q, r, i, k, n, a)
<1> DEFINE l == n - 1 + a
<1>1. q \in Nat /\ d[q] = l /\ l \in Int /\ k \in Int /\ k <= l /\ i \in Int
  OBVIOUS
<1> HIDE DEF l
<1>2. ASSUME NEW p \in 1 .. r
      PROVE  PartOf(d, p, i, q, k) <=> PartOf(d, p, i, r, Level(k, n))
  <2>1. PICK c \in Int : c = d[p] - i
    <3>1. d[p] \in Int
      OBVIOUS
    <3> QED  BY <1>1, <3>1
  <2>2. \A s : s \in p .. q <=> s \in p .. r \/ s = q
    OBVIOUS
  <2>3. r \in p .. r
    OBVIOUS
  <2> DEFINE j == Level(k, n)
  <2>4. j \in Int /\ (k < n => j = k) /\ (~ (k < n) => j = n)
    BY <1>1 DEF Level
  <2> HIDE DEF j
  <2>5. Above(d, p, q, c) <=> Above(d, p, r, c) /\ l > c
    BY <1>1, <2>2 DEF Above
  <2>6. Above(d, p, q, c + 1) <=> Above(d, p, r, c + 1) /\ l > c + 1
    BY <1>1, <2>2 DEF Above
  <2>7. Above(d, p, r, c) => n > c
    BY <2>3 DEF Above
  <2>8. Above(d, p, r, c + 1) => n > c + 1
    BY <2>3 DEF Above
  <2>9. PartOf(d, p, i, q, k) <=>
          /\ Above(d, p, r, c) /\ l > c /\ k > c
          /\ k <= c + 1 \/ ~ (Above(d, p, r, c + 1) /\ l > c + 1)
    BY <2>1, <2>5, <2>6 DEF PartOf
  <2>10. PartOf(d, p, i, r, j) <=>
          /\ Above(d, p, r, c) /\ j > c
          /\ j <= c + 1 \/ ~ Above(d, p, r, c + 1)
    BY <2>1 DEF PartOf
  <2> QED  BY <1>1, <2>4, <2>7, <2>8, <2>9, <2>10 DEF j
<1>3. \A s : s \in q .. q <=> s = q
  OBVIOUS
<1>4. \A c \in Int : Above(d, q, q, c) <=> l > c
  BY <1>1, <1>3 DEF Above
<1>5. l - i \in Int /\ l - i + 1 \in Int
  BY <1>1
<1>6. PartOf(d, q, i, q, k) <=>
          /\ l > l - i /\ k > l - i
          /\ k <= l - i + 1 \/ ~ (l > l - i + 1)
  BY <1>1, <1>4, <1>5 DEF PartOf
<1> QED  BY <1>1, <1>2, <1>6 DEF NextUnder

-----------------------------------------------------------------------------
(* What names mean where the nodes A and B are those of whose first and    *)
(* second subtrees the place is part.                                      *)
VarBy(p, A, B, x) ==
    \/ script[p].op = "let" /\ script[p].name = x /\ p \in B
    \/ script[p].op = "fun" /\ x \in ParamNames(script[p].params) /\ p \in A

FunBy(p, A, B, x) ==
    script[p].op = "fun" /\ script[p].name = x /\ p \in A \cup B

DeclaredBy(A, B, x) ==
    {p \in DOMAIN script : VarBy(p, A, B, x) \/ FunBy(p, A, B, x)}

DeclaredAs(p, A, B, x) ==
    IF ~ VarBy(p, A, B, x) THEN Function(FunctionAt(script, p), p, x)
    ELSE IF script[p].op = "fun" THEN Variable(p, p, x)
    ELSE Variable(FunctionAt(script, p), p, x)

Meaning(A, B, x) ==
    IF DeclaredBy(A, B, x) = {} THEN ToplevelTable[x]
    ELSE DeclaredAs(Max(DeclaredBy(A, B, x)), A, B, x)

FunsAround(A) == {0} \cup {f \in A : script[f].op = "fun"}

\* The scope sc is what the language says about such a place.
Agrees(sc, A, B) ==
    /\ \A x \in Names : sc.table[x] = Meaning(A, B, x)
    /\ \A f : (\E n \in 1 .. Len(sc.chain) : sc.chain[n] = f) <=> f \in FunsAround(A)
    /\ Innermost(sc) = Max(FunsAround(A))

\* Node q joins the nodes around.
Joins(A, B, C, D, q) ==
    /\ A \subseteq 1 .. q - 1 /\ B \subseteq 1 .. q - 1
    /\ C \in {A, A \cup {q}} /\ D \in {B, B \cup {q}}

LEMMA MaxIs ==
    ASSUME NEW S, NEW m \in S, S \subseteq Int, \A s \in S : s <= m
    PROVE  Max(S) = m
<1>1. \A s \in S : m >= s
  OBVIOUS
<1>2. Max(S) \in S /\ \A s \in S : Max(S) >= s
  BY <1>1 DEF Max
<1> DEFINE l == Max(S)
<1> HIDE DEF l
<1>3. l \in Int /\ m \in Int /\ l <= m /\ l >= m
  BY <1>2 DEF l
<1>4. l = m
  BY <1>3
<1> QED  BY <1>4 DEF l

LEMMA JoinsKept ==
    ASSUME script \in Seq(Nodes), NEW q \in 1 .. Len(script),
           NEW A, NEW B, NEW C, NEW D, Joins(A, B, C, D, q)
    PROVE  /\ \A p : p # q => (p \in C <=> p \in A) /\ (p \in D <=> p \in B)
           /\ \A p : p \in A \cup B => p \in 1 .. q - 1 /\ p # q
           /\ q \in Int /\ q > 0
<1>1. q \in Int /\ q > 0
  BY NodeAt
<1>2. \A p : p \in A \cup B => p \in 1 .. q - 1
  BY DEF Joins
<1>3. \A p : p \in 1 .. q - 1 => p # q
  BY <1>1
<1>4. \A p : p # q => (p \in C <=> p \in A) /\ (p \in D <=> p \in B)
  BY DEF Joins
<1> QED  BY <1>1, <1>2, <1>3, <1>4

LEMMA MeaningKept ==
    ASSUME script \in Seq(Nodes), NEW q \in 1 .. Len(script), NEW x,
           NEW A, NEW B, NEW C, NEW D, Joins(A, B, C, D, q),
           ~ VarBy(q, C, D, x), ~ FunBy(q, C, D, x)
    PROVE  Meaning(C, D, x) = Meaning(A, B, x)
<1>1. /\ \A p : p # q => (p \in C <=> p \in A) /\ (p \in D <=> p \in B)
      /\ q \notin A \cup B
  BY JoinsKept
<1>2. \A p : VarBy(p, C, D, x) <=> VarBy(p, A, B, x)
  <2> TAKE p
  <2>1. CASE p = q
    BY <1>1, <2>1 DEF VarBy
  <2>2. CASE p # q
    BY <1>1, <2>2 DEF VarBy
  <2> QED  BY <2>1, <2>2
<1>3. \A p : FunBy(p, C, D, x) <=> FunBy(p, A, B, x)
  <2> TAKE p
  <2>1. CASE p = q
    BY <1>1, <2>1 DEF FunBy
  <2>2. CASE p # q
    BY <1>1, <2>2 DEF FunBy
  <2> QED  BY <2>1, <2>2
<1>4. DeclaredBy(C, D, x) = DeclaredBy(A, B, x)
  BY <1>2, <1>3 DEF DeclaredBy
<1>5. \A p : DeclaredAs(p, C, D, x) = DeclaredAs(p, A, B, x)
  BY <1>2 DEF DeclaredAs
<1> QED  BY <1>4, <1>5 DEF Meaning

LEMMA MeaningNew ==
    ASSUME script \in Seq(Nodes), NEW q \in 1 .. Len(script), NEW x,
           NEW A, NEW B, NEW C, NEW D, Joins(A, B, C, D, q),
           VarBy(q, C, D, x) \/ FunBy(q, C, D, x)
    PROVE  Meaning(C, D, x) = DeclaredAs(q, C, D, x)
<1> DEFINE S == DeclaredBy(C, D, x)
<1>1. /\ \A p : p # q => (p \in C <=> p \in A) /\ (p \in D <=> p \in B)
      /\ \A p : p \in A \cup B => p \in 1 .. q - 1
      /\ q \in Int
  BY JoinsKept
<1>2. DOMAIN script = 1 .. Len(script) /\ Len(script) \in Nat
  BY LenProperties
<1>3. q \in S /\ S # {}
  BY <1>2 DEF DeclaredBy
<1>4. ASSUME NEW p \in S PROVE p \in Int /\ p <= q
  <2>1. p \in C \cup D /\ p \in 1 .. Len(script)
    BY <1>2 DEF DeclaredBy, VarBy, FunBy
  <2>2. p = q \/ p \in 1 .. q - 1
    BY <1>1, <2>1
  <2> QED  BY <1>1, <1>2, <2>1, <2>2
<1> HIDE DEF S
<1>5. Max(S) = q
  BY <1>3, <1>4, MaxIs
<1> QED  BY <1>3, <1>5 DEF Meaning, S

LEMMA FunsKept ==
    ASSUME script \in Seq(Nodes), NEW q \in 1 .. Len(script),
           NEW A, NEW B, NEW C, NEW D, Joins(A, B, C, D, q),
           q \notin C \/ script[q].op # "fun"
    PROVE  FunsAround(C) = FunsAround(A)
<1>1. /\ \A p : p # q => (p \in C <=> p \in A) /\ (p \in D <=> p \in B)
      /\ q \notin A \cup B
  BY JoinsKept
<1>2. \A p : p \in C /\ script[p].op = "fun" <=> p \in A /\ script[p].op = "fun"
  <2> TAKE p
  <2>1. CASE p = q
    BY <1>1, <2>1
  <2>2. CASE p # q
    BY <1>1, <2>2
  <2> QED  BY <2>1, <2>2
<1> QED  BY <1>2 DEF FunsAround

LEMMA FunsNew ==
    ASSUME script \in Seq(Nodes), NEW q \in 1 .. Len(script),
           NEW A, NEW B, NEW C, NEW D, Joins(A, B, C, D, q),
           q \in C, script[q].op = "fun"
    PROVE  FunsAround(C) = FunsAround(A) \cup {q} /\ Max(FunsAround(C)) = q
<1>1. /\ \A p : p # q => (p \in C <=> p \in A) /\ (p \in D <=> p \in B)
      /\ \A p : p \in A \cup B => p \in 1 .. q - 1
      /\ q \in Int /\ q > 0
  BY JoinsKept
<1>2. C = A \cup {q}
  BY <1>1
<1>3. FunsAround(C) = FunsAround(A) \cup {q}
  BY <1>2 DEF FunsAround
<1>4. \A p \in FunsAround(C) : p = 0 \/ p = q \/ p \in 1 .. q - 1
  BY <1>1, <1>3 DEF FunsAround
<1>5. \A p \in FunsAround(C) : p \in Int /\ p <= q
  BY <1>1, <1>4
<1>6. q \in FunsAround(C)
  BY <1>3
<1>7. FunsAround(C) \subseteq Int
  BY <1>5
<1> QED  BY <1>3, <1>5, <1>6, <1>7, MaxIs

(* The scopes of the subtrees of a node are those that the language says.  *)
LEMMA SameAgrees ==
    ASSUME script \in Seq(Nodes), NEW q \in 1 .. Len(script), NEW sc,
           NEW A, NEW B, NEW C, NEW D, Joins(A, B, C, D, q), Agrees(sc, A, B),
           script[q].op = "let" => q \notin D,
           script[q].op = "fun" => q \notin C /\ q \notin D
    PROVE  Agrees(sc, C, D)
<1>1. \A x : ~ VarBy(q, C, D, x) /\ ~ FunBy(q, C, D, x)
  BY DEF VarBy, FunBy
<1>2. \A x : Meaning(C, D, x) = Meaning(A, B, x)
  BY <1>1, MeaningKept
<1>3. FunsAround(C) = FunsAround(A)
  BY FunsKept
<1> QED  BY <1>2, <1>3 DEF Agrees

LEMMA LetAgrees ==
    ASSUME script \in Seq(Nodes), NEW q \in 1 .. Len(script), NEW sc \in Scopes,
           NEW A, NEW B, NEW C, NEW D, Joins(A, B, C, D, q), Agrees(sc, A, B),
           script[q].op = "let", q \in D, FunctionAt(script, q) = Innermost(sc)
    PROVE  Agrees(LetScope(sc, q), C, D)
<1> DEFINE v == Variable(Innermost(sc), q, script[q].name)  l == LetScope(sc, q)
<1>1. /\ l.chain = sc.chain /\ l.table = WithSymbol(sc.table, v)
  BY ScopeFields DEF LetScope
<1>2. FunsAround(C) = FunsAround(A)
  BY FunsKept
<1>3. v.name = script[q].name /\ sc.table \in Tables
  BY ScopeType DEF Variable
<1>4. ASSUME NEW x \in Names PROVE l.table[x] = Meaning(C, D, x)
  <2>1. CASE x = script[q].name
    <3>1. VarBy(q, C, D, x)
      BY <2>1 DEF VarBy
    <3>2. Meaning(C, D, x) = DeclaredAs(q, C, D, x)
      BY <3>1, MeaningNew
    <3>3. DeclaredAs(q, C, D, x) = v
      BY <2>1, <3>1 DEF DeclaredAs
    <3>4. l.table[x] = v
      BY <1>1, <1>3, <2>1 DEF WithSymbol, Tables
    <3> QED  BY <3>2, <3>3, <3>4
  <2>2. CASE x # script[q].name
    <3>1. ~ VarBy(q, C, D, x) /\ ~ FunBy(q, C, D, x)
      BY <2>2 DEF VarBy, FunBy
    <3>2. Meaning(C, D, x) = Meaning(A, B, x)
      BY <3>1, MeaningKept
    <3>3. l.table[x] = sc.table[x]
      BY <1>1, <1>3, <2>2 DEF WithSymbol, Tables
    <3> QED  BY <3>2, <3>3 DEF Agrees
  <2> QED  BY <2>1, <2>2
<1>5. Innermost(l) = Innermost(sc)
  BY <1>1 DEF Innermost
<1> QED  BY <1>1, <1>2, <1>4, <1>5 DEF Agrees

LEMMA NamedAgrees ==
    ASSUME script \in Seq(Nodes), NEW q \in 1 .. Len(script), NEW sc \in Scopes,
           NEW A, NEW B, NEW C, NEW D, Joins(A, B, C, D, q), Agrees(sc, A, B),
           script[q].op = "fun", q \in D, q \notin C,
           FunctionAt(script, q) = Innermost(sc)
    PROVE  Agrees(NamedScope(sc, q), C, D)
<1> DEFINE s == Function(Innermost(sc), q, script[q].name)  l == NamedScope(sc, q)
<1>1. /\ l.chain = sc.chain /\ l.table = WithSymbol(sc.table, s)
  BY ScopeFields DEF NamedScope
<1>2. FunsAround(C) = FunsAround(A)
  BY FunsKept
<1>3. s.name = script[q].name /\ sc.table \in Tables
  BY ScopeType DEF Function
<1>4. \A x : ~ VarBy(q, C, D, x)
  BY DEF VarBy
<1>5. ASSUME NEW x \in Names PROVE l.table[x] = Meaning(C, D, x)
  <2>1. CASE x = script[q].name
    <3>1. FunBy(q, C, D, x)
      BY <2>1 DEF FunBy
    <3>2. Meaning(C, D, x) = DeclaredAs(q, C, D, x)
      BY <3>1, MeaningNew
    <3>3. DeclaredAs(q, C, D, x) = s
      BY <1>4, <2>1 DEF DeclaredAs
    <3>4. l.table[x] = s
      BY <1>1, <1>3, <2>1 DEF WithSymbol, Tables
    <3> QED  BY <3>2, <3>3, <3>4
  <2>2. CASE x # script[q].name
    <3>1. ~ VarBy(q, C, D, x) /\ ~ FunBy(q, C, D, x)
      BY <1>4, <2>2 DEF FunBy
    <3>2. Meaning(C, D, x) = Meaning(A, B, x)
      BY <3>1, MeaningKept
    <3>3. l.table[x] = sc.table[x]
      BY <1>1, <1>3, <2>2 DEF WithSymbol, Tables
    <3> QED  BY <3>2, <3>3 DEF Agrees
  <2> QED  BY <2>1, <2>2
<1>6. Innermost(l) = Innermost(sc)
  BY <1>1 DEF Innermost
<1> QED  BY <1>1, <1>2, <1>5, <1>6 DEF Agrees

LEMMA BodyAgrees ==
    ASSUME script \in Seq(Nodes), NEW q \in 1 .. Len(script), NEW sc \in Scopes,
           NEW A, NEW B, NEW C, NEW D, Joins(A, B, C, D, q), Agrees(sc, A, B),
           script[q].op = "fun", q \in C, q \notin D,
           FunctionAt(script, q) = Innermost(sc)
    PROVE  Agrees(BodyScope(NamedScope(sc, q), q), C, D)
<1> DEFINE s == Function(Innermost(sc), q, script[q].name)  m == NamedScope(sc, q)
           b == BodyScope(m, q)  ps == script[q].params  c == sc.chain
<1>1. m.chain = c /\ m.table = WithSymbol(sc.table, s)
  BY ScopeFields DEF NamedScope
<1>2. b.chain = Append(m.chain, q) /\ b.table = WithArguments(m.table, q, ps)
  <2> DEFINE as == Arguments(q, ps)
  <2> HIDE DEF m
  <2>1. b = Scope(Append(m.chain, q), WithArguments(m.table, q, ps), m.seen \cup as)
    BY DEF BodyScope
  <2> HIDE DEF b, as, ps
  <2> QED  BY <2>1 DEF Scope
<1>3. FunsAround(C) = FunsAround(A) \cup {q} /\ Max(FunsAround(C)) = q
  BY FunsNew
<1>4. s.name = script[q].name /\ sc.table \in Tables
  BY ScopeType DEF Function
<1>5. ASSUME NEW x \in Names PROVE b.table[x] = Meaning(C, D, x)
  <2>1. CASE x \in ParamNames(ps)
    <3>1. VarBy(q, C, D, x)
      BY <2>1 DEF VarBy
    <3>2. Meaning(C, D, x) = DeclaredAs(q, C, D, x)
      BY <3>1, MeaningNew
    <3>3. DeclaredAs(q, C, D, x) = Variable(q, q, x)
      BY <3>1 DEF DeclaredAs
    <3>4. b.table[x] = Variable(q, q, x)
      BY <1>2, <2>1 DEF WithArguments
    <3> QED  BY <3>2, <3>3, <3>4
  <2>2. CASE x \notin ParamNames(ps) /\ x = script[q].name
    <3>1. ~ VarBy(q, C, D, x) /\ FunBy(q, C, D, x)
      BY <2>2 DEF FunBy, VarBy
    <3>2. Meaning(C, D, x) = DeclaredAs(q, C, D, x)
      BY <3>1, MeaningNew
    <3>3. DeclaredAs(q, C, D, x) = s
      BY <2>2, <3>1 DEF DeclaredAs
    <3>4. b.table[x] = m.table[x]
      BY <1>2, <2>2 DEF WithArguments
    <3>5. m.table[x] = s
      BY <1>1, <1>4, <2>2 DEF WithSymbol, Tables
    <3> QED  BY <3>2, <3>3, <3>4, <3>5
  <2>3. CASE x \notin ParamNames(ps) /\ x # script[q].name
    <3>1. ~ VarBy(q, C, D, x) /\ ~ FunBy(q, C, D, x)
      BY <2>3 DEF FunBy, VarBy
    <3>2. Meaning(C, D, x) = Meaning(A, B, x)
      BY <3>1, MeaningKept
    <3>3. b.table[x] = m.table[x]
      BY <1>2, <2>3 DEF WithArguments
    <3>4. m.table[x] = sc.table[x]
      BY <1>1, <1>4, <2>3 DEF WithSymbol, Tables
    <3> QED  BY <3>2, <3>3, <3>4 DEF Agrees
  <2> QED  BY <2>1, <2>2, <2>3
<1>6. c \in Seq(Nat) /\ Len(c) \in Nat
  BY ScopeType
<1>7. b.chain = Append(c, q)
  BY <1>1, <1>2
<1>8. ASSUME NEW f
      PROVE  (\E n \in 1 .. Len(b.chain) : b.chain[n] = f) <=> f \in FunsAround(C)
  <2>1. (\E n \in 1 .. Len(c) : c[n] = f) <=> f \in FunsAround(A)
    BY DEF Agrees
  <2> DEFINE d == b.chain
  <2> HIDE DEF b, c
  <2>2. /\ Len(d) = Len(c) + 1 /\ d[Len(c) + 1] = q
        /\ \A n \in 1 .. Len(c) : d[n] = c[n]
    BY <1>6, <1>7
  <2> HIDE DEF d
  <2>3. \A n : n \in 1 .. Len(d) <=> n \in 1 .. Len(c) \/ n = Len(c) + 1
    BY <1>6, <2>2
  <2>4. (\E n \in 1 .. Len(d) : d[n] = f) <=> (\E n \in 1 .. Len(c) : c[n] = f) \/ f = q
    BY <2>2, <2>3
  <2> QED  BY <1>3, <2>1, <2>4 DEF d
<1>9. Innermost(b) = q
  <2> HIDE DEF b, c
  <2> QED  BY <1>6, <1>7 DEF Innermost
<1> QED  BY <1>3, <1>5, <1>8, <1>9 DEF Agrees

LEMMA SubscopeAgrees ==
    ASSUME script \in Seq(Nodes), NEW q \in 1 .. Len(script), NEW sc \in Scopes,
           NEW A, NEW B, NEW C, NEW D, Joins(A, B, C, D, q), Agrees(sc, A, B),
           FunctionAt(script, q) = Innermost(sc), NEW i \in 1 .. Arity(script[q]),
           q \in C <=> i = 1, q \in D <=> i = 2
    PROVE  Agrees(Subscopes(sc, q)[i], C, D)
<1>1. CASE script[q].op = "let"
  <2> DEFINE l == LetScope(sc, q)
  <2>1. Subscopes(sc, q) = <<sc, l>> /\ Arity(script[q]) = 2
    BY <1>1 DEF Subscopes, Arity
  <2>2. i = 1 \/ i = 2
    BY <2>1
  <2>3. i = 1 => Agrees(sc, C, D)
    BY <1>1, SameAgrees
  <2>4. i = 2 => Agrees(l, C, D)
    BY <1>1, LetAgrees
  <2> HIDE DEF l
  <2>5. (i = 1 => Subscopes(sc, q)[i] = sc) /\ (i = 2 => Subscopes(sc, q)[i] = l)
    BY <2>1
  <2> QED  BY <2>2, <2>3, <2>4, <2>5
<1>2. CASE script[q].op = "fun"
  <2> DEFINE m == NamedScope(sc, q)  b == BodyScope(m, q)
  <2>1. Subscopes(sc, q) = <<b, m>> /\ Arity(script[q]) = 2
    BY <1>2 DEF Subscopes, Arity
  <2>2. i = 1 \/ i = 2
    BY <2>1
  <2>3. i = 1 => Agrees(b, C, D)
    BY <1>2, BodyAgrees
  <2>4. i = 2 => Agrees(m, C, D)
    BY <1>2, NamedAgrees
  <2> HIDE DEF m, b
  <2>5. (i = 1 => Subscopes(sc, q)[i] = b) /\ (i = 2 => Subscopes(sc, q)[i] = m)
    BY <2>1
  <2> QED  BY <2>2, <2>3, <2>4, <2>5
<1>3. CASE script[q].op \notin {"let", "fun"}
  <2>1. Subscopes(sc, q)[i] = sc
    BY <1>3, SubscopesType
  <2>2. Agrees(sc, C, D)
    BY <1>3, SameAgrees
  <2> QED  BY <2>1, <2>2
<1> QED  BY <1>1, <1>2, <1>3

\* The nodes of whose subtrees the one at level k after r nodes is part.
Firsts(r, k) == {p \in 1 .. r : PartOf(Remaining(script), p, 1, r, k)}
Seconds(r, k) == {p \in 1 .. r : PartOf(Remaining(script), p, 2, r, k)}

JoinedNext(q, n, a, k) ==
    LET j == Level(k, n)  C == Firsts(q, k)  D == Seconds(q, k) IN
    /\ Joins(Firsts(q - 1, j), Seconds(q - 1, j), C, D, q)
    /\ k < n => (q \in C => 1 > a) /\ (q \in D => 2 > a)
    /\ ~ (k < n) => (q \in C <=> n + a - k = 1) /\ (q \in D <=> n + a - k = 2)

LEMMA JoinsNext ==
    ASSUME script \in Seq(Nodes), NEW q \in 1 .. Len(script), NEW n \in Nat,
           Remaining(script)[q - 1] = n, NEW a \in Nat, a = Arity(script[q]),
           NEW k \in 1 .. n - 1 + a
    PROVE  JoinedNext(q, n, a, k)
<1> DEFINE d == Remaining(script)  m == Len(script)  r == q - 1  j == Level(k, n)
           l == n - 1 + a
<1>1. /\ m \in Nat /\ d \in [0 .. m -> Int] /\ q \in Nat
      /\ d[q] = d[q - 1] - 1 + a
  BY NodeAt, RemainingIs
<1>2. /\ r \in Nat /\ q <= m /\ q = r + 1 /\ 1 \in {1, 2} /\ 2 \in {1, 2}
      /\ n \in Int /\ l \in Int
  BY <1>1
<1>3. d[r] = n /\ d[q] = l
  BY <1>1, <1>2
<1>4. \A i \in {1, 2} : NextUnder(d, q, r, i, k, n, a)
  <2> TAKE i \in {1, 2}
  <2>1. k \in 1 .. l /\ l = n - 1 + a /\ a \in Nat /\ i \in {1, 2}
    OBVIOUS
  <2> HIDE DEF d, m, r, j, l
  <2>2. \A p \in 1 .. r : d[p] \in Int
    <3>1. \A p \in 1 .. r : p \in 0 .. m
      BY <1>1, <1>2
    <3> QED  BY <1>1, <3>1
  <2>3. r \in Nat /\ q \in Nat /\ q = r + 1 /\ n \in Int
    BY <1>1, <1>2
  <2> QED  BY ONLY <1>3, <2>1, <2>2, <2>3, UnderNext
<1> HIDE DEF d, m, r, j, l
<1>5. \A p : p \in 1 .. q <=> p \in 1 .. r \/ p = q
  BY ONLY <1>2
<1>6. q \notin 1 .. r /\ q \in 1 .. q
  BY <1>1, <1>2
<1>7. ASSUME NEW i \in {1, 2}
      PROVE  /\ {p \in 1 .. q : PartOf(d, p, i, q, k)}
                  \in {{p \in 1 .. r : PartOf(d, p, i, r, j)},
                       {p \in 1 .. r : PartOf(d, p, i, r, j)} \cup {q}}
             /\ q \in {p \in 1 .. q : PartOf(d, p, i, q, k)} <=> PartOf(d, q, i, q, k)
  <2> DEFINE X == {p \in 1 .. q : PartOf(d, p, i, q, k)}
             Y == {p \in 1 .. r : PartOf(d, p, i, r, j)}
  <2>1. q \in X <=> PartOf(d, q, i, q, k)
    BY <1>6
  <2>2. \A p \in 1 .. r : p \in X <=> p \in Y
    BY <1>4, <1>5 DEF NextUnder, j
  <2>3. \A p : p \in X => p \in 1 .. r \/ p = q
    BY <1>5
  <2>4. Y \subseteq 1 .. r
    OBVIOUS
  <2> HIDE DEF X, Y
  <2>5. X = Y \/ X = Y \cup {q}
    BY <2>2, <2>3, <2>4
  <2> QED  BY <2>1, <2>5 DEF X, Y
<1>8. /\ Firsts(q, k) = {p \in 1 .. q : PartOf(d, p, 1, q, k)}
      /\ Seconds(q, k) = {p \in 1 .. q : PartOf(d, p, 2, q, k)}
      /\ Firsts(q - 1, j) = {p \in 1 .. r : PartOf(d, p, 1, r, j)}
      /\ Seconds(q - 1, j) = {p \in 1 .. r : PartOf(d, p, 2, r, j)}
  BY DEF Firsts, Seconds, d, r
<1>9. Firsts(q - 1, j) \subseteq 1 .. q - 1 /\ Seconds(q - 1, j) \subseteq 1 .. q - 1
  BY DEF Firsts, Seconds
<1>10. Joins(Firsts(q - 1, j), Seconds(q - 1, j), Firsts(q, k), Seconds(q, k), q)
  BY <1>2, <1>7, <1>8, <1>9 DEF Joins
<1>11. /\ q \in Firsts(q, k) <=> PartOf(d, q, 1, q, k)
       /\ q \in Seconds(q, k) <=> PartOf(d, q, 2, q, k)
  BY <1>2, <1>7, <1>8
<1> QED  BY <1>2, <1>4, <1>10, <1>11 DEF JoinedNext, NextUnder, j

LEMMA VisitAgrees ==
    ASSUME script \in Seq(Nodes), NEW q \in 1 .. Len(script),
           NEW w \in Seq(Scopes), w # <<>>, Remaining(script)[q - 1] = Len(w),
           \A k \in 1 .. Len(w) : Agrees(w[k], Firsts(q - 1, k), Seconds(q - 1, k)),
           FunctionAt(script, q) = Innermost(w[Len(w)])
    PROVE  /\ Remaining(script)[q] = Len(Visit(w, q))
           /\ \A k \in 1 .. Len(Visit(w, q)) :
                 Agrees(Visit(w, q)[k], Firsts(q, k), Seconds(q, k))
<1> DEFINE n == Len(w)  a == Arity(script[q])  s == Subscopes(w[n], q)
           v == Visit(w, q)
<1>1. /\ n \in 1 .. n /\ a \in Nat /\ w[n] \in Scopes
      /\ Len(v) = n - 1 + a
      /\ \A k \in 1 .. n - 1 : v[k] = w[k]
      /\ \A i \in 1 .. a : v[n + a - i] = s[i]
  BY VisitStep
<1>2. Remaining(script)[q] = Len(v)
  BY <1>1, RemainingIs
<1>3. n \in Nat
  BY <1>1
<1>4. script[q].op \in {"let", "fun"} => a = 2
  BY DEF Arity
<1> HIDE DEF n, a, v, s
<1>5. a = Arity(script[q]) /\ Remaining(script)[q - 1] = n
  BY DEF a, n
<1>6. \A k \in 1 .. n - 1 + a : JoinedNext(q, n, a, k)
  BY <1>1, <1>3, <1>5, JoinsNext
<1>7. ASSUME NEW k \in 1 .. n - 1 + a PROVE Agrees(v[k], Firsts(q, k), Seconds(q, k))
  <2> DEFINE C == Firsts(q, k)  D == Seconds(q, k)
  <2>1. CASE k < n
    <3> DEFINE A == Firsts(q - 1, k)  B == Seconds(q - 1, k)
    <3>0. JoinedNext(q, n, a, k) /\ Level(k, n) = k
      BY <1>6, <2>1 DEF Level
    <3>1. /\ Joins(A, B, C, D, q)
          /\ q \in C => 1 > a
          /\ q \in D => 2 > a
      BY ONLY <2>1, <3>0 DEF JoinedNext
    <3>2. k \in 1 .. n /\ v[k] = w[k]
      BY <1>1, <1>3, <2>1
    <3>3. Agrees(w[k], A, B)
      BY <3>2 DEF n
    <3>4. script[q].op \in {"let", "fun"} => q \notin C /\ q \notin D
      BY <1>4, <3>1
    <3> HIDE DEF A, B, C, D
    <3>5. Agrees(w[k], C, D)
      BY <3>1, <3>3, <3>4, SameAgrees
    <3> QED  BY <3>2, <3>5 DEF C, D
  <2>2. CASE ~ (k < n)
    <3> DEFINE A == Firsts(q - 1, n)  B == Seconds(q - 1, n)  i == n + a - k
    <3>0. JoinedNext(q, n, a, k) /\ Level(k, n) = n
      BY <1>6, <2>2 DEF Level
    <3> HIDE DEF C, D
    <3>1. /\ Joins(A, B, C, D, q)
          /\ (q \in C <=> n + a - k = 1) /\ (q \in D <=> n + a - k = 2)
      BY ONLY <2>2, <3>0, Zenon DEF JoinedNext, C, D
    <3>2. i \in 1 .. a /\ n + a - i = k
      <4>1. k \in 1 .. n - 1 + a /\ n \in Nat /\ a \in Nat
        BY <1>1, <1>3
      <4> QED  BY ONLY <2>2, <4>1
    <3>3. Agrees(w[n], A, B)
      BY <1>1 DEF n
    <3> HIDE DEF A, B, C, D, i
    <3>4. v[k] = s[i]
      BY <1>1, <3>2
    <3>5. (q \in C <=> i = 1) /\ (q \in D <=> i = 2)
      BY ONLY <3>1 DEF i
    <3>6. w[n] \in Scopes /\ FunctionAt(script, q) = Innermost(w[n])
      BY <1>1 DEF n
    <3>7. i \in 1 .. Arity(script[q])
      BY <3>2 DEF a
    <3>8. Agrees(Subscopes(w[n], q)[i], C, D)
      BY <3>1, <3>3, <3>5, <3>6, <3>7, SubscopeAgrees
    <3> QED  BY <3>4, <3>8 DEF C, D, s, n
  <2> QED  BY <2>1, <2>2
<1>8. Len(v) = n - 1 + a
  BY <1>1
<1> QED  BY <1>2, <1>7, <1>8 DEF v

LEMMA GreatestNumber ==
    ASSUME NEW n \in Nat, NEW S, S \subseteq 0 .. n, S # {}
    PROVE  \E y \in S : \A z \in S : y >= z
<1> DEFINE T == {n - s : s \in S}
<1>1. T \subseteq Nat /\ T # {}
  <2>1. \A s \in S : s \in 0 .. n
    OBVIOUS
  <2>2. \A s \in 0 .. n : n - s \in Nat
    BY ONLY n \in Nat
  <2> QED  BY <2>1, <2>2, Zenon
<1>2. PICK u \in T : \A t \in T : u <= t
  BY <1>1, LeastNumber
<1>3. PICK y \in S : u = n - y
  BY <1>2
<1>4. ASSUME NEW z \in S PROVE y >= z
  <2>1. n - z \in T /\ y \in 0 .. n /\ z \in 0 .. n
    OBVIOUS
  <2>2. n - y <= n - z
    BY <1>2, <1>3, <2>1
  <2> HIDE DEF T
  <2> QED  BY <2>1, <2>2
<1> QED  BY <1>4

(* The definitions of StaticScope, at the node after the first q - 1.      *)
LEMMA SubtreesAt ==
    ASSUME script \in Seq(Nodes), NEW q \in 1 .. Len(script), NEW p \in DOMAIN script
    PROVE  LET k == Remaining(script)[q - 1] IN
           /\ q \in Subtree(script, p, 1) <=> p \in Firsts(q - 1, k)
           /\ q \in Subtree(script, p, 2) <=> p \in Seconds(q - 1, k)
<1>1. /\ p \in 1 .. Len(script) /\ 1 \in {1, 2} /\ 2 \in {1, 2}
      /\ p < q <=> p \in 1 .. q - 1
  BY LenProperties
<1> QED  BY <1>1, SubtreeIs DEF Firsts, Seconds

LEMMA DenotesMeaning ==
    ASSUME script \in Seq(Nodes), NEW q \in 1 .. Len(script)
    PROVE  LET k == Remaining(script)[q - 1]
               A == Firsts(q - 1, k)  B == Seconds(q - 1, k)
           IN  /\ EnclosingFuns(script, q) = FunsAround(A)
               /\ FunctionAt(script, q) = Max(FunsAround(A))
               /\ \A x : Denotes(script, q, x) = Meaning(A, B, x)
<1> DEFINE k == Remaining(script)[q - 1]  A == Firsts(q - 1, k)  B == Seconds(q - 1, k)
<1>1. \A p \in DOMAIN script : /\ q \in Subtree(script, p, 1) <=> p \in A
                               /\ q \in Subtree(script, p, 2) <=> p \in B
  BY SubtreesAt
<1>2. DOMAIN script = 1 .. Len(script) /\ A \subseteq 1 .. q - 1 /\ 0 \notin DOMAIN script
  BY LenProperties DEF Firsts
<1>3. A \subseteq DOMAIN script
  BY <1>2, LenProperties
<1> HIDE DEF k, A, B
<1>4. EnclosingFuns(script, q) = FunsAround(A)
  <2>1. \A f : f \in NodesOf(script, "fun") /\ q \in Definition(script, f)
                 <=> f \in A /\ script[f].op = "fun"
    BY <1>1, <1>2, <1>3 DEF NodesOf, Definition
  <2> QED  BY <2>1 DEF EnclosingFuns, FunsAround
<1>5. ASSUME NEW x PROVE Denotes(script, q, x) = Meaning(A, B, x)
  <2>1. \A p \in DOMAIN script : DeclaresVar(script, p, q, x) <=> VarBy(p, A, B, x)
    BY <1>1 DEF DeclaresVar, VarBy
  <2>2. \A p \in DOMAIN script : DeclaresFun(script, p, q, x) <=> FunBy(p, A, B, x)
    BY <1>1 DEF DeclaresFun, FunBy
  <2> DEFINE S == {p \in DOMAIN script : Declares(script, p, q, x)}  m == Max(S)
  <2>3. S = DeclaredBy(A, B, x)
    BY <2>1, <2>2 DEF Declares, DeclaredBy
  <2>4. Denotes(script, q, x) =
          IF S = {} THEN ToplevelTable[x]
          ELSE IF ~ DeclaresVar(script, m, q, x)
               THEN Function(FunctionAt(script, m), m, x)
          ELSE IF script[m].op = "fun" THEN Variable(m, m, x)
          ELSE Variable(FunctionAt(script, m), m, x)
    BY DEF Denotes
  <2>5. S # {} => m \in S
    <3>1. S \subseteq 0 .. Len(script) /\ Len(script) \in Nat
      BY <1>2, LenProperties
    <3> HIDE DEF S
    <3>2. S # {} => \E y \in S : \A z \in S : y >= z
      BY <3>1, GreatestNumber
    <3> QED  BY <3>2 DEF Max
  <2>6. S # {} => (DeclaresVar(script, m, q, x) <=> VarBy(m, A, B, x))
    <3>1. S # {} => m \in DOMAIN script
      BY <2>5
    <3> QED  BY <2>1, <3>1
  <2> HIDE DEF S, m
  <2>7. m = Max(DeclaredBy(A, B, x))
    BY <2>3 DEF m
  <2>8. S # {} => Denotes(script, q, x) = DeclaredAs(m, A, B, x)
    BY <2>4, <2>6 DEF DeclaredAs
  <2> QED  BY <2>3, <2>4, <2>7, <2>8 DEF Meaning
<1> QED  BY <1>4, <1>5 DEF FunctionAt, k, A, B

LEMMA ToplevelAgrees == Agrees(Toplevel, Firsts(0, 1), Seconds(0, 1))
<1>1. Firsts(0, 1) = {} /\ Seconds(0, 1) = {}
  BY DEF Firsts, Seconds
<1>2. \A p, x : ~ VarBy(p, {}, {}, x) /\ ~ FunBy(p, {}, {}, x)
  BY DEF VarBy, FunBy
<1>3. \A x : DeclaredBy({}, {}, x) = {}
  BY <1>2 DEF DeclaredBy
<1>4. \A x : Meaning({}, {}, x) = ToplevelTable[x]
  BY <1>3 DEF Meaning
<1>5. FunsAround({}) = {0}
  BY DEF FunsAround
<1>6. Max({0}) = 0
  <2>1. 0 \in {0} /\ {0} \subseteq Int /\ \A s \in {0} : s <= 0
    OBVIOUS
  <2> QED  BY <2>1, MaxIs
<1>7. Toplevel.chain = <<0>> /\ Toplevel.table = ToplevelTable
  BY ScopeFields DEF Toplevel
<1>8. Len(<<0>>) = 1 /\ <<0>>[1] = 0
  OBVIOUS
<1>9. \A f : (\E n \in 1 .. Len(Toplevel.chain) : Toplevel.chain[n] = f) <=> f = 0
  BY <1>7, <1>8
<1>10. Innermost(Toplevel) = 0
  BY <1>7, <1>8 DEF Innermost
<1>11. \A x \in Names : Toplevel.table[x] = Meaning({}, {}, x)
  BY <1>4, <1>7
<1>12. Agrees(Toplevel, {}, {})
  BY ONLY <1>5, <1>6, <1>9, <1>10, <1>11 DEF Agrees
<1> QED  BY <1>1, <1>12

(* Every scope of the walk is the one that the language says.              *)
WalkAgrees(p) ==
    Walk[p] # <<>> =>
        /\ Remaining(script)[p] = Len(Walk[p])
        /\ \A k \in 1 .. Len(Walk[p]) : Agrees(Walk[p][k], Firsts(p, k), Seconds(p, k))

LEMMA WalkLexical ==
    ASSUME script \in Seq(Nodes) PROVE \A p \in 0 .. Len(script) : WalkAgrees(p)
<1> DEFINE T == {p \in Nat : p <= Len(script) => WalkAgrees(p)}
<1>1. Len(script) \in Nat
  BY LenProperties
<1>2. 0 \in T
  <2>1. Walk[0] = <<Toplevel>> /\ Remaining(script)[0] = 1
    BY WalkType, RemainingIs
  <2>2. Len(<<Toplevel>>) = 1 /\ <<Toplevel>>[1] = Toplevel
    BY SingletonSeq
  <2> DEFINE w == Walk[0]
  <2> HIDE DEF w
  <2>3. Len(w) = 1 /\ w[1] = Toplevel
    BY <2>1, <2>2 DEF w
  <2>4. \A k \in 1 .. Len(w) : k = 1
    BY <2>3
  <2> QED  BY <2>1, <2>3, <2>4, ToplevelAgrees DEF WalkAgrees, w
<1>3. ASSUME NEW p \in Nat, p \in T PROVE p + 1 \in T
  <2> SUFFICES ASSUME p + 1 <= Len(script) PROVE WalkAgrees(p + 1)
    OBVIOUS
  <2> DEFINE q == p + 1  w == Walk[p]
  <2>1. q \in 1 .. Len(script) /\ q - 1 = p /\ p \in 0 .. Len(script) /\ q - 1 \in 0 .. Len(script)
    BY <1>1
  <2>2. w \in Seq(Scopes) /\ Walk[q] = Visit(w, q)
    BY <2>1, WalkType
  <2>3. WalkAgrees(p)
    BY <1>1, <1>3, <2>1
  <2>4. CASE w = <<>>
    <3>1. Walk[q] = <<>>
      BY <2>2, <2>4 DEF Visit
    <3> QED  BY <3>1 DEF WalkAgrees
  <2>5. CASE w # <<>>
    <3> HIDE DEF q
    <3>1. /\ Remaining(script)[q - 1] = Len(w)
          /\ \A k \in 1 .. Len(w) : Agrees(w[k], Firsts(q - 1, k), Seconds(q - 1, k))
      BY <2>1, <2>3, <2>5 DEF WalkAgrees
    <3>2. Len(w) \in 1 .. Len(w)
      BY <2>2, <2>5, LenProperties, EmptySeq
    <3> HIDE DEF w
    <3>3. FunctionAt(script, q) = Innermost(w[Len(w)])
      <4>1. FunctionAt(script, q) = Max(FunsAround(Firsts(q - 1, Len(w))))
        BY <2>1, <3>1, DenotesMeaning
      <4>2. Innermost(w[Len(w)]) = Max(FunsAround(Firsts(q - 1, Len(w))))
        BY <3>1, <3>2 DEF Agrees
      <4> QED  BY <4>1, <4>2
    <3>4. /\ Remaining(script)[q] = Len(Visit(w, q))
          /\ \A k \in 1 .. Len(Visit(w, q)) :
                Agrees(Visit(w, q)[k], Firsts(q, k), Seconds(q, k))
      BY <2>1, <2>2, <2>5, <3>1, <3>3, VisitAgrees
    <3> QED  BY <2>2, <3>4 DEF WalkAgrees, q
  <2> QED  BY <2>4, <2>5
<1> HIDE DEF T
<1>4. Nat \subseteq T
  BY <1>2, <1>3, AllNumbers
<1> QED  BY <1>1, <1>4 DEF T

LEMMA ScopeLexical ==
    ASSUME script \in Seq(Nodes), NEW p \in 1 .. Len(script), Reached(p)
    PROVE  /\ \A x \in Names : ScopeAt(p).table[x] = Denotes(script, p, x)
           /\ Innermost(ScopeAt(p)) = FunctionAt(script, p)
           /\ \A f : (\E n \in 1 .. Len(ScopeAt(p).chain) : ScopeAt(p).chain[n] = f)
                       <=> f \in EnclosingFuns(script, p)
<1> DEFINE w == Walk[p - 1]  n == Len(w)
<1>1. p - 1 \in 0 .. Len(script)
  BY NodeAt
<1>2. w \in Seq(Scopes) /\ w # <<>> /\ WalkAgrees(p - 1)
  BY <1>1, WalkType, WalkLexical DEF Reached
<1>3. n \in 1 .. n
  BY <1>2, LenProperties, EmptySeq
<1>4. /\ Remaining(script)[p - 1] = n
      /\ Agrees(w[n], Firsts(p - 1, n), Seconds(p - 1, n))
  BY <1>2, <1>3 DEF WalkAgrees
<1>5. w[n] = ScopeAt(p)
  BY DEF ScopeAt
<1> DEFINE A == Firsts(p - 1, n)  B == Seconds(p - 1, n)
<1>6. /\ EnclosingFuns(script, p) = FunsAround(A)
      /\ FunctionAt(script, p) = Max(FunsAround(A))
      /\ \A x : Denotes(script, p, x) = Meaning(A, B, x)
  BY <1>4, DenotesMeaning
<1> HIDE DEF A, B, w
<1> QED  BY <1>4, <1>5, <1>6 DEF Agrees, A, B

(* Between the steps: a reference is what the scope of its node says, and  *)
(* a failed pass has stopped at a name that does not mean what it should.  *)
BoundAt(p, s) ==
    /\ p \in 1 .. Len(script) /\ Reached(p) /\ script[p].op \in {"var", "call"}
    /\ s = ScopeAt(p).table[script[p].name]

Misused(why) == why \in {"unknown symbol", "not a variable", "not a function"}

Refuses(why, s) ==
    /\ (why = "unknown symbol") <=> (s.kind = "none")
    /\ why = "not a variable" => ~IsValued(s)
    /\ why = "not a function" => ~IsCallable(s)

References ==
    /\ \A p \in 1 .. pos : refs[p] # NoRef => BoundAt(p, refs[p])
    /\ \A p \in 1 .. Len(script) : p > pos => refs[p] = NoRef
    /\ Misused(status) => \E s : BoundAt(pos, s) /\ Refuses(status, s)

LEMMA ReferencesFixed ==
    ASSUME script' = script, script \in Seq(Nodes)
    PROVE  /\ References' <=>
                /\ \A p \in 1 .. pos' : refs'[p] # NoRef => BoundAt(p, refs'[p])
                /\ \A p \in 1 .. Len(script) : p > pos' => refs'[p] = NoRef
                /\ Misused(status') => \E s : BoundAt(pos', s) /\ Refuses(status', s)
<1>1. \A p, s : BoundAt(p, s)' <=> BoundAt(p, s)
  BY ReachedFixed DEF BoundAt
<1>2. /\ (\A p \in 1 .. pos : refs[p] # NoRef => BoundAt(p, refs[p]))'
            <=> \A p \in 1 .. pos' : refs'[p] # NoRef => BoundAt(p, refs'[p])
  BY <1>1 DEF BoundAt, NoRef
<1>3. (\E s : BoundAt(pos, s) /\ Refuses(status, s))'
         <=> \E s : BoundAt(pos', s) /\ Refuses(status', s)
  BY <1>1 DEF BoundAt
<1> QED  BY <1>2, <1>3 DEF References, Misused, NoRef

LEMMA NothingBound ==
    ASSUME Inductive, References, UNCHANGED <<script, refs>>,
           pos' = pos \/ (pos' = pos + 1 /\ pos < Len(script)),
           ~ Misused(status')
    PROVE  References'
<1>1. script \in Seq(Nodes) /\ pos \in Nat /\ Len(script) \in Nat /\ pos <= Len(script)
  BY LenProperties DEF Inductive, TypeOK
<1>2. pos' \in Nat /\ pos <= pos' /\ pos' <= Len(script)
  BY <1>1
<1>3. ASSUME NEW p \in 1 .. pos', refs[p] # NoRef, p \in 1 .. Len(script) PROVE BoundAt(p, refs[p])
  <2>1. ~ (p > pos)
    BY <1>3 DEF References
  <2>2. p \in 1 .. pos
    BY <1>1, <1>2, <2>1
  <2> QED  BY <1>3, <2>2 DEF References
<1>4. PICK q : q = pos'
  OBVIOUS
<1>5. \A p \in 1 .. Len(script) : p > q => refs[p] = NoRef
  <2>1. q \in Nat /\ pos <= q
    BY <1>2, <1>4
  <2>2. \A p \in 1 .. Len(script) : p > q => p > pos
    BY <1>1, <2>1
  <2> QED  BY <2>2 DEF References
<1>6. \A p \in 1 .. q : p \in 1 .. Len(script)
  BY <1>1, <1>2, <1>4
<1> QED  BY <1>1, <1>3, <1>4, <1>5, ReferencesFixed

LEMMA OneBound ==
    ASSUME Inductive, InStep, References, script' = script, Visiting({"var", "call"}),
           LET s == Table[script[Here].name] IN
              \/ refs' = refs /\ Refuses(status', s)
              \/ refs' = [refs EXCEPT ![Here] = s] /\ ~ Misused(status')
    PROVE  References'
<1> DEFINE s == Table[script[Here].name]
<1>1. /\ Here = pos + 1 /\ Here \in 1 .. Len(script) /\ pos' = Here
      /\ script[Here].op \in {"var", "call"}
      /\ Reached(Here) /\ ScopeAt(Here) = ScopeOf(stack, Len(stack))
  BY VisitingPass
<1>2. /\ script \in Seq(Nodes) /\ pos \in Nat /\ Len(script) \in Nat
      /\ DOMAIN refs = 1 .. Len(script) /\ refs = [p \in DOMAIN refs |-> refs[p]]
  BY InStepParts DEF TypeOK
<1>3. ScopeAt(Here).table = Table
  BY <1>1, TopType, TopOfPass, InStepParts
<1>4. BoundAt(Here, s)
  BY <1>1, <1>3 DEF BoundAt
<1>5. /\ \A p \in 1 .. pos : refs[p] # NoRef => BoundAt(p, refs[p])
      /\ \A p \in 1 .. Len(script) : p > pos => refs[p] = NoRef
  BY DEF References
<1>6. PICK h \in 1 .. Len(script) : h = Here /\ h = pos + 1
  BY <1>1
<1>7. PICK r : r = refs'
  OBVIOUS
<1>8. \/ r = refs /\ Refuses(status', s)
      \/ r = [refs EXCEPT ![h] = s] /\ ~ Misused(status')
  BY <1>6, <1>7
<1> HIDE DEF s
<1>9. \A p \in 1 .. Len(script) : p # h => r[p] = refs[p]
  BY <1>2, <1>8
<1>10. r[h] = refs[h] \/ r[h] = s
  BY <1>2, <1>8
<1>11. refs[h] = NoRef
  BY <1>2, <1>5, <1>6
<1>12. \A p \in 1 .. h : r[p] # NoRef => BoundAt(p, r[p])
  <2> SUFFICES ASSUME NEW p \in 1 .. h, r[p] # NoRef PROVE BoundAt(p, r[p])
    OBVIOUS
  <2>1. CASE p = h
    BY <1>4, <1>6, <1>10, <1>11, <2>1
  <2>2. CASE p # h
    <3>1. p \in 1 .. pos /\ p \in 1 .. Len(script)
      BY <1>2, <1>6, <2>2
    <3> QED  BY <1>5, <1>9, <2>2, <3>1
  <2> QED  BY <2>1, <2>2
<1>13. \A p \in 1 .. Len(script) : p > h => r[p] = NoRef
  <2>1. \A p \in 1 .. Len(script) : p > h => p > pos /\ p # h
    BY <1>2, <1>6
  <2> QED  BY <1>5, <1>9, <2>1
<1>14. Misused(status') => BoundAt(h, s) /\ Refuses(status', s)
  BY <1>4, <1>6, <1>8
<1>15. pos' = h
  BY <1>1, <1>6
<1> QED  BY <1>2, <1>7, <1>12, <1>13, <1>14, <1>15, ReferencesFixed

LEMMA NextReferences ==
    ASSUME Inductive, Passing => InStep, References, [Next]_rvars
    PROVE  References'
<1>1. CASE UNCHANGED rvars
  <2>1. script \in Seq(Nodes)
    BY DEF Inductive, TypeOK
  <2> QED  BY <1>1, <2>1, ReferencesFixed DEF References, rvars
<1>2. CASE ResolveOperands \/ ResolveLet \/ ResolveFunction \/ ResolveReturn
           \/ EnterLet \/ EnterBody \/ ImportUpvalues \/ CloseFrame
           \/ ImportFound \/ ImportFromParent
  <2>1. UNCHANGED <<script, refs>>
    BY <1>2 DEF ResolveOperands, ResolveReturn, ResolveLet, Throw,
                EnterLet, ResolveFunction, EnterBody, ImportUpvalues,
                CloseFrame, ImportFound, ImportFromParent
  <2>2. pos' = pos \/ (pos' = pos + 1 /\ pos < Len(script))
    BY <1>2 DEF ResolveOperands, ResolveReturn, ResolveLet, Visiting, Working, Here,
                EnterLet, ResolveFunction, EnterBody, ImportUpvalues,
                CloseFrame, ImportFound, ImportFromParent
  <2>3. ~ Misused(status')
    BY <1>2 DEF ResolveOperands, ResolveReturn, ResolveLet, Visiting, Working, Throw,
                EnterLet, ResolveFunction, EnterBody, ImportUpvalues, Misused,
                CloseFrame, ImportFound, ImportFromParent, Resolving, Importing
  <2> QED  BY <2>1, <2>2, <2>3, NothingBound
<1>3. CASE ResolveVariable
  <2> DEFINE s == Table[script[Here].name]
  <2>1. Visiting({"var"}) /\ script' = script /\ status = "resolving"
    BY <1>3 DEF ResolveVariable, Visiting, Resolving
  <2>2. InStep /\ Visiting({"var", "call"})
    BY <2>1 DEF Passing, Visiting
  <2>3. \/ s.kind = "none" /\ status' = "unknown symbol" /\ refs' = refs
        \/ s.kind # "none" /\ ~IsValued(s) /\ status' = "not a variable" /\ refs' = refs
        \/ IsValued(s) /\ refs' = [refs EXCEPT ![Here] = s] /\ status' = status
    BY <1>3 DEF ResolveVariable, Throw
  <2> HIDE DEF s
  <2>4. \/ refs' = refs /\ Refuses(status', s)
        \/ refs' = [refs EXCEPT ![Here] = s] /\ ~ Misused(status')
    BY <2>1, <2>3 DEF Refuses, Misused
  <2> QED  BY <2>1, <2>2, <2>4, OneBound DEF s
<1>4. CASE ResolveCall
  <2> DEFINE s == Table[script[Here].name]
  <2>1. Visiting({"call"}) /\ script' = script /\ status = "resolving"
    BY <1>4 DEF ResolveCall, Visiting, Resolving
  <2>2. InStep /\ Visiting({"var", "call"})
    BY <2>1 DEF Passing, Visiting
  <2>3. \/ s.kind = "none" /\ status' = "unknown symbol" /\ refs' = refs
        \/ s.kind # "none" /\ ~IsCallable(s) /\ status' = "not a function" /\ refs' = refs
        \/ IsCallable(s) /\ refs' = [refs EXCEPT ![Here] = s] /\ status' = status
    BY <1>4 DEF ResolveCall, Throw
  <2> HIDE DEF s
  <2>4. \/ refs' = refs /\ Refuses(status', s)
        \/ refs' = [refs EXCEPT ![Here] = s] /\ ~ Misused(status')
    BY <2>1, <2>3 DEF Refuses, Misused
  <2> QED  BY <2>1, <2>2, <2>4, OneBound DEF s
<1> QED  BY <1>1, <1>2, <1>3, <1>4 DEF Next

LEMMA InitReferences == ASSUME Init PROVE References
<1>1. pos = 0 /\ status = "resolving" /\ refs = [p \in DOMAIN script |-> NoRef]
  BY DEF Init
<1>2. script \in Seq(Nodes)
  BY ProgramsAssumption DEF Init
<1>3. \A p \in 1 .. Len(script) : refs[p] = NoRef
  BY <1>1, <1>2
<1> QED  BY <1>1, <1>3 DEF References, Misused

LEMMA LexicalFrom ==
    ASSUME Inductive, References
    PROVE  ReferencesLexical
<1>1. script \in Seq(Nodes)
  BY DEF Inductive, TypeOK
<1>2. ASSUME NEW p, NEW s, BoundAt(p, s) PROVE s = Denotes(script, p, script[p].name)
  <2>1. script[p] \in Nodes /\ script[p].name \in Names /\ p \in 1 .. Len(script) /\ Reached(p)
    BY <1>1, <1>2, NodeAt, NodeFields DEF BoundAt
  <2> QED  BY <1>1, <1>2, <2>1, ScopeLexical DEF BoundAt
<1> DEFINE s == Denotes(script, pos, script[pos].name)
<1>3. \A p \in 1 .. pos : refs[p] # NoRef => refs[p] = Denotes(script, p, script[p].name)
  BY <1>2 DEF References
<1>4. Misused(status) => Refuses(status, s)
  BY <1>2 DEF References
<1> HIDE DEF s
<1>5. Misused(status) => /\ (status = "unknown symbol") <=> (s.kind = "none")
                         /\ (status = "not a variable") => ~IsValued(s)
                         /\ (status = "not a function") => ~IsCallable(s)
  BY <1>4 DEF Refuses
<1> QED  BY <1>3, <1>5 DEF ReferencesLexical, Misused, s

(* Static scoping: the first pass binds every name to the declaration that *)
(* encloses it most tightly, and refuses a name only when the tree has no  *)
(* declaration of the kind that is wanted (SymbolTable::resolve(),         *)
(* ASTVariable and ASTFunctionCall::resolveVariables()).                   *)
THEOREM StaticScoping == Spec => []ReferencesLexical
<1>1. Init => References
  BY InitReferences
<1>2. Inductive /\ (Passing => InStep) /\ References /\ [Next]_rvars => References'
  BY NextReferences
<1>3. Inductive /\ References => ReferencesLexical
  BY LexicalFrom
<1> QED  BY <1>1, <1>2, <1>3, Invariance, ScopesRecorded, PTL DEF Spec
-----------------------------------------------------------------------------
(* Closure conversion imports only what is needed.                         *)
LEMMA SubtreeAfter ==
    ASSUME NEW t \in Seq(Nodes), NEW p \in 1 .. Len(t), NEW i \in {1, 2},
           NEW q \in Subtree(t, p, i)
    PROVE  q \in Int /\ p < q
<1> DEFINE d == Remaining(t)  c == d[p] - (i - 1)
           read == {s \in p .. Len(t) : d[s] <= c}
<1>1. Len(t) \in Nat /\ p \in Nat
  BY LenProperties
<1>2. LastOf(t, p, i - 1) = IF read = {} THEN Len(t) ELSE Min(read)
  BY DEF LastOf
<1>3. LastOf(t, p, i - 1) \in p .. Len(t)
  <2>1. CASE read = {}
    BY <1>1, <1>2, <2>1
  <2>2. CASE read # {}
    <3>1. read \subseteq Nat
      BY <1>1
    <3>2. PICK m \in read : \A s \in read : m <= s
      BY <2>2, <3>1, LeastNumber
    <3>3. Min(read) \in read
      BY <3>2 DEF Min
    <3> QED  BY <1>2, <2>2, <3>3
  <2> QED  BY <2>1, <2>2
<1>4. q \in LastOf(t, p, i - 1) + 1 .. LastOf(t, p, i)
  BY DEF Subtree
<1> QED  BY <1>1, <1>3, <1>4

(* Node p asks for the variable v: it is v, or calls what needs v.         *)
Asks(p, v) ==
    LET s == Denotes(script, p, script[p].name) IN
    \/ script[p].op = "var" /\ v = s
    \/ script[p].op = "call" /\ s.kind = "fun" /\ Needs(script, s.node, v)

Asked(p, v) ==
    /\ p \in 1 .. Len(script) /\ Reached(p) /\ Asks(p, v)

(* Why an import is under way, and all that imports have left behind.      *)
Wanted ==
    /\ \A f \in Funs : \A v \in Upvalues(f) : Needs(script, f, v)
    /\ climb # <<>> =>
          \E p \in 1 .. Len(script) :
              /\ ScopeOf(stack, Len(stack)) = ScopeAt(p)
              /\ Asked(p, climb[1].var)

(* A function around the node that asks needs v, unless v is its own or    *)
(* declared in its definition.                                             *)
LEMMA AskedNeeds ==
    ASSUME script \in Seq(Nodes), NEW p \in 1 .. Len(script), NEW v, Asked(p, v),
           v.kind = "var", NEW f \in NodesOf(script, "fun"), p \in Definition(script, f),
           DeclaredOutside(script, f, v)
    PROVE  Needs(script, f, v)
<1> DEFINE s == Denotes(script, p, script[p].name)
<1>1. p \in DOMAIN script
  BY LenProperties
<1> SUFFICES ASSUME NEW G \in SUBSET NodesOf(script, "fun"), Supplies(script, G, v), f \notin G
             PROVE  FALSE
  BY DEF Needs
<1>2. v \notin Mentions(script, f) /\ Callees(script, f) \cap G = {}
  BY DEF Supplies
<1>3. CASE script[p].op = "var" /\ v = s
  <2>1. p \in NodesOf(script, "var") \cap Definition(script, f)
    BY <1>1, <1>3 DEF NodesOf
  <2>2. v \in Mentions(script, f)
    BY <1>3, <2>1 DEF Mentions
  <2> QED  BY <1>2, <2>2
<1>4. CASE script[p].op = "call" /\ s.kind = "fun" /\ Needs(script, s.node, v)
  <2>1. p \in NodesOf(script, "call") \cap Definition(script, f)
    BY <1>1, <1>4 DEF NodesOf
  <2>2. s.node \in Callees(script, f)
    BY <1>4, <2>1 DEF Callees
  <2>3. s.node \in G
    BY <1>4 DEF Needs
  <2> QED  BY <1>2, <2>2, <2>3
<1> QED  BY <1>3, <1>4 DEF Asked, Asks

LEMMA PassedNeeds ==
    ASSUME Inductive, InStep, Importing, Wanted,
           NEW l \in Nat, l < Len(climb), l >= 1,
           \A n \in 1 .. l : climb[1].var \notin locals[climb[n].fn]
    PROVE  Needs(script, climb[l].fn, climb[1].var)
<1> DEFINE sc == ScopeOf(stack, Len(stack))
           c == TopFrame.chain  N == Len(c)  L == Len(climb)
<1>1. PICK f, v : f = climb[l].fn /\ v = climb[1].var
  OBVIOUS
<1>2. /\ L \in 1 .. N /\ N \in Nat
      /\ \A n \in 1 .. L : climb[n].fn = c[N + 1 - n]
      /\ script \in Seq(Nodes)
  <2>1. L \in 1 .. N /\ \A n \in 1 .. L : climb[n].fn = c[N + 1 - n]
    BY Climbing
  <2>2. N \in Nat
    BY InnermostFunction, LenProperties
  <2>3. script \in Seq(Nodes)
    BY InStepParts
  <2> QED  BY <2>1, <2>2, <2>3
<1>3. sc.chain = c /\ sc.seen = Seen(stack, Len(stack))
  BY DEF ScopeOf, Scope, TopFrame
<1>4. climb # <<>>
  BY DEF Importing
<1>5. PICK p \in 1 .. Len(script) : sc = ScopeAt(p) /\ Asked(p, v)
  BY <1>1, <1>4 DEF Wanted
<1>6. v \in sc.seen /\ v.kind = "var" /\ v \in locals[v.fn]
  BY <1>1, <1>3, <1>4, SeenDeclared, InStepParts DEF ClimbScoped
<1>7. MayHold(f, v) /\ f \in Funs
  BY <1>1, PassedFunctions
<1>8. v \notin locals[f]
  <2>1. l \in 1 .. l
    OBVIOUS
  <2> QED  BY <1>1, <2>1
<1>9. v.fn # f
  BY <1>6, <1>8
<1>10. f \in 1 .. Len(script) /\ Reached(f) /\ v \in ScopeAt(f).seen
  BY <1>7, <1>9 DEF MayHold
<1>11. v.node \in 0 .. f - 1
  BY <1>2, <1>10, ScopeAtOK DEF ScopeOK, SeenScoped
<1>12. Reached(p)
  BY <1>5 DEF Asked
<1> HIDE DEF sc, c
<1>13. f \in EnclosingFuns(script, p)
  <2>1. N + 1 - l \in 1 .. N /\ f = c[N + 1 - l]
    BY <1>1, <1>2
  <2>2. c = ScopeAt(p).chain
    BY <1>3, <1>5
  <2> QED  BY <1>2, <1>12, <2>1, <2>2, ScopeLexical
<1>14. f \in NodesOf(script, "fun") /\ p \in Definition(script, f)
  BY <1>10, <1>13 DEF EnclosingFuns
<1>15. f \notin EnclosingFuns(script, v.node)
  <2> SUFFICES ASSUME v.node \in Definition(script, f) PROVE FALSE
    BY <1>10 DEF EnclosingFuns
  <2>1. v.node \in Subtree(script, f, 1)
    BY <1>10 DEF Definition
  <2>2. f < v.node
    BY <1>2, <1>10, <2>1, SubtreeAfter
  <2> QED  BY <1>10, <1>11, <2>2
<1>16. DeclaredOutside(script, f, v)
  BY <1>9, <1>15 DEF DeclaredOutside
<1> QED  BY <1>1, <1>2, <1>5, <1>6, <1>14, <1>16, AskedNeeds

LEMMA WantedFixed ==
    ASSUME script' = script, script \in Seq(Nodes)
    PROVE  Wanted' <=>
             /\ \A f \in Funs : \A v \in locals'[f] : v.fn # f => Needs(script, f, v)
             /\ climb' # <<>> =>
                   \E p \in 1 .. Len(script) :
                      /\ ScopeOf(stack', Len(stack')) = ScopeAt(p)
                      /\ Asked(p, climb'[1].var)
<1>1. /\ \A p : Reached(p)' <=> Reached(p)
      /\ \A p : ScopeAt(p)' = ScopeAt(p)
  BY ReachedFixed
<1>2. \A p, v : Asked(p, v)' <=> Asked(p, v)
  BY <1>1 DEF Asked, Asks
<1>3. Funs' = Funs
  BY DEF Funs
<1>4. (\A f \in Funs : \A v \in Upvalues(f) : Needs(script, f, v))'
        <=> \A f \in Funs : \A v \in locals'[f] : v.fn # f => Needs(script, f, v)
  BY <1>3 DEF Upvalues
<1>5. (\E p \in 1 .. Len(script) : /\ ScopeOf(stack, Len(stack)) = ScopeAt(p)
                                   /\ Asked(p, climb[1].var))'
        <=> \E p \in 1 .. Len(script) : /\ ScopeOf(stack', Len(stack')) = ScopeAt(p)
                                        /\ Asked(p, climb'[1].var)
  BY <1>1, <1>2 DEF ScopeOf, Seen
<1> QED  BY <1>4, <1>5 DEF Wanted

\* Locals that a function declares itself do not matter.
LEMMA NothingWanted ==
    ASSUME Inductive, Wanted, script' = script,
           \A f \in Funs : \A v \in locals'[f] : v \in locals[f] \/ v.fn = f,
           climb' # <<>> => stack' = stack /\ climb # <<>> /\ climb'[1].var = climb[1].var
    PROVE  Wanted'
<1>1. script \in Seq(Nodes)
  BY DEF Inductive, TypeOK
<1>2. \A f \in Funs : \A v \in locals'[f] : v.fn # f => Needs(script, f, v)
  BY DEF Wanted, Upvalues
<1>3. PICK v, w : v = climb'[1].var /\ w = climb[1].var
  OBVIOUS
<1>4. PICK st : st = stack'
  OBVIOUS
<1>5. ASSUME climb' # <<>>
      PROVE  \E p \in 1 .. Len(script) :
                 ScopeOf(st, Len(st)) = ScopeAt(p) /\ Asked(p, v)
  <2>1. st = stack /\ w = v /\ climb # <<>>
    BY <1>3, <1>4, <1>5
  <2> QED  BY <1>3, <2>1 DEF Wanted
<1> QED  BY <1>1, <1>2, <1>3, <1>4, <1>5, WantedFixed

LEMMA VariableWanted ==
    ASSUME Inductive, InStep, Wanted, ResolveVariable, status' = "resolving"
    PROVE  Wanted'
<1> DEFINE sc == ScopeOf(stack, Len(stack))
<1>1. PICK h, s : h = Here /\ s = Table[script[Here].name]
  OBVIOUS
<1>2. Visiting({"var"}) /\ script' = script
  BY DEF ResolveVariable
<1>3. /\ h \in 1 .. Len(script) /\ script[h] \in Nodes /\ script[h].op = "var"
      /\ Reached(h) /\ ScopeAt(h) = sc /\ Todo # <<>>
  BY <1>1, <1>2, VisitingPass
<1>4. /\ climb' = IF s.kind = "var" THEN <<[fn |-> GetFunction, var |-> s]>> ELSE <<>>
      /\ stack' = Rest(<<>>) /\ locals' = locals
  BY <1>1 DEF ResolveVariable, Throw
<1>5. script \in Seq(Nodes) /\ stack \in Stacks
  BY InStepParts
<1>6. sc.table = Table
  BY <1>5, TopType, TopOfPass
<1>7. s = Denotes(script, h, script[h].name)
  <2>1. script[h].name \in Names
    BY <1>3, NodeFields
  <2> QED  BY <1>1, <1>3, <1>5, <1>6, <2>1, ScopeLexical
<1>8. PICK r : r = stack'
  OBVIOUS
<1>9. ScopeOf(r, Len(r)) = sc
  <2>1. r = Instead(stack, <<>>) /\ <<>> \in Seq(Tasks) /\ stack[Len(stack)].todo # <<>>
    BY <1>3, <1>4, <1>8, TopOfPass
  <2>2. Len(r) = Len(stack) /\ \A i \in 1 .. Len(stack) :
            r[i].table = stack[i].table /\ r[i].chain = stack[i].chain
    BY <1>5, <2>1, InsteadType
  <2>3. Len(stack) \in Nat /\ Len(stack) >= 1
    BY <1>5, StackType
  <2>4. Len(stack) \in 1 .. Len(stack)
    BY <2>3
  <2> QED  BY <2>2, <2>3, <2>4, ScopeSame
<1> HIDE DEF sc
<1>10. Asked(h, s)
  BY <1>3, <1>7 DEF Asked, Asks
<1>11. climb' # <<>> => climb'[1].var = s
  BY <1>4
<1>12. \A f \in Funs : \A v \in locals'[f] : v.fn # f => Needs(script, f, v)
  BY <1>4 DEF Wanted, Upvalues
<1> QED  BY <1>2, <1>3, <1>5, <1>8, <1>9, <1>10, <1>11, <1>12, WantedFixed

LEMMA ImportWanted ==
    ASSUME Inductive, InStep, Wanted, ImportUpvalues
    PROVE  Wanted'
<1> DEFINE sc == ScopeOf(stack, Len(stack))
<1>1. Working("import") /\ UNCHANGED <<script, locals, refs>>
  BY DEF ImportUpvalues
<1>2. PICK e : e = Head(Todo)
  OBVIOUS
<1>3. /\ e.do = "import" /\ ItemOK(TopFrame.chain, e) /\ AtHome(sc, e) /\ climb = <<>>
  BY <1>1, <1>2, WorkingPass
<1>4. script \in Seq(Nodes)
  BY InStepParts
<1>5. CASE climb' = climb
  BY <1>1, <1>3, <1>5, NothingWanted
<1>6. ASSUME NEW v \in Upvalues(refs[e.node].node),
             climb' = <<[fn |-> GetFunction, var |-> v]>>, stack' = stack
      PROVE  Wanted'
  <2>1. PICK p, s : p = e.node /\ s = refs[e.node]
    OBVIOUS
  <2>2. /\ p \in 1 .. pos /\ p \in 1 .. Len(script) /\ Reached(p) /\ sc = ScopeAt(p)
        /\ script[p].op = "call" /\ s.kind = "fun"
    BY <1>3, <2>1, InStepParts DEF AtHome, ItemOK
  <2>3. /\ Records(ScopeAt(p), script[p], p, locals, s, climb) /\ LocalsScoped
    BY <2>1, <2>2, InStepParts DEF Recorded, Resolved
  <2>4. s.node \in 1 .. Len(script)
    BY <1>4, <1>6, <2>1, <2>2, <2>3, UpvaluesSeen
  <2>5. script[p].name \in Names
    BY <1>4, <2>2, NodeAt, NodeFields
  <2>6. s = Denotes(script, p, script[p].name)
    BY <1>4, <2>2, <2>3, <2>5, ScopeLexical DEF Records
  <2>7. s.node \in Funs
    BY <1>4, <2>4, LenProperties DEF Funs
  <2>8. Needs(script, s.node, v)
    BY <1>6, <2>1, <2>7 DEF Wanted
  <2>9. Asked(p, v)
    BY <2>2, <2>6, <2>8 DEF Asked, Asks
  <2>10. climb'[1].var = v
    BY <1>6
  <2>11. \A f \in Funs : \A u \in locals'[f] : u.fn # f => Needs(script, f, u)
    BY <1>1 DEF Wanted, Upvalues
  <2>12. PICK st : st = stack' /\ st = stack
    BY <1>6
  <2>13. ScopeOf(st, Len(st)) = ScopeAt(p)
    BY <2>2, <2>12
  <2> HIDE DEF sc
  <2> QED  BY <1>1, <1>4, <2>2, <2>9, <2>10, <2>11, <2>12, <2>13, WantedFixed
<1>7. climb' = climb \/ \E v \in Upvalues(refs[e.node].node) :
                            climb' = <<[fn |-> GetFunction, var |-> v]>> /\ stack' = stack
  BY <1>2 DEF ImportUpvalues
<1> QED  BY <1>5, <1>6, <1>7

LEMMA FoundWanted ==
    ASSUME Inductive, InStep, Wanted, ImportFound
    PROVE  Wanted'
<1> DEFINE L == Len(climb)
<1>1. /\ Importing /\ climb' = SubSeq(climb, 1, L - 1)
      /\ locals' = IF L > 1
                   THEN [locals EXCEPT ![climb[L - 1].fn] = @ \cup {Activation.var}]
                   ELSE locals
      /\ UNCHANGED <<script, stack>>
  BY DEF ImportFound
<1>2. /\ L \in Nat /\ L >= 1 /\ IsSeq(climb)
      /\ \A n \in 1 .. L : climb[n].fn \in Funs /\ climb[n].var = Activation.var
  <2>1. /\ L \in 1 .. Len(TopFrame.chain)
        /\ climb \in Seq([fn : Funs, var : Symbols])
        /\ \A n \in 1 .. L : climb[n] \in [fn : Funs, var : Symbols]
                             /\ climb[n].var = Activation.var
    BY <1>1, Climbing
  <2>2. IsSeq(climb)
    BY <2>1 DEF IsSeq
  <2> QED  BY <2>1, <2>2
<1>3. locals \in [Funs -> SUBSET Symbols] /\ climb # <<>> /\ script \in Seq(Nodes)
  BY <1>1 DEF Inductive, TypeOK, Importing
<1>4. climb[1].var = Activation.var
  <2>1. 1 \in 1 .. L
    BY <1>2
  <2> QED  BY <1>2, <2>1
<1>5. CASE L = 1
  <2>1. climb' = <<>> /\ locals' = locals
    BY <1>1, <1>5
  <2> QED  BY <1>1, <2>1, NothingWanted
<1>6. CASE L > 1
  <2>1. PICK f, v : f = climb[L - 1].fn /\ v = climb[1].var
    OBVIOUS
  <2>2. climb'[1] = climb[1]
    <3>1. 1 \in 1 .. L - 1
      BY <1>2, <1>6
    <3> QED  BY <1>1, <1>2, <1>6, <3>1, FrontSeq
  <2>3. L - 1 \in Nat /\ L - 1 < L /\ L - 1 >= 1 /\ L - 1 \in 1 .. L
    BY <1>2, <1>6
  <2>4. \A n \in 1 .. L - 1 : climb[1].var \notin locals[climb[n].fn]
    BY <1>3, InStepParts DEF ClimbScoped
  <2>5. Needs(script, f, v) /\ f \in Funs
    BY <1>1, <1>2, <2>1, <2>3, <2>4, PassedNeeds
  <2>6. locals' = [locals EXCEPT ![f] = @ \cup {v}]
    BY <1>1, <1>4, <1>6, <2>1
  <2>7. \A g \in Funs : \A u \in locals'[g] : u.fn # g => Needs(script, g, u)
    <3> SUFFICES ASSUME NEW g \in Funs, NEW u \in locals'[g], u.fn # g
                 PROVE  Needs(script, g, u)
      OBVIOUS
    <3>1. u \in locals[g] \/ (g = f /\ u = v)
      BY <1>3, <2>6
    <3> QED  BY <2>5, <3>1 DEF Wanted, Upvalues
  <2>8. PICK st : st = stack' /\ st = stack
    BY <1>1
  <2>9. \E p \in 1 .. Len(script) : ScopeOf(st, Len(st)) = ScopeAt(p)
                                    /\ Asked(p, climb'[1].var)
    BY <1>3, <2>2, <2>8 DEF Wanted
  <2> QED  BY <1>1, <1>3, <2>7, <2>8, <2>9, WantedFixed
<1>7. L = 1 \/ L > 1
  <2>1. L \in Nat /\ L >= 1
    BY <1>2
  <2> HIDE DEF L
  <2> QED  BY <2>1
<1> QED  BY <1>5, <1>6, <1>7

LEMMA FromParentWanted ==
    ASSUME Inductive, Wanted, ImportFromParent
    PROVE  Wanted'
<1>1. /\ Importing /\ UNCHANGED <<script, stack, locals>>
      /\ climb' = climb \/ \E a : climb' = Append(climb, a)
  BY DEF ImportFromParent
<1>2. climb # <<>>
  BY <1>1 DEF Importing
<1>3. climb'[1] = climb[1]
  <2>1. climb \in Seq([fn : Funs, var : Symbols]) /\ Len(climb) \in 1 .. Len(climb)
    BY <1>1, Climbing, LenProperties, EmptySeq
  <2>2. 1 \in 1 .. Len(climb) /\ IsSeq(climb)
    BY <2>1 DEF IsSeq
  <2> QED  BY <1>1, <2>2, AppendSeq
<1> QED  BY <1>1, <1>2, <1>3, NothingWanted

LEMMA NextWanted ==
    ASSUME Inductive, Passing => InStep, Wanted, [Next]_rvars
    PROVE  Wanted'
<1>1. CASE UNCHANGED rvars
  <2>1. script \in Seq(Nodes)
    BY DEF Inductive, TypeOK
  <2> QED  BY <1>1, NothingWanted DEF rvars
<1>2. CASE ResolveOperands \/ ResolveReturn \/ EnterLet \/ EnterBody \/ ResolveCall
           \/ CloseFrame
  <2>1. UNCHANGED <<script, locals>> /\ climb' = <<>>
    BY <1>2 DEF ResolveOperands, ResolveReturn, EnterLet, EnterBody, ResolveCall,
                CloseFrame, Throw, Visiting, Working, Resolving
  <2> QED  BY <2>1, NothingWanted
<1>3. CASE ResolveLet
  <2>1. /\ script' = script /\ climb' = <<>>
        /\ locals' = [locals EXCEPT ![GetFunction] =
                         @ \cup {Variable(GetFunction, Here, script[Here].name)}]
    BY <1>3 DEF ResolveLet, Visiting, Resolving
  <2>2. locals \in [Funs -> SUBSET Symbols]
    BY DEF Inductive, TypeOK
  <2>3. \A f \in Funs : \A v \in locals'[f] : v \in locals[f] \/ v.fn = f
    BY <2>1, <2>2 DEF Variable
  <2> QED  BY <2>1, <2>3, NothingWanted
<1>4. CASE ResolveFunction
  <2>1. /\ script' = script /\ climb' = <<>>
        /\ locals' = [locals EXCEPT ![Here] = Arguments(Here, script[Here].params)]
    BY <1>4 DEF ResolveFunction, Visiting, Resolving
  <2>2. locals \in [Funs -> SUBSET Symbols]
    BY DEF Inductive, TypeOK
  <2>3. \A v \in Arguments(Here, script[Here].params) : v.fn = Here
    BY DEF Arguments, Variable
  <2>4. \A f \in Funs : \A v \in locals'[f] : v \in locals[f] \/ v.fn = f
    BY <2>1, <2>2, <2>3
  <2> QED  BY <2>1, <2>4, NothingWanted
<1>5. CASE ResolveVariable
  <2>1. InStep /\ status = "resolving" /\ climb = <<>> /\ script' = script
    BY <1>5 DEF ResolveVariable, Visiting, Resolving, Passing
  <2>2. status' = "resolving" \/ (locals' = locals /\ climb' = <<>>)
    BY <1>5, <2>1 DEF ResolveVariable, Throw
  <2> QED  BY <1>5, <2>1, <2>2, VariableWanted, NothingWanted
<1>6. CASE ImportUpvalues
  <2>1. InStep
    BY <1>6 DEF ImportUpvalues, Working, Resolving, Passing
  <2> QED  BY <1>6, <2>1, ImportWanted
<1>7. CASE ImportFound
  <2>1. InStep
    BY <1>7 DEF ImportFound, Importing, Passing
  <2> QED  BY <1>7, <2>1, FoundWanted
<1>8. CASE ImportFromParent
  BY <1>8, FromParentWanted
<1> QED  BY <1>1, <1>2, <1>3, <1>4, <1>5, <1>6, <1>7, <1>8 DEF Next

LEMMA InitWanted == ASSUME Init PROVE Wanted
<1>1. climb = <<>> /\ locals = [f \in Funs |-> IF f = 0 THEN Arguments(0, Inputs) ELSE {}]
  BY DEF Init
<1>2. \A f \in Funs : \A v \in locals[f] : v.fn = f
  BY <1>1 DEF Arguments, Variable
<1> QED  BY <1>1, <1>2 DEF Wanted, Upvalues

(* Closure conversion is minimal: every upvalue that importUpvalue() gives *)
(* to a function is needed by it, because its definition mentions the      *)
(* variable or calls a function that needs it.                             *)
THEOREM ImportsNeeded == Spec => []UpvaluesNeeded
<1>1. Init => Wanted
  BY InitWanted
<1>2. Inductive /\ (Passing => InStep) /\ Wanted /\ [Next]_rvars => Wanted'
  BY NextWanted
<1>3. Wanted /\ Inductive => UpvaluesNeeded
  <2> SUFFICES ASSUME Wanted, Inductive, NEW f \in NodesOf(script, "fun"), NEW v \in Upvalues(f)
               PROVE  Needs(script, f, v)
    BY DEF UpvaluesNeeded
  <2>1. f \in Funs
    BY LenProperties DEF NodesOf, Funs, Inductive, TypeOK
  <2> QED  BY <2>1 DEF Wanted
<1> QED  BY <1>1, <1>2, <1>3, Invariance, ScopesRecorded, PTL DEF Spec

-----------------------------------------------------------------------------
(* The calls of a function whose definition is closed.  The functions      *)
(* around a frame are also around the frames above it, and a definition    *)
(* that waits for its body waits in the innermost frame.                   *)
Nested(st) ==
    \A i, j \in 1 .. Len(st) : i <= j =>
        \A f : OnChain(st[i].chain, f) => OnChain(st[j].chain, f)

Bodiless(u) == \A k \in 1 .. Len(u) : u[k].do # "body"

FirstOnly(st) ==
    \A i \in 1 .. Len(st) : \A k \in 1 .. Len(st[i].todo) :
        st[i].todo[k].do = "body" => i = Len(st) /\ k = 1

Bare(st) == \A i \in 1 .. Len(st) : Bodiless(st[i].todo)

Orderly(st) == Nested(st) /\ FirstOnly(st)

Pending(st, q) ==
    \E i \in 1 .. Len(st) : \E k \in 1 .. Len(st[i].todo) : st[i].todo[k] = Import(q)

Opening(st, f) ==
    \E i \in 1 .. Len(st) :
        \/ OnChain(st[i].chain, f)
        \/ \E k \in 1 .. Len(st[i].todo) : st[i].todo[k] = Body(f)

LEMMA DefiningNow ==
    ASSUME stack \in Stacks, NEW f
    PROVE  Defining(f) <=> Opening(stack, f) \/ f > pos
<1>1. DOMAIN stack = 1 .. Len(stack)
  BY StackType
<1>2. \A i \in 1 .. Len(stack) : DOMAIN stack[i].todo = 1 .. Len(stack[i].todo)
  BY StackType, SeqLength
<1> QED  BY <1>1, <1>2, Zenon DEF Defining, Opening, OnChain

LEMMA DefiningNext ==
    ASSUME stack' \in Stacks, NEW f
    PROVE  Defining(f)' <=> Opening(stack', f) \/ f > pos'
<1>1. PICK st : st = stack'
  OBVIOUS
<1>2. DOMAIN st = 1 .. Len(st)
  BY <1>1, StackType
<1>3. \A i \in 1 .. Len(st) : DOMAIN st[i].todo = 1 .. Len(st[i].todo)
  BY <1>1, StackType, SeqLength
<1>4. Defining(f)' <=>
         \/ \E i \in DOMAIN st :
              \/ \E j \in DOMAIN st[i].chain : st[i].chain[j] = f
              \/ \E j \in DOMAIN st[i].todo : st[i].todo[j] = Body(f)
         \/ f > pos'
  BY <1>1 DEF Defining, Body
<1> QED  BY <1>1, <1>2, <1>3, <1>4, Zenon DEF Opening, OnChain

\* In an orderly stack the innermost frame tells.
LEMMA OpeningTop ==
    ASSUME NEW st \in Stacks, Orderly(st), NEW f
    PROVE  Opening(st, f) <=>
              \/ OnChain(st[Len(st)].chain, f)
              \/ st[Len(st)].todo # <<>> /\ st[Len(st)].todo[1] = Body(f)
<1> DEFINE n == Len(st)
<1>1. n \in Nat /\ n >= 1 /\ \A i \in 1 .. n : i <= n
  BY StackType
<1>2. n \in 1 .. n
  BY <1>1
<1>3. \A i \in 1 .. n : IsSeq(st[i].todo)
  BY StackType
<1>4. Body(f).do = "body"
  BY DEF Body
<1>5. ASSUME NEW i \in 1 .. n, OnChain(st[i].chain, f) PROVE OnChain(st[n].chain, f)
  BY <1>1, <1>2, <1>5 DEF Orderly, Nested
<1>6. ASSUME NEW i \in 1 .. n, NEW k \in 1 .. Len(st[i].todo), st[i].todo[k] = Body(f)
      PROVE  st[n].todo # <<>> /\ st[n].todo[1] = Body(f)
  <2>1. i = n /\ k = 1
    BY <1>4, <1>6 DEF Orderly, FirstOnly
  <2>2. Len(st[n].todo) # 0
    <3>1. Len(st[n].todo) \in Nat
      BY <1>2, <1>3, SeqLength
    <3> QED  BY <2>1, <3>1
  <2> QED  BY <1>2, <1>3, <1>6, <2>1, <2>2, SeqLength
<1>7. ASSUME st[n].todo # <<>> PROVE 1 \in 1 .. Len(st[n].todo)
  <2>1. Len(st[n].todo) \in Nat /\ Len(st[n].todo) # 0
    BY <1>2, <1>3, <1>7, SeqLength
  <2> QED  BY <2>1
<1> HIDE DEF n
<1> QED  BY <1>2, <1>5, <1>6, <1>7 DEF Opening, n

LEMMA OrderlyInstead ==
    ASSUME NEW st \in Stacks, Orderly(st), st[Len(st)].todo # <<>>,
           NEW u \in Seq(Tasks), Bodiless(u)
    PROVE  LET r == Instead(st, u) IN
           /\ Nested(r) /\ Bare(r)
           /\ \A q : Pending(st, q) /\ st[Len(st)].todo[1] # Import(q) => Pending(r, q)
           /\ \A q : \A k \in 1 .. Len(u) : u[k] = Import(q) => Pending(r, q)
<1> DEFINE n == Len(st)  r == Instead(st, u)  t == st[n].todo
<1>1. n \in Nat /\ n >= 1 /\ IsSeq(u)
  BY StackType DEF IsSeq
<1>2. n \in 1 .. n
  BY <1>1
<1>3. /\ Len(r) = n /\ \A i \in 1 .. n - 1 : r[i] = st[i]
      /\ r[n].todo = u \o Tail(t)
      /\ \A i \in 1 .. n : r[i].chain = st[i].chain
  BY InsteadType
<1>4. IsSeq(t) /\ t # <<>>
  BY <1>2, StackType
<1> DEFINE w == u \o Tail(t)
<1>5. /\ IsSeq(w) /\ Len(w) = Len(u) + Len(t) - 1
      /\ \A k \in 1 .. Len(u) : w[k] = u[k]
      /\ \A k \in 2 .. Len(t) : w[Len(u) + k - 1] = t[k]
  BY <1>1, <1>4, ReplaceFirst
<1>6. Len(u) \in Nat /\ Len(t) \in Nat /\ Len(t) # 0
  BY <1>1, <1>4, SeqLength
<1>7. Nested(r)
  BY <1>3 DEF Orderly, Nested
<1>8. \A i \in 1 .. n : i = n \/ i \in 1 .. n - 1
  BY <1>1
<1>9. \A i \in 1 .. n - 1 : i \in 1 .. n /\ i # n
  BY <1>1
<1> HIDE DEF r, w, n, t
<1>10. ASSUME NEW k \in 1 .. Len(w) PROVE w[k].do # "body"
  <2>1. CASE k \in 1 .. Len(u)
    BY <1>5, <2>1 DEF Bodiless
  <2>2. CASE k \notin 1 .. Len(u)
    <3>1. PICK m : m = k - Len(u) + 1
      OBVIOUS
    <3>2. m \in 2 .. Len(t) /\ k = Len(u) + m - 1 /\ m \in 1 .. Len(t) /\ m # 1
      BY <1>5, <1>6, <2>2, <3>1
    <3>3. w[k] = t[m]
      BY <1>5, <3>2
    <3>4. t[m].do # "body"
      BY <1>2, <3>2 DEF Orderly, FirstOnly, n, t
    <3> QED  BY <3>3, <3>4
  <2> QED  BY <2>1, <2>2
<1>11. Bare(r)
  <2>1. ASSUME NEW i \in 1 .. n - 1 PROVE Bodiless(r[i].todo)
    BY <1>3, <1>9 DEF Orderly, FirstOnly, Bodiless, n
  <2>2. Bodiless(r[n].todo)
    BY <1>3, <1>10 DEF Bodiless, w
  <2> QED  BY <1>3, <1>8, <2>1, <2>2 DEF Bare
<1>12. ASSUME NEW q, Pending(st, q), t[1] # Import(q) PROVE Pending(r, q)
  <2>0. PICK i \in 1 .. n : \E k \in 1 .. Len(st[i].todo) : st[i].todo[k] = Import(q)
    BY <1>12 DEF Pending, n
  <2>1. PICK k \in 1 .. Len(st[i].todo) : st[i].todo[k] = Import(q)
    BY <2>0
  <2>2. CASE i \in 1 .. n - 1
    BY <1>3, <2>1, <2>2 DEF Pending
  <2>3. CASE i = n
    <3>1. k \in 1 .. Len(t) /\ t[k] = Import(q) /\ k # 1
      BY <1>12, <2>1, <2>3 DEF t
    <3>2. k \in 2 .. Len(t) /\ Len(u) + k - 1 \in 1 .. Len(w)
      BY <1>5, <1>6, <3>1
    <3>3. w[Len(u) + k - 1] = Import(q)
      BY <1>5, <3>1, <3>2
    <3> QED  BY <1>2, <1>3, <3>2, <3>3 DEF Pending, w
  <2> QED  BY <1>8, <2>2, <2>3
<1>13. ASSUME NEW q, NEW k \in 1 .. Len(u), u[k] = Import(q) PROVE Pending(r, q)
  <2>1. k \in 1 .. Len(w)
    BY <1>5, <1>6
  <2>2. w[k] = Import(q)
    BY <1>5, <1>13
  <2> QED  BY <1>2, <1>3, <2>1, <2>2 DEF Pending, w
<1> QED  BY <1>7, <1>11, <1>12, <1>13 DEF r, n, t

LEMMA BareFirst ==
    ASSUME NEW st, Nested(st), Bare(st)
    PROVE  Orderly(st)
BY DEF Orderly, FirstOnly, Bare, Bodiless

LEMMA OrderlyPush ==
    ASSUME NEW st \in Stacks, Nested(st), Bare(st), NEW fr \in AnyFrames,
           \A f : OnChain(st[Len(st)].chain, f) => OnChain(fr.chain, f),
           \A k \in 1 .. Len(fr.todo) : fr.todo[k].do = "body" => k = 1
    PROVE  /\ Orderly(Append(st, fr))
           /\ \A q : Pending(st, q) => Pending(Append(st, fr), q)
<1> DEFINE n == Len(st)  r == Append(st, fr)
<1>1. n \in Nat /\ n >= 1
  BY StackType
<1>2. Len(r) = n + 1 /\ r[n + 1] = fr /\ \A i \in 1 .. n : r[i] = st[i]
  BY PushType
<1>3. \A i \in 1 .. n + 1 : i = n + 1 \/ i \in 1 .. n
  BY <1>1
<1>4. n \in 1 .. n /\ \A i \in 1 .. n : i <= n /\ i \in 1 .. n + 1 /\ ~ (n + 1 <= i)
  BY <1>1
<1> HIDE DEF r, n
<1>5. Nested(r)
  <2> SUFFICES ASSUME NEW i \in 1 .. n + 1, NEW j \in 1 .. n + 1, i <= j, NEW f,
                      OnChain(r[i].chain, f)
               PROVE  OnChain(r[j].chain, f)
    BY <1>2 DEF Nested
  <2>1. CASE i \in 1 .. n /\ j \in 1 .. n
    BY <1>2, <2>1 DEF Nested, n
  <2>2. CASE i \in 1 .. n /\ j = n + 1
    <3>1. OnChain(st[n].chain, f)
      BY <1>2, <1>4, <2>2 DEF Nested, n
    <3> QED  BY <1>2, <2>2, <3>1 DEF n
  <2>3. CASE i = n + 1
    <3>1. j = n + 1
      BY <1>3, <1>4, <2>3
    <3> QED  BY <2>3, <3>1
  <2> QED  BY <1>3, <2>1, <2>2, <2>3
<1>6. FirstOnly(r)
  <2>1. \A i \in 1 .. n : Bodiless(r[i].todo)
    BY <1>2 DEF Bare, n
  <2>2. \A k \in 1 .. Len(r[n + 1].todo) : r[n + 1].todo[k].do = "body" => k = 1
    BY <1>2
  <2> QED  BY <1>2, <1>3, <2>1, <2>2 DEF FirstOnly, Bodiless
<1>7. ASSUME NEW q, Pending(st, q) PROVE Pending(r, q)
  BY <1>2, <1>4, <1>7 DEF Pending, n
<1> QED  BY <1>5, <1>6, <1>7 DEF Orderly, r

LEMMA OrderlyPop ==
    ASSUME NEW st \in Stacks, Orderly(st), Len(st) > 1, st[Len(st)].todo = <<>>
    PROVE  LET r == SubSeq(st, 1, Len(st) - 1) IN
           /\ Nested(r) /\ Bare(r)
           /\ \A f : OnChain(r[Len(r)].chain, f) => OnChain(st[Len(st)].chain, f)
           /\ \A q : Pending(st, q) => Pending(r, q)
<1> DEFINE n == Len(st)  r == SubSeq(st, 1, n - 1)
<1>1. n \in Nat /\ n >= 1
  BY StackType
<1>2. Len(r) = n - 1 /\ \A i \in 1 .. n - 1 : r[i] = st[i]
  BY PopType
<1>3. /\ \A i \in 1 .. n - 1 : i \in 1 .. n /\ i # n
      /\ n - 1 \in 1 .. n - 1 /\ n \in 1 .. n /\ n - 1 <= n
      /\ \A i \in 1 .. n : i = n \/ i \in 1 .. n - 1
  BY <1>1
<1> HIDE DEF r, n
<1>4. Nested(r)
  BY <1>2, <1>3 DEF Orderly, Nested, n
<1>5. Bare(r)
  BY <1>2, <1>3 DEF Orderly, FirstOnly, Bare, Bodiless, n
<1>6. \A f : OnChain(r[n - 1].chain, f) => OnChain(st[n].chain, f)
  BY <1>2, <1>3 DEF Orderly, Nested, n
<1>7. ASSUME NEW q, Pending(st, q) PROVE Pending(r, q)
  <2>0. PICK i \in 1 .. n : \E k \in 1 .. Len(st[i].todo) : st[i].todo[k] = Import(q)
    BY <1>7 DEF Pending, n
  <2>1. PICK k \in 1 .. Len(st[i].todo) : st[i].todo[k] = Import(q)
    BY <2>0
  <2>2. i # n
    <3>1. SUFFICES ASSUME i = n PROVE FALSE
      OBVIOUS
    <3>2. k \in 1 .. Len(<<>>)
      BY <2>1, <3>1 DEF n
    <3> QED  BY <3>2
  <2> QED  BY <1>2, <1>3, <2>1, <2>2 DEF Pending
<1> QED  BY <1>2, <1>4, <1>5, <1>6, <1>7 DEF r, n

(* Call node q of a function g that is not around it: g is defined, and    *)
(* its upvalues have been imported into the function of q or will be.      *)
Supplied(q) == Upvalues(refs[q].node) \subseteq locals[Innermost(ScopeAt(q))]

Elsewhere(q, s) ==
    /\ script[q].op = "call" /\ s.kind = "fun"
    /\ ~ OnChain(ScopeAt(q).chain, s.node)

CallSettled(q) ==
    Elsewhere(q, refs[q]) =>
        ~ Defining(refs[q].node) /\ (Pending(stack, q) \/ Supplied(q))

Settling ==
    /\ Orderly(stack)
    /\ \A q \in 1 .. pos : ChainOK(ScopeAt(q).chain)
    /\ \A q \in 1 .. pos : CallSettled(q)

LEMMA NextKeeps ==
    ASSUME Inductive, [Next]_rvars
    PROVE  /\ script' = script /\ pos' \in {pos, pos + 1} /\ pos \in Nat
           /\ \A f \in Funs : f <= pos =>
                 parent'[f] = parent[f] /\ locals[f] \subseteq locals'[f]
           /\ \A p \in 1 .. pos : refs'[p] = refs[p]
<1>1. /\ pos \in Nat /\ pos <= Len(script) /\ Len(script) \in Nat
      /\ locals \in [Funs -> SUBSET Symbols]
      /\ parent \in [Funs -> Funs \cup {NoFun}] /\ DOMAIN refs = 1 .. Len(script)
  <2>1. TypeOK
    BY DEF Inductive
  <2>2. script \in Seq(Nodes) /\ pos \in 0 .. Len(script)
    BY <2>1 DEF TypeOK
  <2> QED  BY <2>1, <2>2, LenProperties DEF TypeOK
<1>2. Here = pos + 1 /\ \A f \in Funs : f <= pos => f # Here
  BY <1>1 DEF Here, Funs
<1>3. script' = script /\ pos' \in {pos, pos + 1}
  BY <1>2 DEF Next, rvars, ResolveOperands, ResolveVariable, ResolveReturn, ResolveLet,
      EnterLet, ResolveFunction, EnterBody, ResolveCall, ImportUpvalues, CloseFrame,
      ImportFound, ImportFromParent, Visiting, Working
<1>4. parent' = parent \/ parent' = [parent EXCEPT ![Here] = GetFunction]
  BY DEF Next, rvars, ResolveOperands, ResolveVariable, ResolveReturn, ResolveLet,
      EnterLet, ResolveFunction, EnterBody, ResolveCall, ImportUpvalues, CloseFrame,
      ImportFound, ImportFromParent, Throw
<1>5. \/ locals' = locals
      \/ \E f, A : locals' = [locals EXCEPT ![f] = @ \cup A]
      \/ \E A : locals' = [locals EXCEPT ![Here] = A]
  BY DEF Next, rvars, ResolveOperands, ResolveVariable, ResolveReturn, ResolveLet,
      EnterLet, ResolveFunction, EnterBody, ResolveCall, ImportUpvalues, CloseFrame,
      ImportFound, ImportFromParent, Throw
<1>6. refs' = refs \/ \E s : refs' = [refs EXCEPT ![Here] = s]
  BY DEF Next, rvars, ResolveOperands, ResolveVariable, ResolveReturn, ResolveLet,
      EnterLet, ResolveFunction, EnterBody, ResolveCall, ImportUpvalues, CloseFrame,
      ImportFound, ImportFromParent, Throw
<1>7. \A p \in 1 .. pos : refs'[p] = refs[p]
  <2>1. \A p \in 1 .. pos : p # Here /\ p \in DOMAIN refs
    BY <1>1, <1>2
  <2> QED  BY <1>6, <2>1
<1>8. \A f \in Funs : f <= pos => parent'[f] = parent[f]
  BY <1>1, <1>2, <1>4
<1>9. \A f \in Funs : f <= pos => locals[f] \subseteq locals'[f]
  BY <1>1, <1>2, <1>5
<1> QED  BY <1>1, <1>3, <1>7, <1>8, <1>9

LEMMA VisitsNext ==
    ASSUME [Next]_rvars, pos \in Nat, pos' = pos + 1
    PROVE  \E ops : Visiting(ops)
<1>1. pos' # pos
  OBVIOUS
<1>2. \/ Visiting({"const", "vector", "splat", "if"}) \/ Visiting({"var"})
      \/ Visiting({"let"}) \/ Visiting({"fun"}) \/ Visiting({"call"})
      \/ Visiting({"return"})
  BY <1>1 DEF Next, rvars, ResolveOperands, ResolveVariable, ResolveReturn,
              ResolveLet, EnterLet, ResolveFunction, EnterBody, ResolveCall,
              ImportUpvalues, CloseFrame, ImportFound, ImportFromParent, Working
<1> QED  BY <1>2

LEMMA CallSettledFixed ==
    ASSUME script' = script, script \in Seq(Nodes), NEW q
    PROVE  CallSettled(q)' <=>
              (Elsewhere(q, refs'[q]) =>
                  /\ ~ Defining(refs[q].node)'
                  /\ Pending(stack', q)
                     \/ \A v \in locals'[refs'[q].node] :
                           v.fn # refs'[q].node => v \in locals'[Innermost(ScopeAt(q))])
<1>1. /\ Reached(q)' <=> Reached(q)
      /\ ScopeAt(q)' = ScopeAt(q)
  BY ReachedFixed
<1>2. Elsewhere(q, refs[q])' <=> Elsewhere(q, refs'[q])
  BY <1>1 DEF Elsewhere, OnChain
<1>3. Pending(stack, q)' <=> Pending(stack', q)
  BY DEF Pending, Import
<1>4. Supplied(q)' <=> \A v \in locals'[refs'[q].node] :
                           v.fn # refs'[q].node => v \in locals'[Innermost(ScopeAt(q))]
  BY <1>1 DEF Supplied, Upvalues, Innermost
<1> QED  BY <1>2, <1>3, <1>4 DEF CallSettled

LEMMA SettlingFrom ==
    ASSUME Inductive, InStep, Settling, [Next]_rvars,
           NEW st \in Stacks, st = stack', Orderly(st),
           \A f : Opening(st, f) => Opening(stack, f) \/ f > pos,
           \A q \in 1 .. pos : Pending(stack, q) => Pending(st, q) \/ Supplied(q),
           \A q : q = pos' /\ q = pos + 1 =>
               /\ ChainOK(ScopeAt(q).chain)
               /\ Elsewhere(q, refs'[q]) =>
                      /\ refs'[q].node \in 1 .. pos
                      /\ ~ Defining(refs'[q].node) /\ Pending(st, q)
    PROVE  Settling'
<1>1. /\ script' = script /\ pos' \in {pos, pos + 1} /\ pos \in Nat
      /\ \A f \in Funs : f <= pos =>
            parent'[f] = parent[f] /\ locals[f] \subseteq locals'[f]
      /\ \A p \in 1 .. pos : refs'[p] = refs[p]
  BY NextKeeps
<1>2. script \in Seq(Nodes) /\ stack \in Stacks /\ Len(script) \in Nat /\ pos <= Len(script)
      /\ Recorded
  BY InStepParts
<1>3. pos' \in Nat /\ pos <= pos'
  BY <1>1
<1>12. ASSUME NEW q \in 1 .. pos
       PROVE  /\ q \in 1 .. Len(script) /\ Reached(q)
              /\ Records(ScopeAt(q), script[q], q, locals, refs[q], climb)
  <2>1. Resolved(q)
    BY ONLY <1>2 DEF Recorded
  <2>2. q \in 1 .. Len(script)
    BY ONLY <1>1, <1>2, q \in 1 .. pos
  <2> QED  BY ONLY <2>1, <2>2 DEF Resolved
<1>4. ASSUME NEW q \in 1 .. pos'
      PROVE  q \in 1 .. pos \/ (q = pos' /\ q = pos + 1)
  BY <1>1
<1>5. ASSUME NEW f \in Int, f <= pos, ~ Defining(f) PROVE ~ Defining(f)'
  <2>1. ~ Opening(stack, f) /\ ~ (f > pos)
    BY <1>2, <1>5, DefiningNow
  <2>2. ~ Opening(st, f)
    BY <2>1
  <2>3. stack' \in Stacks
    OBVIOUS
  <2>4. ~ Opening(stack', f)
    BY <2>2
  <2>5. ASSUME f > pos' PROVE FALSE
    BY <1>1, <1>3, <1>5, <2>5
  <2> QED  BY <2>3, <2>4, <2>5, DefiningNext
<1>6. ASSUME NEW c, ChainOK(c), \A n \in 1 .. Len(c) : c[n] \in Funs,
             Len(c) \in Nat, DOMAIN c = 1 .. Len(c)
      PROVE  ChainOK(c)'
  <2>1. \A n \in 1 .. Len(c) : c[n] <= pos /\ c[n] \in Int
    BY <1>6, <1>2 DEF ChainOK, Funs
  <2>2. \A n \in 1 .. Len(c) : c[n] <= pos'
    BY <1>1, <1>3, <2>1
  <2>3. \A n \in 2 .. Len(c) : n \in 1 .. Len(c)
    BY <1>6
  <2>4. \A n \in 2 .. Len(c) : parent'[c[n]] = c[n - 1]
    BY <1>1, <1>6, <2>1, <2>3 DEF ChainOK
  <2> QED  BY <1>6, <2>2, <2>4 DEF ChainOK
<1>7. ASSUME NEW q \in 1 .. pos' PROVE ChainOK(ScopeAt(q).chain)'
  <2>1. PICK c : c = ScopeAt(q).chain
    OBVIOUS
  <2>2. ChainOK(c)
    BY <1>4, <2>1 DEF Settling
  <2>3. c[1] = 0 /\ c # <<>>
    BY <2>2 DEF ChainOK
  <2>4. q \in 1 .. Len(script) /\ Reached(q)
    <3>1. CASE q \in 1 .. pos
      BY <3>1, <1>12
    <3>2. CASE q = pos' /\ q = pos + 1
      <4>1. PICK ops : Visiting(ops)
        BY <1>1, <3>2, VisitsNext
      <4>2. Reached(Here) /\ Here \in 1 .. Len(script) /\ Here = pos + 1
        BY <4>1, VisitingPass
      <4> QED  BY ONLY <3>2, <4>2
    <3> QED  BY <1>4, <3>1, <3>2
  <2>5. c \in Seq(Nat) /\ Len(c) \in Nat /\ \A n \in 1 .. Len(c) : c[n] \in 0 .. q - 1
    <3>1. ScopeAt(q) \in Scopes /\ ScopeOK(ScopeAt(q), q - 1)
      BY <1>2, <2>4, ScopeAtOK
    <3> QED  BY <2>1, <3>1, ScopeType, LenProperties DEF ScopeOK, ChainScoped
  <2>6. DOMAIN c = 1 .. Len(c)
    BY <2>5, LenProperties
  <2>7. \A n \in 1 .. Len(c) : c[n] \in Funs
    BY <1>2, <2>4, <2>5 DEF Funs
  <2>8. ChainOK(c)'
    BY <1>6, <2>2, <2>5, <2>6, <2>7
  <2>9. c' = c /\ ScopeAt(q)' = ScopeAt(q)
    BY <1>1, <1>2, ReachedFixed
  <2>10. (ScopeAt(q).chain)' = c
    BY <2>1, <2>9
  <2> QED  BY <2>8, <2>10 DEF ChainOK
<1>8. ASSUME NEW q \in 1 .. pos, Elsewhere(q, refs'[q])
      PROVE  /\ ~ Defining(refs[q].node)'
             /\ Pending(st, q)
                \/ \A v \in locals'[refs'[q].node] :
                      v.fn # refs'[q].node => v \in locals'[Innermost(ScopeAt(q))]
  <2>1. PICK s : s = refs[q] /\ s = refs'[q]
    BY <1>1
  <2>2. PICK g : g = s.node
    OBVIOUS
  <2>3. ~ Defining(g) /\ (Pending(stack, q) \/ Supplied(q))
    BY <1>8, <2>1, <2>2 DEF Settling, CallSettled
  <2>4. q \in 1 .. Len(script) /\ Reached(q)
        /\ Records(ScopeAt(q), script[q], q, locals, refs[q], climb)
    BY <1>12
  <2>5. s = ScopeAt(q).table[script[q].name] /\ s.kind = "fun"
    <3>1. Elsewhere(q, s) /\ Records(ScopeAt(q), script[q], q, locals, s, climb)
      BY <1>8, <2>1, <2>4
    <3> QED  BY ONLY <3>1 DEF Elsewhere, Records
  <2>6. g \in 1 .. q - 1
    <3>1. script[q].name \in Names
      <4>1. script[q] \in Nodes
        BY <1>2, <2>4, NodeAt
      <4>2. script[q].op = "call"
        BY <1>8 DEF Elsewhere
      <4> QED  BY <4>1, <4>2, NodeFields
    <3>2. ScopeOK(ScopeAt(q), q - 1)
      BY <1>2, <2>4, ScopeAtOK
    <3> QED  BY <2>2, <2>5, <3>1, <3>2 DEF ScopeOK, NameScoped
  <2>7. g \in Funs /\ g <= pos /\ g \in Int
    <3>1. pos \in Nat /\ Len(script) \in Nat /\ pos <= Len(script) /\ q \in 1 .. pos
      BY <1>1, <1>2
    <3>2. Funs = 0 .. Len(script)
      BY DEF Funs
    <3> QED  BY ONLY <2>6, <3>1, <3>2
  <2>8. ~ Defining(g)'
    BY <1>5, <2>3, <2>7
  <2>9. locals'[g] = locals[g]
    BY <2>3, <2>7, SignatureStep
  <2>10. Innermost(ScopeAt(q)) \in Funs /\ Innermost(ScopeAt(q)) <= pos
    <3>1. Innermost(ScopeAt(q)) \in Funs /\ Innermost(ScopeAt(q)) < q
      BY <1>2, <2>4, ScopeFuns
    <3> QED  BY <1>1, <3>1 DEF Funs
  <2>11. locals[Innermost(ScopeAt(q))] \subseteq locals'[Innermost(ScopeAt(q))]
    BY <1>1, <2>10
  <2>12. Pending(st, q) \/ Supplied(q)
    BY <2>3
  <2>13. Supplied(q) => \A v \in locals'[g] : v.fn # g => v \in locals'[Innermost(ScopeAt(q))]
    BY <2>1, <2>2, <2>9, <2>11 DEF Supplied, Upvalues
  <2>14. ~ Defining(refs[q].node)'
    <3>1. (refs[q].node)' = g
      BY <2>1, <2>2
    <3> QED  BY <2>8, <3>1 DEF Defining
  <2> QED  BY <2>1, <2>2, <2>12, <2>13, <2>14
<1>9. ASSUME NEW q, q = pos', q = pos + 1, Elsewhere(q, refs'[q])
      PROVE  ~ Defining(refs[q].node)' /\ Pending(st, q)
  <2>1. PICK g : g = refs'[q].node
    OBVIOUS
  <2>2. ~ Defining(g) /\ Pending(st, q)
    BY <1>9, <2>1
  <2>3. ~ (g > pos) /\ ~ Opening(st, g)
    BY <1>2, <2>2, DefiningNow
  <2>4. ~ (g > pos')
    <3>1. g \in 1 .. pos
      BY <1>9, <2>1
    <3> QED  BY ONLY <1>1, <1>3, <3>1
  <2>5. ~ Defining(g)'
    <3>1. stack' \in Stacks /\ ~ Opening(stack', g)
      BY <2>3
    <3> QED  BY <2>4, <3>1, DefiningNext
  <2>6. (refs[q].node)' = g
    BY <2>1
  <2> QED  BY <2>2, <2>5, <2>6 DEF Defining
<1>10. ASSUME NEW q \in 1 .. pos' PROVE CallSettled(q)'
  BY <1>1, <1>2, <1>4, <1>8, <1>9, CallSettledFixed
<1>11. Orderly(stack)'
  <2>1. PICK r : r = stack' /\ Orderly(r)
    OBVIOUS
  <2>2. Orderly(stack)' <=> Orderly(stack')
    BY Zenon DEF Orderly, Nested, FirstOnly, OnChain
  <2> QED  BY ONLY <2>1, <2>2
<1> QED  BY <1>7, <1>10, <1>11 DEF Settling

LEMMA HereChain ==
    ASSUME Inductive, InStep, [Next]_rvars, NEW q, q = pos', q = pos + 1
    PROVE  /\ ScopeAt(q).chain = TopFrame.chain /\ ChainOK(ScopeAt(q).chain)
           /\ q = Here
<1>1. PICK ops : Visiting(ops)
  BY NextKeeps, VisitsNext
<1>2. q = Here /\ ScopeAt(Here) = ScopeOf(stack, Len(stack))
  BY <1>1, VisitingPass
<1>3. ScopeOf(stack, Len(stack)).chain = TopFrame.chain
  BY TopType, TopOfPass, InStepParts
<1> QED  BY <1>2, <1>3, InnermostFunction

LEMMA BareOpening ==
    ASSUME NEW st \in Stacks, Nested(st), Bare(st), NEW f, Opening(st, f)
    PROVE  OnChain(st[Len(st)].chain, f)
<1>1. Orderly(st)
  BY BareFirst
<1>2. Len(st) \in 1 .. Len(st) /\ IsSeq(st[Len(st)].todo)
  BY TopType DEF IsSeq
<1>3. ASSUME st[Len(st)].todo # <<>> PROVE st[Len(st)].todo[1] # Body(f)
  <2>1. Len(st[Len(st)].todo) \in Nat /\ Len(st[Len(st)].todo) # 0
    BY <1>2, <1>3, SeqLength
  <2>2. 1 \in 1 .. Len(st[Len(st)].todo)
    BY <2>1
  <2>3. st[Len(st)].todo[1].do # "body"
    BY <1>2, <2>2 DEF Bare, Bodiless
  <2> QED  BY <2>3 DEF Body
<1> QED  BY <1>1, <1>3, OpeningTop

LEMMA TopOpening ==
    ASSUME NEW st \in Stacks, NEW f, OnChain(st[Len(st)].chain, f)
    PROVE  Opening(st, f)
<1>1. Len(st) \in 1 .. Len(st)
  BY TopType
<1> QED  BY <1>1 DEF Opening

LEMMA SettlingSame ==
    ASSUME Inductive, InStep, Settling, [Next]_rvars, stack' = stack, pos' = pos
    PROVE  Settling'
<1>1. PICK st : st = stack' /\ st = stack
  OBVIOUS
<1>2. st \in Stacks /\ Orderly(st) /\ pos \in Nat
  BY <1>1, InStepParts DEF Settling
<1>3. pos' # pos + 1
  BY <1>2
<1> QED  BY <1>1, <1>2, <1>3, SettlingFrom

LEMMA VisitSettles ==
    ASSUME Inductive, InStep, Settling, [Next]_rvars, NEW ops, Visiting(ops),
           NEW u \in Seq(Tasks), Bodiless(u), stack' = Instead(stack, u),
           script[Here].op = "call" /\ refs'[Here].kind = "fun" =>
               /\ refs'[Here] = Table[script[Here].name]
               /\ \E k \in 1 .. Len(u) : u[k] = Import(Here)
    PROVE  Settling'
<1>1. /\ stack \in Stacks /\ script \in Seq(Nodes) /\ Orderly(stack)
      /\ stack[Len(stack)].todo = Todo /\ TopFrame = stack[Len(stack)]
  BY InStepParts, TopOfPass DEF Settling
<1>2. /\ Todo # <<>> /\ Here \in 1 .. Len(script) /\ script[Here] \in Nodes
      /\ Here = pos + 1
  BY VisitingPass
<1>3. Head(Todo) = Expr /\ Head(Todo) = Todo[1]
  BY <1>2, FirstTodo, InStepParts DEF Visiting
<1>4. PICK st : st = Instead(stack, u)
  OBVIOUS
<1>5. /\ st \in Stacks /\ Len(st) = Len(stack)
      /\ st[Len(st)].chain = TopFrame.chain
  BY <1>1, <1>2, <1>4, InsteadType
<1>6. /\ Nested(st) /\ Bare(st)
      /\ \A q : Pending(stack, q) /\ Todo[1] # Import(q) => Pending(st, q)
      /\ \A q : \A k \in 1 .. Len(u) : u[k] = Import(q) => Pending(st, q)
  BY <1>1, <1>2, <1>4, OrderlyInstead
<1>7. Orderly(st)
  BY <1>6, BareFirst
<1>8. \A f : Opening(st, f) => Opening(stack, f)
  BY <1>1, <1>5, <1>6, BareOpening, TopOpening
<1>9. \A q : Todo[1] # Import(q)
  BY <1>3 DEF Expr, Import
<1>10. ASSUME NEW q, q = pos', q = pos + 1
       PROVE  /\ ChainOK(ScopeAt(q).chain)
              /\ Elsewhere(q, refs'[q]) =>
                     /\ refs'[q].node \in 1 .. pos
                     /\ ~ Defining(refs'[q].node) /\ Pending(st, q)
  <2>1. ScopeAt(q).chain = TopFrame.chain /\ ChainOK(ScopeAt(q).chain) /\ q = Here
    BY <1>10, HereChain
  <2> SUFFICES ASSUME Elsewhere(q, refs'[q])
               PROVE  /\ refs'[q].node \in 1 .. pos
                      /\ ~ Defining(refs'[q].node) /\ Pending(st, q)
    BY <2>1
  <2>2. PICK s, x : s = refs'[q] /\ x = script[q].name
    OBVIOUS
  <2>3. script[q].op = "call" /\ s.kind = "fun" /\ ~ OnChain(TopFrame.chain, s.node)
    BY <2>1, <2>2 DEF Elsewhere
  <2>4. s = Table[x] /\ Pending(st, q)
    BY <1>6, <2>1, <2>2, <2>3
  <2>5. x \in Names
    BY <1>2, <2>1, <2>2, <2>3, NodeFields
  <2>6. s.node \in 1 .. pos
    BY <2>3, <2>4, <2>5, InnermostFunction DEF VisibleFrom
  <2>7. Todo[1] # Body(s.node)
    BY <1>3 DEF Expr, Body
  <2>8. ~ Opening(stack, s.node)
    BY <1>1, <2>3, <2>7, OpeningTop
  <2>9. ~ (s.node > pos)
    BY <2>6, InStepParts
  <2>10. ~ Defining(s.node)
    BY <1>1, <2>8, <2>9, DefiningNow
  <2> QED  BY <2>2, <2>4, <2>6, <2>10
<1>11. \A q \in 1 .. pos : Pending(stack, q) => Pending(st, q)
  BY <1>6, <1>9
<1>12. st = stack'
  BY <1>4
<1> QED  BY <1>5, <1>7, <1>8, <1>10, <1>11, <1>12, SettlingFrom

LEMMA PushSettles ==
    ASSUME Inductive, InStep, Settling, [Next]_rvars, Todo # <<>>,
           Head(Todo).do # "import", NEW u \in Seq(Tasks), Bodiless(u), NEW fr \in AnyFrames,
           stack' = Append(Instead(stack, u), fr),
           pos' = pos \/ script[Here].op # "call",
           \A f : OnChain(TopFrame.chain, f) => OnChain(fr.chain, f),
           \A k \in 1 .. Len(fr.todo) : fr.todo[k].do = "body" => k = 1,
           \A f : OnChain(fr.chain, f) \/ (fr.todo # <<>> /\ fr.todo[1] = Body(f))
                      => OnChain(TopFrame.chain, f) \/ Head(Todo) = Body(f) \/ f > pos
    PROVE  Settling'
<1>1. /\ stack \in Stacks /\ Orderly(stack) /\ pos \in Nat
      /\ stack[Len(stack)].todo = Todo /\ TopFrame = stack[Len(stack)]
      /\ Head(Todo) = Todo[1]
  BY InStepParts, TopOfPass, FirstTodo DEF Settling
<1>2. PICK r : r = Instead(stack, u)
  OBVIOUS
<1>3. /\ r \in Stacks /\ Len(r) = Len(stack) /\ r[Len(r)].chain = TopFrame.chain
  BY <1>1, <1>2, InsteadType
<1>4. /\ Nested(r) /\ Bare(r)
      /\ \A q : Pending(stack, q) /\ Todo[1] # Import(q) => Pending(r, q)
  BY <1>1, <1>2, OrderlyInstead
<1>5. PICK st : st = Append(r, fr)
  OBVIOUS
<1>6. Orderly(st) /\ \A q : Pending(r, q) => Pending(st, q)
  BY <1>3, <1>4, <1>5, OrderlyPush
<1>7. st \in Stacks /\ Len(st) = Len(r) + 1 /\ st[Len(st)] = fr
  BY <1>3, <1>5, PushType
<1>8. ASSUME NEW f, Opening(st, f) PROVE Opening(stack, f) \/ f > pos
  <2>1. OnChain(fr.chain, f) \/ (fr.todo # <<>> /\ fr.todo[1] = Body(f))
    BY <1>6, <1>7, <1>8, OpeningTop
  <2>2. OnChain(TopFrame.chain, f) \/ Todo[1] = Body(f) \/ f > pos
    BY <1>1, <2>1
  <2> QED  BY <1>1, <2>2, OpeningTop
<1>9. \A q : Todo[1] # Import(q)
  BY <1>1 DEF Import
<1>10. ASSUME NEW q, q = pos', q = pos + 1
       PROVE  ChainOK(ScopeAt(q).chain) /\ ~ Elsewhere(q, refs'[q])
  <2>1. ChainOK(ScopeAt(q).chain) /\ q = Here
    BY <1>10, HereChain
  <2>2. pos' # pos
    BY <1>1, <1>10
  <2> QED  BY <2>1, <2>2 DEF Elsewhere
<1>11. \A q \in 1 .. pos : Pending(stack, q) => Pending(st, q)
  BY <1>4, <1>6, <1>9
<1>12. st = stack'
  BY <1>2, <1>5
<1> QED  BY <1>6, <1>7, <1>8, <1>10, <1>11, <1>12, SettlingFrom

LEMMA PlainTasks ==
    /\ \A n \in Nat : Exprs(n) \in Seq(Tasks) /\ Bodiless(Exprs(n))
    /\ <<>> \in Seq(Tasks) /\ Bodiless(<<>>)
    /\ <<Expr>> \in Seq(Tasks) /\ Bodiless(<<Expr>>)
    /\ \A p \in Nat : <<Expr, In(p)>> \in Seq(Tasks) /\ Bodiless(<<Expr, In(p)>>)
    /\ \A n, p \in Nat :
          LET u == Exprs(n) \o <<Import(p)>> IN
          u \in Seq(Tasks) /\ Bodiless(u) /\ \E k \in 1 .. Len(u) : u[k] = Import(p)
<1>1. /\ Expr \in Tasks /\ Expr.do # "body"
      /\ \A p \in Nat : /\ In(p) \in Tasks /\ In(p).do # "body"
                        /\ Import(p) \in Tasks /\ Import(p).do # "body"
  BY DEF Expr, In, Import, Tasks, Doings
<1>2. ASSUME NEW n \in Nat
      PROVE  Exprs(n) \in Seq(Tasks) /\ Len(Exprs(n)) = n /\ \A k \in 1 .. n : Exprs(n)[k] = Expr
  BY <1>1 DEF Exprs
<1>3. \A n \in Nat : Exprs(n) \in Seq(Tasks) /\ Bodiless(Exprs(n))
  BY <1>1, <1>2 DEF Bodiless
<1>4. <<>> \in Seq(Tasks) /\ Bodiless(<<>>)
  BY DEF Bodiless
<1>5. <<Expr>> \in Seq(Tasks) /\ Bodiless(<<Expr>>)
  BY <1>1, SingletonSeq DEF Bodiless
<1>6. ASSUME NEW p \in Nat
      PROVE  <<Expr, In(p)>> \in Seq(Tasks) /\ Bodiless(<<Expr, In(p)>>)
  <2>1. PICK e : e = In(p)
    OBVIOUS
  <2>2. e \in Tasks /\ e.do # "body"
    BY <1>1, <2>1
  <2>3. <<Expr, e>> \in Seq(Tasks) /\ Len(<<Expr, e>>) = 2
        /\ <<Expr, e>>[1] = Expr /\ <<Expr, e>>[2] = e
    BY <1>1, <2>2, PairSeq
  <2>4. \A k \in 1 .. 2 : k = 1 \/ k = 2
    OBVIOUS
  <2> QED  BY <1>1, <2>1, <2>2, <2>3, <2>4 DEF Bodiless
<1>7. ASSUME NEW n \in Nat, NEW p \in Nat
      PROVE  LET u == Exprs(n) \o <<Import(p)>> IN
             u \in Seq(Tasks) /\ Bodiless(u) /\ \E k \in 1 .. Len(u) : u[k] = Import(p)
  <2>1. PICK e, s : e = Import(p) /\ s = Exprs(n)
    OBVIOUS
  <2>2. e \in Tasks /\ e.do # "body" /\ s \in Seq(Tasks) /\ Len(s) = n
        /\ \A k \in 1 .. n : s[k].do # "body"
    BY <1>1, <1>2, <2>1
  <2>3. PICK u : u = s \o <<e>>
    OBVIOUS
  <2>4. /\ u \in Seq(Tasks) /\ Len(u) = n + 1 /\ u[n + 1] = e
        /\ \A k \in 1 .. n : u[k] = s[k]
    <3>1. n \in Nat
      OBVIOUS
    <3> QED  BY ONLY <2>2, <2>3, <3>1
  <2>5. n + 1 \in 1 .. n + 1 /\ \A k \in 1 .. n + 1 : k \in 1 .. n \/ k = n + 1
    OBVIOUS
  <2>6. Bodiless(u)
    BY <2>2, <2>4, <2>5 DEF Bodiless
  <2> QED  BY <2>1, <2>3, <2>4, <2>5, <2>6
<1> QED  BY <1>3, <1>4, <1>5, <1>6, <1>7

\* A frame is opened that shows what the one before does, and item h of it
\* has been done.
LEMMA OpenedSettles ==
    ASSUME Inductive, InStep, Settling, [Next]_rvars, Todo # <<>>,
           Head(Todo).do # "import", NEW fr, Opens(stack, stack', fr),
           pos' = pos \/ script[Here].op # "call",
           NEW c \in Seq(Nat), c = TopFrame.chain, NEW p \in Nat,
           \/ fr.chain = c /\ fr.todo = <<Expr>>
           \/ fr.chain = c /\ fr.todo = <<Body(p), Expr>> /\ p > pos
           \/ fr.chain = Append(c, p) /\ fr.todo = <<Expr>> /\ Head(Todo) = Body(p)
    PROVE  Settling'
<1>1. fr \in AnyFrames /\ stack' = Append(Instead(stack, <<>>), fr)
  BY DEF Opens
<1>2. IsSeq(c)
  BY DEF IsSeq
<1>3. /\ IsSeq(Append(c, p)) /\ Len(Append(c, p)) = Len(c) + 1 /\ Len(c) \in Nat
      /\ \A i \in 1 .. Len(c) : Append(c, p)[i] = c[i]
      /\ Append(c, p)[Len(c) + 1] = p
      /\ DOMAIN Append(c, p) = 1 .. Len(c) + 1 /\ DOMAIN c = 1 .. Len(c)
  BY <1>2, AppendSeq, SeqLength
<1>4. \A f : OnChain(Append(c, p), f) <=> OnChain(c, f) \/ f = p
  <2>1. /\ \A i \in 1 .. Len(c) + 1 : i \in 1 .. Len(c) \/ i = Len(c) + 1
        /\ Len(c) + 1 \in 1 .. Len(c) + 1
        /\ \A i \in 1 .. Len(c) : i \in 1 .. Len(c) + 1
    BY <1>3
  <2> QED  BY <1>3, <2>1 DEF OnChain
<1>5. \A f : OnChain(TopFrame.chain, f) => OnChain(fr.chain, f)
  BY <1>4
<1>6. /\ Len(<<Expr>>) = 1 /\ <<Expr>>[1] = Expr
      /\ Len(<<Body(p), Expr>>) = 2 /\ <<Body(p), Expr>>[1] = Body(p)
      /\ <<Body(p), Expr>>[2] = Expr
      /\ \A k \in 1 .. 1 : k = 1
      /\ \A k \in 1 .. 2 : k = 1 \/ k = 2
  BY SingletonSeq, PairSeq
<1>7. Expr.do = "expr" /\ \A f : Body(f).do = "body" /\ Body(f).node = f
  BY DEF Expr, Body
<1>8. \A k \in 1 .. Len(fr.todo) : fr.todo[k].do = "body" => k = 1
  BY <1>6, <1>7
<1>9. ASSUME NEW f, OnChain(fr.chain, f) \/ (fr.todo # <<>> /\ fr.todo[1] = Body(f))
      PROVE  OnChain(TopFrame.chain, f) \/ Head(Todo) = Body(f) \/ f > pos
  <2>0. fr.chain = c \/ (fr.chain = Append(c, p) /\ Head(Todo) = Body(p))
    OBVIOUS
  <2>1. CASE fr.todo = <<Expr>>
    <3>1. fr.todo[1] # Body(f)
      BY <1>6, <1>7, <2>1
    <3>2. OnChain(fr.chain, f)
      BY <1>9, <3>1
    <3>3. CASE fr.chain = c
      BY <3>2, <3>3
    <3>4. CASE fr.chain = Append(c, p) /\ Head(Todo) = Body(p)
      BY <1>4, <3>2, <3>4
    <3> QED  BY <2>0, <3>3, <3>4
  <2>2. CASE fr.chain = c /\ fr.todo = <<Body(p), Expr>> /\ p > pos
    <3>1. fr.todo[1] = Body(p)
      BY <1>6, <2>2
    <3>2. fr.todo[1] = Body(f) => f = p
      <4>1. Body(f).node = f /\ Body(p).node = p
        BY DEF Body
      <4> QED  BY <3>1, <4>1
    <3>3. CASE OnChain(fr.chain, f)
      BY <2>2, <3>3
    <3>4. CASE fr.todo[1] = Body(f)
      BY ONLY <2>2, <3>2, <3>4
    <3> QED  BY <1>9, <3>3, <3>4
  <2> QED  BY <2>1, <2>2
<1>10. PICK u : u = <<>>
  OBVIOUS
<1>11. u \in Seq(Tasks) /\ Bodiless(u) /\ stack' = Append(Instead(stack, u), fr)
  BY <1>1, <1>10, PlainTasks
<1> QED  BY <1>1, <1>5, <1>8, <1>9, <1>11, PushSettles

LEMMA ImportSettles ==
    ASSUME Inductive, InStep, Settling, ImportUpvalues
    PROVE  Settling'
<1>1. [Next]_rvars
  BY DEF Next
<1>2. Working("import") /\ pos' = pos
  BY DEF ImportUpvalues, Working
<1>3. CASE stack' = stack
  BY <1>1, <1>2, <1>3, SettlingSame
<1>4. CASE /\ stack' = Rest(<<>>)
           /\ Upvalues(refs[Head(Todo).node].node) \ locals[GetFunction] = {}
  <2>1. PICK e : e = Head(Todo)
    OBVIOUS
  <2>2. /\ stack \in Stacks /\ Orderly(stack) /\ pos \in Nat
        /\ stack[Len(stack)].todo = Todo /\ TopFrame = stack[Len(stack)]
        /\ stack' = Instead(stack, <<>>)
    BY <1>4, InStepParts, TopOfPass DEF Settling
  <2>3. Todo # <<>> /\ e = Todo[1] /\ e.do = "import"
        /\ AtHome(ScopeOf(stack, Len(stack)), e)
    BY <1>2, <2>1, <2>2, WorkingPass
  <2>4. GetFunction = Innermost(ScopeAt(e.node))
    <3>1. ScopeOf(stack, Len(stack)) = ScopeAt(e.node)
      BY <2>3 DEF AtHome
    <3>2. Innermost(ScopeOf(stack, Len(stack))) = GetFunction
      BY <2>2, TopType, TopOfPass
    <3> QED  BY <3>1, <3>2
  <2>5. PICK st : st = Instead(stack, <<>>)
    OBVIOUS
  <2>6. st \in Stacks /\ Len(st) = Len(stack) /\ st[Len(st)].chain = TopFrame.chain
    <3>1. PICK u : u = <<>>
      OBVIOUS
    <3>2. u \in Seq(Tasks) /\ st = Instead(stack, u)
      BY <2>5, <3>1, PlainTasks
    <3> QED  BY <2>2, <2>3, <3>2, InsteadType
  <2>7. /\ Nested(st) /\ Bare(st)
        /\ \A q : Pending(stack, q) /\ Todo[1] # Import(q) => Pending(st, q)
    <3>1. PICK u : u = <<>>
      OBVIOUS
    <3>2. u \in Seq(Tasks) /\ Bodiless(u) /\ st = Instead(stack, u)
      BY <2>5, <3>1, PlainTasks
    <3> QED  BY <2>2, <2>3, <3>2, OrderlyInstead
  <2>8. Orderly(st)
    BY <2>7, BareFirst
  <2>9. \A f : Opening(st, f) => Opening(stack, f)
    BY <2>2, <2>6, <2>7, BareOpening, TopOpening
  <2>10. ASSUME NEW q \in 1 .. pos, Pending(stack, q) PROVE Pending(st, q) \/ Supplied(q)
    <3>1. CASE Todo[1] # Import(q)
      BY <2>7, <2>10, <3>1
    <3>2. CASE Todo[1] = Import(q)
      <4>1. e.node = q
        BY <2>3, <3>2 DEF Import
      <4>2. Supplied(q)
        BY <1>4, <2>1, <2>4, <4>1 DEF Supplied
      <4> QED  BY <4>2
    <3> QED  BY <3>1, <3>2
  <2>11. pos' # pos + 1 /\ st = stack'
    BY <1>2, <2>2, <2>5
  <2> QED  BY <1>1, <2>6, <2>8, <2>9, <2>10, <2>11, SettlingFrom
<1> QED  BY <1>3, <1>4 DEF ImportUpvalues

LEMMA CloseSettles ==
    ASSUME Inductive, InStep, Settling, CloseFrame
    PROVE  Settling'
<1>1. [Next]_rvars
  BY DEF Next
<1>2. pos' = pos /\ Todo = <<>>
  BY DEF CloseFrame
<1>3. CASE stack' = stack
  BY <1>1, <1>2, <1>3, SettlingSame
<1>4. CASE Len(stack) > 1 /\ stack' = SubSeq(stack, 1, Len(stack) - 1)
  <2>1. /\ stack \in Stacks /\ Orderly(stack) /\ pos \in Nat
        /\ stack[Len(stack)].todo = Todo
    BY InStepParts, TopOfPass DEF Settling
  <2>2. PICK st : st = SubSeq(stack, 1, Len(stack) - 1)
    OBVIOUS
  <2>3. st \in Stacks
    BY <1>4, <2>1, <2>2, PopType
  <2>4. /\ Nested(st) /\ Bare(st)
        /\ \A f : OnChain(st[Len(st)].chain, f) => OnChain(stack[Len(stack)].chain, f)
        /\ \A q : Pending(stack, q) => Pending(st, q)
    BY <1>2, <1>4, <2>1, <2>2, OrderlyPop
  <2>5. Orderly(st)
    BY <2>4, BareFirst
  <2>6. \A f : Opening(st, f) => Opening(stack, f)
    BY <2>1, <2>3, <2>4, BareOpening, TopOpening
  <2>7. pos' # pos + 1 /\ st = stack'
    BY <1>2, <1>4, <2>1, <2>2
  <2> QED  BY <1>1, <2>3, <2>4, <2>5, <2>6, <2>7, SettlingFrom
<1> QED  BY <1>3, <1>4 DEF CloseFrame

LEMMA NextSettles ==
    ASSUME Inductive, InStep, Settling, Next, status' \in {"resolving", "resolved"}
    PROVE  Settling'
<1>1. [Next]_rvars
  OBVIOUS
<1>2. /\ stack \in Stacks /\ script \in Seq(Nodes) /\ pos \in Nat /\ Len(script) \in Nat
      /\ stack[Len(stack)].todo = Todo /\ TopFrame = stack[Len(stack)]
      /\ stack[Len(stack)].table = Table /\ FunctionOn(stack[Len(stack)]) = GetFunction
      /\ \A w : Rest(w) = Instead(stack, w)
  BY InStepParts, TopOfPass
<1>3. PICK c : c = TopFrame.chain
  OBVIOUS
<1>4. c \in Seq(Nat)
  BY <1>2, <1>3, TopType
<1>5. CASE ResolveOperands
  <2>1. /\ Visiting({"const", "vector", "splat", "if"})
        /\ stack' = Rest(Exprs(Arity(script[Here])))
    BY <1>5 DEF ResolveOperands
  <2>2. script[Here] \in Nodes /\ script[Here].op # "call"
    BY <2>1, VisitingPass
  <2>3. Arity(script[Here]) \in Nat
    BY <2>2, NodeFields
  <2>4. PICK u : u = Exprs(Arity(script[Here]))
    OBVIOUS
  <2>5. u \in Seq(Tasks) /\ Bodiless(u) /\ stack' = Instead(stack, u)
    BY <1>2, <2>1, <2>3, <2>4, PlainTasks
  <2> QED  BY <1>1, <2>1, <2>2, <2>5, VisitSettles
<1>6. ASSUME NEW ops, Visiting(ops), "call" \notin ops, stack' = Rest(<<>>)
      PROVE  Settling'
  <2>1. script[Here].op # "call"
    BY <1>6, VisitingPass
  <2>2. PICK u : u = <<>>
    OBVIOUS
  <2>3. u \in Seq(Tasks) /\ Bodiless(u) /\ stack' = Instead(stack, u)
    BY <1>2, <1>6, <2>2, PlainTasks
  <2> QED  BY <1>1, <1>6, <2>1, <2>3, VisitSettles
<1>7. CASE ResolveVariable
  <2>1. Visiting({"var"}) /\ stack' = Rest(<<>>)
    BY <1>7 DEF ResolveVariable, Throw
  <2> QED  BY <1>6, <2>1
<1>8. CASE ResolveReturn
  <2>1. Visiting({"return"}) /\ stack' = Rest(<<>>)
    BY <1>8 DEF ResolveReturn, Throw
  <2> QED  BY <1>6, <2>1
<1>9. CASE ResolveLet
  <2>1. Visiting({"let"}) /\ stack' = Rest(<<Expr, In(Here)>>)
    BY <1>9 DEF ResolveLet
  <2>2. script[Here].op # "call" /\ Here \in Nat
    BY <1>2, <2>1, VisitingPass
  <2>3. PICK u : u = <<Expr, In(Here)>>
    OBVIOUS
  <2>4. u \in Seq(Tasks) /\ Bodiless(u) /\ stack' = Instead(stack, u)
    BY <1>2, <2>1, <2>2, <2>3, PlainTasks
  <2> QED  BY <1>1, <2>1, <2>2, <2>4, VisitSettles
<1>10. CASE ResolveCall
  <2> DEFINE s == Table[script[Here].name]
             w == Exprs(script[Here].argc) \o
                     (IF s.kind = "fun" THEN <<Import(Here)>> ELSE <<>>)
  <2>1. Visiting({"call"})
    BY <1>10 DEF ResolveCall
  <2>2. stack' = Rest(w) /\ refs' = [refs EXCEPT ![Here] = s]
    BY <1>10 DEF ResolveCall, Throw
  <2>3. /\ script[Here] \in Nodes /\ script[Here].op = "call" /\ Here \in Nat
        /\ Here \in 1 .. Len(script)
    BY <1>2, <2>1, VisitingPass
  <2>4. script[Here].argc \in Nat
    BY <2>3, NodeFields
  <2>5. refs'[Here] = s
    BY <2>2, <2>3, InStepParts DEF TypeOK
  <2>6. PICK u : u = w
    OBVIOUS
  <2>7. PICK n, h : n = script[Here].argc /\ h = Here
    OBVIOUS
  <2> HIDE DEF s
  <2>8. CASE s.kind = "fun"
    <3>1. u = Exprs(n) \o <<Import(h)>>
      BY <2>6, <2>7, <2>8
    <3>2. u \in Seq(Tasks) /\ Bodiless(u) /\ \E k \in 1 .. Len(u) : u[k] = Import(h)
      BY <2>3, <2>4, <2>7, <3>1, PlainTasks
    <3>3. stack' = Instead(stack, u)
      BY <1>2, <2>2, <2>6
    <3>4. refs'[Here] = Table[script[Here].name]
      BY <2>5 DEF s
    <3> QED  BY <1>1, <2>1, <2>7, <3>2, <3>3, <3>4, VisitSettles
  <2>9. CASE s.kind # "fun"
    <3>1. u = Exprs(n) \o <<>>
      BY <2>6, <2>7, <2>9
    <3>2. Exprs(n) \in Seq(Tasks) /\ Bodiless(Exprs(n))
      BY <2>4, <2>7, PlainTasks
    <3>3. u = Exprs(n)
      BY <3>1, <3>2, ConcatNothing
    <3>4. u \in Seq(Tasks) /\ Bodiless(u) /\ stack' = Instead(stack, u)
      BY <1>2, <2>2, <2>6, <3>2, <3>3
    <3>5. refs'[Here].kind # "fun"
      BY <2>5, <2>9
    <3> QED  BY <1>1, <2>1, <3>4, <3>5, VisitSettles
  <2> QED  BY <2>8, <2>9
<1>11. CASE EnterLet
  <2> DEFINE e == Head(Todo)  u == <<Expr>>
             fr0 == Frame(TopFrame.chain,
                       WithSymbol(Table, Variable(GetFunction, e.node, script[e.node].name)), u)
  <2>1. Working("in") /\ stack' = Append(Rest(<<>>), fr0)
    BY <1>11 DEF EnterLet
  <2>2. /\ Todo # <<>> /\ e.do = "in" /\ ItemOK(TopFrame.chain, e) /\ pos' = pos
    BY <2>1, WorkingPass
  <2>3. e.node \in 1 .. Len(script) /\ script[e.node].op = "let"
    BY <2>2, InStepParts DEF ItemOK
  <2>4. u \in Seq(Tasks)
    BY PlainTasks
  <2>5. stack' = OpenLet(stack, e.node, u)
    BY <1>2, <2>1 DEF OpenLet
  <2>6. PICK r, p : r = stack' /\ p = e.node
    OBVIOUS
  <2>7. stack[Len(stack)].todo # <<>> /\ p \in 1 .. Len(script) /\ script[p].op = "let"
        /\ r = OpenLet(stack, p, u)
    BY <1>2, <2>2, <2>3, <2>5, <2>6
  <2> HIDE DEF u
  <2>8. PICK fr : Opens(stack, r, fr) /\ fr.todo = u /\ fr.chain = stack[Len(stack)].chain
    BY <1>2, <2>4, <2>7, LetOpened
  <2>9. fr.chain = c /\ fr.todo = <<Expr>> /\ Opens(stack, stack', fr)
    BY <1>2, <1>3, <2>6, <2>8 DEF u
  <2>10. Head(Todo).do # "import" /\ 0 \in Nat
    BY <2>2
  <2> QED  BY <1>1, <1>3, <1>4, <2>2, <2>9, <2>10, OpenedSettles
<1>12. CASE ResolveFunction
  <2> DEFINE u == <<Body(Here), Expr>>
  <2>1. /\ Visiting({"fun"})
        /\ stack' = Append(Rest(<<>>), Frame(TopFrame.chain,
               WithSymbol(Table, Function(GetFunction, Here, script[Here].name)), u))
    BY <1>12 DEF ResolveFunction
  <2>2. /\ Here = pos + 1 /\ Here \in 1 .. Len(script) /\ Todo # <<>>
        /\ script[Here].op = "fun"
    BY <2>1, VisitingPass
  <2>3. Head(Todo).do # "import"
    BY <2>1 DEF Visiting, Expr
  <2>4. u \in Seq(Tasks)
    <3>1. PICK a, b : a = Body(Here) /\ b = Expr
      OBVIOUS
    <3>2. a \in Tasks /\ b \in Tasks
      BY <1>2, <2>2, <3>1 DEF Body, Expr, Tasks, Doings
    <3>3. <<a, b>> \in Seq(Tasks)
      BY <3>2
    <3> QED  BY <3>1, <3>3
  <2>5. stack' = OpenNamed(stack, Here, u)
    BY <1>2, <2>1 DEF OpenNamed
  <2>6. PICK r, p : r = stack' /\ p = Here
    OBVIOUS
  <2>7. stack[Len(stack)].todo # <<>> /\ p \in 1 .. Len(script) /\ script[p].op = "fun"
        /\ r = OpenNamed(stack, p, u)
    BY <1>2, <2>2, <2>5, <2>6
  <2> HIDE DEF u
  <2>8. PICK fr : Opens(stack, r, fr) /\ fr.todo = u /\ fr.chain = stack[Len(stack)].chain
    BY <1>2, <2>4, <2>7, NamedOpened
  <2>9. fr.chain = c /\ fr.todo = <<Body(p), Expr>> /\ Opens(stack, stack', fr)
    BY <1>2, <1>3, <2>6, <2>8 DEF u
  <2>10. p \in Nat /\ p > pos /\ script[Here].op # "call"
    BY <1>2, <2>2, <2>6
  <2> QED  BY <1>1, <1>3, <1>4, <2>2, <2>3, <2>9, <2>10, OpenedSettles
<1>13. CASE EnterBody
  <2> DEFINE e == Head(Todo)  u == <<Expr>>
  <2>1. /\ Working("body")
        /\ stack' = Append(Rest(<<>>), Frame(Append(TopFrame.chain, e.node),
               WithArguments(Table, e.node, script[e.node].params), u))
    BY <1>13 DEF EnterBody
  <2>2. /\ Todo # <<>> /\ e.do = "body" /\ ItemOK(TopFrame.chain, e) /\ pos' = pos
    BY <2>1, WorkingPass
  <2>3. e.node \in 1 .. Len(script) /\ script[e.node].op = "fun"
    BY <2>2, InStepParts DEF ItemOK
  <2>4. u \in Seq(Tasks)
    BY PlainTasks
  <2>5. stack' = OpenBody(stack, e.node, u)
    BY <1>2, <2>1 DEF OpenBody
  <2>6. PICK r, p : r = stack' /\ p = e.node
    OBVIOUS
  <2>7. stack[Len(stack)].todo # <<>> /\ p \in 1 .. Len(script) /\ script[p].op = "fun"
        /\ r = OpenBody(stack, p, u)
    BY <1>2, <2>2, <2>3, <2>5, <2>6
  <2>8. e = Body(p)
    <3>1. e \in Items
      BY <2>1, Worked
    <3> QED  BY <2>2, <2>6, <3>1 DEF Items, Body
  <2> HIDE DEF u
  <2>9. PICK fr : Opens(stack, r, fr) /\ fr.todo = u
                  /\ fr.chain = Append(stack[Len(stack)].chain, p)
    BY <1>2, <2>4, <2>7, BodyOpened
  <2>10. fr.chain = Append(c, p) /\ fr.todo = <<Expr>> /\ Opens(stack, stack', fr)
    BY <1>2, <1>3, <2>6, <2>9 DEF u
  <2>11. Head(Todo).do # "import" /\ p \in Nat /\ Head(Todo) = Body(p)
    BY <1>2, <2>2, <2>7, <2>8
  <2> QED  BY <1>1, <1>3, <1>4, <2>2, <2>10, <2>11, OpenedSettles
<1>14. CASE ImportUpvalues
  BY <1>14, ImportSettles
<1>15. CASE CloseFrame
  BY <1>15, CloseSettles
<1>16. CASE ImportFound \/ ImportFromParent
  <2>1. stack' = stack /\ pos' = pos
    BY <1>16 DEF ImportFound, ImportFromParent
  <2> QED  BY <1>1, <2>1, SettlingSame
<1> QED  BY <1>5, <1>7, <1>8, <1>9, <1>10, <1>11, <1>12, <1>13, <1>14, <1>15, <1>16 DEF Next

LEMMA InitSettles == ASSUME Init PROVE Settling
<1>1. script \in Seq(Nodes)
  BY InitInductive DEF Inductive, TypeOK
<1>2. pos = 0 /\ stack = FirstStack
  BY DEF Init, FirstStack, ToplevelChain
<1>3. PICK st : st = FirstStack
  OBVIOUS
<1>4. Len(st) = 1 /\ st[1].todo = <<Expr>>
  BY <1>1, <1>3, AtToplevel
<1>5. Len(st[1].todo) = 1 /\ st[1].todo[1] = Expr
  BY <1>4, SingletonSeq
<1>6. Orderly(st)
  <2>1. \A i \in 1 .. Len(st) : i = 1
    BY <1>4
  <2>2. Nested(st)
    BY <2>1 DEF Nested
  <2>3. \A k \in 1 .. Len(st[1].todo) : k = 1
    BY <1>5
  <2>4. FirstOnly(st)
    BY <1>5, <2>1, <2>3 DEF FirstOnly, Expr
  <2> QED  BY <2>2, <2>4 DEF Orderly
<1>7. \A q \in 1 .. pos : FALSE
  BY <1>2
<1> QED  BY <1>2, <1>3, <1>6, <1>7 DEF Settling

LEMMA Settles ==
    ASSUME Inductive, Passing => InStep, Passing => Settling, [Next]_rvars
    PROVE  (Passing => Settling)'
<1> SUFFICES ASSUME Passing' PROVE Settling'
  OBVIOUS
<1>1. status' \in {"resolving", "resolved"}
  BY DEF Passing
<1>2. CASE UNCHANGED rvars
  <2>1. Passing /\ stack' = stack /\ pos' = pos
    BY <1>1, <1>2 DEF Passing, rvars
  <2> QED  BY <2>1, SettlingSame
<1>3. CASE Next
  <2>1. status = "resolving"
    BY <1>3 DEF Next, ResolveOperands, ResolveVariable, ResolveReturn, ResolveLet,
                EnterLet, ResolveFunction, EnterBody, ResolveCall, ImportUpvalues,
                CloseFrame, ImportFound, ImportFromParent, Visiting, Working,
                Resolving, Importing
  <2> QED  BY <1>1, <1>3, <2>1, NextSettles DEF Passing
<1> QED  BY <1>2, <1>3

(* A variable is not older than its function, and the program is one.      *)
Dated ==
    /\ script \in Programs
    /\ \A f \in Funs : \A v \in locals[f] : v.fn <= v.node

LEMMA DatedFrom ==
    ASSUME Inductive, Dated, script' = script,
           \A f \in Funs : \A v \in locals'[f] :
               \/ \E g \in Funs : v \in locals[g]
               \/ v.fn <= v.node
    PROVE  Dated'
<1>1. Funs' = Funs
  BY DEF Funs
<1> QED  BY <1>1 DEF Dated

LEMMA NextDated == ASSUME Inductive, Dated, [Next]_rvars PROVE Dated'
<1>1. TypeOK /\ locals \in [Funs -> SUBSET Symbols] /\ pos \in 0 .. Len(script)
      /\ script \in Seq(Nodes) /\ Len(script) \in Nat
  BY LenProperties DEF Inductive, TypeOK
<1>2. CASE UNCHANGED rvars \/ ResolveOperands \/ ResolveReturn \/ EnterLet \/ EnterBody
           \/ ResolveCall \/ CloseFrame \/ ResolveVariable \/ ImportUpvalues
           \/ ImportFromParent
  <2>1. UNCHANGED <<script, locals>>
    BY <1>2 DEF rvars, ResolveOperands, ResolveReturn, EnterLet, EnterBody, ResolveCall,
                CloseFrame, ResolveVariable, ImportUpvalues, ImportFromParent, Throw
  <2> QED  BY <2>1, DatedFrom
<1>3. CASE ResolveLet
  <2> DEFINE v == Variable(GetFunction, Here, script[Here].name)
  <2>1. /\ script' = script /\ Visiting({"let"})
        /\ locals' = [locals EXCEPT ![GetFunction] = @ \cup {v}]
    BY <1>3 DEF ResolveLet
  <2>2. v.fn = GetFunction /\ v.node = Here /\ Here = pos + 1
    BY DEF Variable, Here
  <2>3. GetFunction \in 0 .. pos
    <3>1. GetFunction \in 0 .. Len(script) /\ GetFunction <= pos
      BY InnermostFunction DEF Funs
    <3> QED  BY <1>1, <3>1
  <2> HIDE DEF v
  <2>4. v.fn <= v.node
    BY <1>1, <2>2, <2>3
  <2>5. \A f \in Funs : \A u \in locals'[f] : u \in locals[f] \/ u = v
    BY <1>1, <2>1
  <2> QED  BY <2>1, <2>4, <2>5, DatedFrom
<1>4. CASE ResolveFunction
  <2>1. /\ script' = script
        /\ locals' = [locals EXCEPT ![Here] = Arguments(Here, script[Here].params)]
    BY <1>4 DEF ResolveFunction
  <2>2. \A v \in Arguments(Here, script[Here].params) : v.fn <= v.node
    BY <1>1 DEF Arguments, Variable, Here
  <2>3. \A f \in Funs : \A u \in locals'[f] :
            u \in locals[f] \/ u \in Arguments(Here, script[Here].params)
    BY <1>1, <2>1
  <2> QED  BY <2>1, <2>2, <2>3, DatedFrom
<1>5. CASE ImportFound
  <2>1. /\ script' = script /\ Activation.var \in locals[Activation.fn]
        /\ Importing
        /\ \/ locals' = locals
           \/ locals' = [locals EXCEPT ![climb[Len(climb) - 1].fn] = @ \cup {Activation.var}]
    BY <1>5 DEF ImportFound
  <2>2. Activation.fn \in Funs
    <3>1. climb \in Seq([fn : Funs, var : Symbols]) /\ climb # <<>>
      BY <1>1, <2>1 DEF TypeOK, Importing
    <3>2. Len(climb) \in 1 .. Len(climb)
      BY <3>1, LenProperties, EmptySeq
    <3>3. climb[Len(climb)] \in [fn : Funs, var : Symbols]
      BY <3>1, <3>2, ElementOfSeq
    <3> QED  BY <3>3 DEF Activation
  <2>3. \A f \in Funs : \A u \in locals'[f] : u \in locals[f] \/ u = Activation.var
    BY <1>1, <2>1
  <2> QED  BY <2>1, <2>2, <2>3, DatedFrom
<1> QED  BY <1>2, <1>3, <1>4, <1>5 DEF Next

LEMMA InitDated == ASSUME Init PROVE Dated
<1>1. \A v \in Arguments(0, Inputs) : v.fn <= v.node
  BY DEF Arguments, Variable
<1>2. locals = [f \in Funs |-> IF f = 0 THEN Arguments(0, Inputs) ELSE {}]
      /\ script \in Programs
  BY DEF Init
<1> QED  BY <1>1, <1>2 DEF Dated

-----------------------------------------------------------------------------
(* At the end of the pass every node has been visited, and no call waits   *)
(* for its imports any more.                                               *)
LEMMA AllRead ==
    ASSUME Inductive, InStep, script \in Programs, status = "resolved"
    PROVE  pos = Len(script) /\ \A q : ~ Pending(stack, q)
<1>1. /\ script \in Seq(Nodes) /\ pos \in 0 .. Len(script) /\ pos \in Nat
      /\ Len(script) \in Nat /\ stack \in Stacks /\ Standing(stack, Walk[pos]) /\ Recorded
  BY InStepParts
<1>2. Len(stack) = 1 /\ Todo = <<>>
  BY DEF InStep
<1>3. stack[1].todo = <<>>
  BY <1>2, TopOfPass
<1>4. \A q : ~ Pending(stack, q)
  <2> SUFFICES ASSUME NEW q, Pending(stack, q) PROVE FALSE
    OBVIOUS
  <2>1. PICK i \in 1 .. Len(stack) : \E k \in 1 .. Len(stack[i].todo) : stack[i].todo[k] = Import(q)
    BY DEF Pending
  <2>2. i = 1
    BY <1>2
  <2>3. Len(stack[i].todo) = 0
    BY <1>3, <2>2, NothingSeq
  <2> QED  BY <2>1, <2>3
<1>5. Len(Walk[pos]) = 0
  <2>1. PICK b \in [0 .. Len(stack) -> Nat] :
          /\ b[0] = 0 /\ b[Len(stack)] = Len(Walk[pos])
          /\ \A i \in 1 .. Len(stack) :
                Threads(Positions(Walk[pos], ScopeOf(stack, i)), stack[i].todo, b[i], b[i - 1])
    BY <1>1 DEF Standing
  <2> DEFINE R == Positions(Walk[pos], ScopeOf(stack, 1))
  <2>2. b[0] = 0 /\ b[1] = Len(Walk[pos])
    BY <1>2, <2>1
  <2>3. 1 \in 1 .. Len(stack)
    BY <1>2
  <2>4. Threads(R, stack[1].todo, b[1], b[1 - 1])
    BY <2>1, <2>3
  <2> HIDE DEF R
  <2>5. PICK t : t = <<>> /\ t = stack[1].todo
    BY <1>3
  <2>6. Len(t) = 0
    BY <2>5, NothingSeq
  <2>7. PICK g \in [1 .. Len(t) + 1 -> Nat] : g[1] = b[1] /\ g[Len(t) + 1] = b[1 - 1]
    BY <2>4, <2>5 DEF Threads
  <2>8. b[1] = b[0]
    BY <2>6, <2>7
  <2> QED  BY <2>2, <2>8
<1>6. pos # 0
  <2>1. Walk[0] = <<Toplevel>>
    BY <1>1, WalkType
  <2>2. Len(Walk[0]) = 1
    BY <2>1, SingletonSeq
  <2> QED  BY ONLY <1>5, <2>2
<1>7. pos \in 1 .. Len(script) /\ pos \in 1 .. pos /\ pos - 1 \in 0 .. Len(script)
  BY <1>1, <1>6
<1>8. Reached(pos)
  BY <1>1, <1>7 DEF Recorded, Resolved
<1> DEFINE w == Walk[pos - 1]
<1>9. w \in Seq(Scopes) /\ w # <<>> /\ WalkAgrees(pos - 1) /\ Walk[pos] = Visit(w, pos)
  BY <1>1, <1>7, <1>8, WalkType, WalkLexical DEF Reached
<1>10. /\ Remaining(script)[pos - 1] = Len(w)
       /\ \A k \in 1 .. Len(w) : Agrees(w[k], Firsts(pos - 1, k), Seconds(pos - 1, k))
  BY <1>9 DEF WalkAgrees
<1>11. FunctionAt(script, pos) = Innermost(w[Len(w)])
  BY <1>1, <1>7, <1>8, ScopeLexical DEF ScopeAt
<1> HIDE DEF w
<1>12. Remaining(script)[pos] = Len(Visit(w, pos))
  BY <1>1, <1>7, <1>9, <1>10, <1>11, VisitAgrees
<1>13. pos = Len(script)
  BY <1>1, <1>5, <1>9, <1>12, TreesAssumption
<1> QED  BY <1>4, <1>13

(* The imports of every call are in its function, when it calls neither    *)
(* itself nor a function still being defined.                              *)
CallsSupplied ==
    \A q \in NodesOf(script, "call") :
        refs[q].kind = "fun" /\ ~ CallsOutward(script, q) =>
            Upvalues(refs[q].node) \subseteq locals[FunctionAt(script, q)]

LEMMA WholePass ==
    ASSUME Inductive, InStep, script \in Programs, status = "resolved",
           NEW q \in DOMAIN script
    PROVE  /\ q \in 1 .. pos /\ q \in 1 .. Len(script) /\ Reached(q)
           /\ Records(ScopeAt(q), script[q], q, locals, refs[q], <<>>)
           /\ refs[q] = ScopeAt(q).table[script[q].name]
                 \/ script[q].op \notin {"var", "call"}
<1>1. script \in Seq(Nodes) /\ pos = Len(script) /\ Recorded /\ climb = <<>>
  BY AllRead, InStepParts DEF InStep
<1>2. q \in 1 .. pos /\ q \in 1 .. Len(script)
  BY <1>1, LenProperties
<1>3. Reached(q) /\ Records(ScopeAt(q), script[q], q, locals, refs[q], climb)
  BY <1>1, <1>2 DEF Recorded, Resolved
<1> QED  BY <1>1, <1>2, <1>3 DEF Records

LEMMA SuppliedAtEnd ==
    ASSUME Inductive, InStep, Settling, script \in Programs, status = "resolved"
    PROVE  CallsSupplied
<1> SUFFICES ASSUME NEW q \in NodesOf(script, "call"), refs[q].kind = "fun",
                    ~ CallsOutward(script, q)
             PROVE  Upvalues(refs[q].node) \subseteq locals[FunctionAt(script, q)]
  BY DEF CallsSupplied
<1>1. q \in DOMAIN script /\ script[q].op = "call" /\ script \in Seq(Nodes)
  BY InStepParts DEF NodesOf
<1>2. /\ q \in 1 .. pos /\ q \in 1 .. Len(script) /\ Reached(q)
      /\ refs[q] = ScopeAt(q).table[script[q].name]
  BY <1>1, WholePass
<1>3. script[q].name \in Names
  BY <1>1, <1>2, NodeAt, NodeFields
<1>4. /\ refs[q] = Denotes(script, q, script[q].name)
      /\ Innermost(ScopeAt(q)) = FunctionAt(script, q)
      /\ \A f : (\E n \in 1 .. Len(ScopeAt(q).chain) : ScopeAt(q).chain[n] = f)
                       <=> f \in EnclosingFuns(script, q)
  BY <1>1, <1>2, <1>3, ScopeLexical
<1>5. CASE refs[q].node = FunctionAt(script, q)
  BY <1>5 DEF Upvalues
<1>6. CASE refs[q].node # FunctionAt(script, q)
  <2>1. refs[q].node \notin EnclosingFuns(script, q)
    BY <1>4, <1>6 DEF CallsOutward
  <2>2. ~ OnChain(ScopeAt(q).chain, refs[q].node)
    <3>1. ScopeAt(q).chain \in Seq(Nat)
      BY <1>1, <1>2, ScopeAtOK, ScopeType
    <3>2. DOMAIN ScopeAt(q).chain = 1 .. Len(ScopeAt(q).chain)
      BY <3>1, LenProperties
    <3> QED  BY <1>4, <2>1, <3>2 DEF OnChain
  <2>3. Elsewhere(q, refs[q])
    BY <1>1, <2>2 DEF Elsewhere
  <2>4. Pending(stack, q) \/ Supplied(q)
    BY <1>2, <2>3 DEF Settling, CallSettled
  <2>5. Supplied(q)
    BY <2>4, AllRead
  <2> QED  BY <1>4, <2>5 DEF Supplied
<1> QED  BY <1>5, <1>6

LEMMA FirstSubtree ==
    ASSUME NEW t \in Seq(Nodes), NEW p \in 1 .. Len(t)
    PROVE  LastOf(t, p, 1) \in Int /\ Subtree(t, p, 1) = p + 1 .. LastOf(t, p, 1)
<1> DEFINE d == Remaining(t)  Read(k) == {s \in p .. Len(t) : d[s] <= d[p] - k}
<1>1. Len(t) \in Nat /\ p \in Nat /\ p \in 0 .. Len(t)
  BY LenProperties
<1>2. d[p] \in Int
  BY <1>1, RemainingIs
<1>3. \A k : LastOf(t, p, k) = IF Read(k) = {} THEN Len(t) ELSE Min(Read(k))
  BY DEF LastOf
<1> HIDE DEF d
<1>4. \A k : Read(k) # {} => Min(Read(k)) \in Read(k) /\ \A s \in Read(k) : Min(Read(k)) <= s
  <2> SUFFICES ASSUME NEW k, Read(k) # {}
               PROVE  Min(Read(k)) \in Read(k) /\ \A s \in Read(k) : Min(Read(k)) <= s
    OBVIOUS
  <2>1. Read(k) \subseteq Nat
    BY <1>1
  <2>2. PICK m \in Read(k) : \A s \in Read(k) : m <= s
    BY <2>1, LeastNumber
  <2> QED  BY <2>2 DEF Min
<1>5. p \in Read(0) /\ \A k : \A s \in Read(k) : s \in Nat /\ p <= s
  BY <1>1, <1>2
<1> HIDE DEF Read
<1>6. LastOf(t, p, 0) = p
  <2>1. LastOf(t, p, 0) = Min(Read(0))
    BY <1>3, <1>5
  <2>2. PICK m : m = Min(Read(0))
    OBVIOUS
  <2>3. m \in Read(0) /\ m <= p
    BY <1>4, <1>5, <2>2
  <2>4. m \in Nat /\ p <= m
    BY <1>5, <2>3
  <2> QED  BY <1>1, <2>1, <2>2, <2>3, <2>4
<1>7. LastOf(t, p, 1) \in Int
  <2>1. Read(1) # {} => Min(Read(1)) \in Read(1)
    BY <1>4
  <2>2. Read(1) # {} => Min(Read(1)) \in Nat
    BY <1>5, <2>1
  <2> QED  BY <1>1, <1>3, <2>2
<1>8. 1 - 1 = 0
  OBVIOUS
<1> QED  BY <1>6, <1>7, <1>8 DEF Subtree

(* A variable that a node can see and its function has: all functions      *)
(* around the node have it, down to one that v is declared in.             *)
LEMMA HeldAround ==
    ASSUME Inductive, InStep, Settling, Dated, status = "resolved",
           NEW q \in DOMAIN script, NEW v \in ScopeAt(q).seen,
           v \in locals[FunctionAt(script, q)],
           NEW f \in NodesOf(script, "fun"), f \in EnclosingFuns(script, q),
           f # v.fn, f \notin EnclosingFuns(script, v.node)
    PROVE  v \in locals[f]
<1> DEFINE c == ScopeAt(q).chain  n == Len(c)
<1>1. script \in Seq(Nodes) /\ script \in Programs /\ locals \in [Funs -> SUBSET Symbols]
  BY InStepParts DEF Dated, TypeOK
<1>2. q \in 1 .. pos /\ q \in 1 .. Len(script) /\ Reached(q) /\ q \in Nat
  BY <1>1, WholePass, NodeAt
<1>3. c \in Seq(Nat) /\ n \in 1 .. n /\ DOMAIN c = 1 .. n /\ n \in Nat
  <2>1. c \in Seq(Nat) /\ n \in 1 .. n
    BY <1>1, <1>2, ScopeAtOK, ScopeType
  <2> QED  BY <2>1, LenProperties
<1>4. /\ Innermost(ScopeAt(q)) = FunctionAt(script, q) /\ Innermost(ScopeAt(q)) = c[n]
      /\ \A g : (\E i \in 1 .. n : c[i] = g) <=> g \in EnclosingFuns(script, q)
  BY <1>1, <1>2, ScopeLexical DEF Innermost
<1>5. ScopeOK(ScopeAt(q), q - 1)
  BY <1>1, <1>2, ScopeAtOK
<1>6. SeenScoped(c, v, q - 1) /\ ChainScoped(c, q - 1)
  BY <1>5 DEF ScopeOK
<1> HIDE DEF c, n
<1>7. /\ \A i \in 1 .. n : c[i] \in 0 .. q - 1 /\ c[i] \in Nat /\ c[i] < q
      /\ \A i, j \in 1 .. n : i < j => c[i] < c[j]
  BY <1>2, <1>6 DEF ChainScoped, n
<1>8. PICK k \in 1 .. n : c[k] = f
  BY <1>4
<1>9. PICK h \in 1 .. n : c[h] = v.fn
  BY <1>6 DEF SeenScoped, n
<1>10. v.node \in 0 .. q - 1 /\ v.node \in Nat /\ v.node < q /\ v.kind = "var"
  BY <1>2, <1>6 DEF SeenScoped
<1>11. \A i \in 1 .. n : c[i] \in Funs
  <2>1. Len(script) \in Nat /\ q <= Len(script)
    BY <1>1, <1>2, NodeAt
  <2> QED  BY <1>2, <1>7, <2>1 DEF Funs
<1>12. \A i \in 2 .. n : parent[c[i]] = c[i - 1]
  BY <1>2 DEF Settling, ChainOK, c, n
<1>13. ~ (k < h)
  <2> SUFFICES ASSUME k < h PROVE FALSE
    OBVIOUS
  <2>1. f < v.fn /\ f \in Nat /\ v.fn \in Nat
    BY <1>7, <1>8, <1>9
  <2>2. v \in locals[v.fn] /\ v.fn \in Funs
    <3>1. \A u \in ScopeAt(q).seen : u \in locals[u.fn]
      BY <1>1, WholePass DEF Records
    <3> QED  BY <1>9, <1>11, <3>1
  <2>3. v.fn <= v.node
    BY <2>2 DEF Dated
  <2>4. f < v.node
    BY <1>10, <2>1, <2>3
  <2>5. f \in 1 .. Len(script) /\ f # 0
    BY <1>1, LenProperties DEF NodesOf
  <2>6. q \in Subtree(script, f, 1)
    BY <2>5 DEF EnclosingFuns, Definition
  <2>7. v.node \in Subtree(script, f, 1)
    <3>1. v.node \in 1 .. Len(script) /\ v.node \in Int /\ q \in Int
      BY <1>1, <1>2, <1>10, <2>4, <2>5, NodeAt
    <3>2. /\ LastOf(script, f, 1) \in Int
          /\ Subtree(script, f, 1) = f + 1 .. LastOf(script, f, 1)
      BY <1>1, <2>5, FirstSubtree
    <3> QED  BY <1>10, <2>1, <2>4, <2>6, <3>1, <3>2
  <2>8. f \in EnclosingFuns(script, v.node)
    BY <2>5, <2>7 DEF EnclosingFuns, Definition
  <2> QED  BY <2>8
<1>14. h < k
  BY <1>8, <1>9, <1>13
<1> DEFINE T == {i \in Nat : i <= n - h - 1 => v \in locals[c[n - i]]}
<1>15. 0 \in T
  BY <1>3, <1>4
<1>16. ASSUME NEW i \in Nat, i \in T PROVE i + 1 \in T
  <2> SUFFICES ASSUME i + 1 <= n - h - 1 PROVE v \in locals[c[n - (i + 1)]]
    OBVIOUS
  <2>1. PICK m : m = n - i
    OBVIOUS
  <2>2. m \in 2 .. n /\ m \in 1 .. n /\ h < m /\ m - 1 = n - (i + 1)
    BY <1>3, <2>1
  <2>3. v \in locals[c[m]] /\ c[m] \in Funs
    BY <1>3, <1>11, <1>16, <2>1, <2>2
  <2>4. v.fn # c[m]
    BY <1>7, <1>9, <2>2
  <2>5. v \in locals[parent[c[m]]]
    BY <2>3, <2>4 DEF Inductive, UpvaluesChained, Upvalues
  <2> QED  BY <1>12, <2>2, <2>5
<1> HIDE DEF T
<1>17. Nat \subseteq T
  BY <1>15, <1>16, AllNumbers
<1>18. n - k \in Nat /\ n - k <= n - h - 1 /\ n - (n - k) = k
  BY <1>3, <1>14
<1> QED  BY <1>8, <1>17, <1>18 DEF T

LEMMA MentionHeld ==
    ASSUME Inductive, InStep, Settling, Dated, status = "resolved",
           NEW g \in NodesOf(script, "fun"), NEW v \in Mentions(script, g),
           DeclaredOutside(script, g, v)
    PROVE  v \in Upvalues(g)
<1>1. script \in Seq(Nodes) /\ script \in Programs
  BY InStepParts DEF Dated
<1>2. PICK q \in NodesOf(script, "var") \cap Definition(script, g) :
         v = Denotes(script, q, script[q].name) /\ v.kind = "var"
  BY DEF Mentions
<1>3. q \in DOMAIN script /\ script[q].op = "var"
  BY <1>2 DEF NodesOf
<1>4. /\ q \in 1 .. Len(script) /\ Reached(q)
      /\ Records(ScopeAt(q), script[q], q, locals, refs[q], <<>>)
  BY <1>1, <1>3, WholePass
<1>5. script[q].name \in Names
  BY <1>1, <1>3, <1>4, NodeAt, NodeFields
<1>6. /\ v = ScopeAt(q).table[script[q].name]
      /\ Innermost(ScopeAt(q)) = FunctionAt(script, q)
  BY <1>1, <1>2, <1>4, <1>5, ScopeLexical
<1>7. v \in locals[FunctionAt(script, q)]
  BY <1>2, <1>3, <1>4, <1>6 DEF Records
<1>8. v \in ScopeAt(q).seen
  <2>1. ScopeOK(ScopeAt(q), q - 1)
    BY <1>1, <1>4, ScopeAtOK
  <2>2. NameScoped(ScopeAt(q), v, q - 1)
    BY <1>5, <1>6, <2>1 DEF ScopeOK
  <2> QED  BY <1>2, <2>2 DEF NameScoped
<1>9. g \in EnclosingFuns(script, q)
  BY <1>2 DEF EnclosingFuns
<1>10. g # v.fn /\ g \notin EnclosingFuns(script, v.node)
  BY DEF DeclaredOutside
<1>11. v \in locals[g]
  BY <1>3, <1>7, <1>8, <1>9, <1>10, HeldAround
<1> QED  BY <1>10, <1>11 DEF Upvalues

LEMMA CalleeHeld ==
    ASSUME Inductive, InStep, Settling, Dated, status = "resolved",
           \A q \in NodesOf(script, "call") : ~ CallsOutward(script, q),
           NEW g \in NodesOf(script, "fun"), NEW h \in Callees(script, g),
           NEW v \in Upvalues(h), DeclaredOutside(script, g, v)
    PROVE  v \in Upvalues(g)
<1>1. script \in Seq(Nodes) /\ script \in Programs /\ LocalsScoped
  BY InStepParts DEF Dated, Recorded
<1>2. PICK q \in NodesOf(script, "call") \cap Definition(script, g) :
         LET s == Denotes(script, q, script[q].name) IN h = s.node /\ s.kind = "fun"
  BY DEF Callees
<1>3. q \in DOMAIN script /\ script[q].op = "call"
  BY <1>2 DEF NodesOf
<1>4. /\ q \in 1 .. Len(script) /\ Reached(q)
      /\ Records(ScopeAt(q), script[q], q, locals, refs[q], <<>>)
      /\ refs[q] = ScopeAt(q).table[script[q].name]
  BY <1>1, <1>3, WholePass
<1>5. script[q].name \in Names
  BY <1>1, <1>3, <1>4, NodeAt, NodeFields
<1>6. refs[q] = Denotes(script, q, script[q].name)
  BY <1>1, <1>4, <1>5, ScopeLexical
<1>7. h = refs[q].node /\ refs[q].kind = "fun"
  BY <1>2, <1>6
<1>8. v \in ScopeAt(q).seen
  <2>1. climb = <<>>
    BY DEF InStep
  <2> QED  BY <1>1, <1>3, <1>4, <1>7, <2>1, UpvaluesSeen
<1>9. v \in locals[FunctionAt(script, q)]
  BY <1>1, <1>2, <1>7, SuppliedAtEnd DEF CallsSupplied
<1>10. g \in EnclosingFuns(script, q)
  BY <1>2 DEF EnclosingFuns
<1>11. g # v.fn /\ g \notin EnclosingFuns(script, v.node)
  BY DEF DeclaredOutside
<1>12. v \in locals[g]
  BY <1>3, <1>8, <1>9, <1>10, <1>11, HeldAround
<1> QED  BY <1>11, <1>12 DEF Upvalues

LEMMA CompleteAtEnd ==
    ASSUME Inductive, InStep, Settling, Dated, status = "resolved",
           \A q \in NodesOf(script, "call") : ~ CallsOutward(script, q),
           NEW f \in NodesOf(script, "fun"), NEW v, Needs(script, f, v)
    PROVE  v \in Upvalues(f)
<1> DEFINE G == {g \in NodesOf(script, "fun") : v \in Upvalues(g)}
<1>1. ASSUME NEW g \in NodesOf(script, "fun") \ G, DeclaredOutside(script, g, v)
      PROVE  v \notin Mentions(script, g) /\ Callees(script, g) \cap G = {}
  <2>1. v \notin Mentions(script, g)
    BY <1>1, MentionHeld
  <2>2. ASSUME NEW h \in Callees(script, g) \cap G PROVE FALSE
    <3>1. v \in Upvalues(h)
      OBVIOUS
    <3> QED  BY <1>1, <3>1, CalleeHeld
  <2> QED  BY <2>1, <2>2
<1>2. Supplies(script, G, v)
  BY <1>1 DEF Supplies
<1>3. f \in G
  BY <1>2 DEF Needs
<1> QED  BY <1>3

(* Closure conversion is complete: when no nested function calls out to a  *)
(* function that is still being defined, every function gets each variable *)
(* that it needs as an upvalue (ASTVariable and                            *)
(* ASTFunctionCall::resolveVariables(), FunctionSymbol::importUpvalue()).  *)
THEOREM ImportsComplete == Spec => []UpvaluesComplete
<1>1. Init => Dated /\ (Passing => Settling)
  BY InitDated, InitSettles
<1>2. Inductive /\ (Passing => InStep) /\ (Passing => Settling) /\ [Next]_rvars
         => (Passing => Settling)'
  BY Settles
<1>3. Inductive /\ Dated /\ [Next]_rvars => Dated'
  BY NextDated
<1>4. Inductive /\ (Passing => InStep) /\ (Passing => Settling) /\ Dated => UpvaluesComplete
  <2> SUFFICES ASSUME Inductive, Passing => InStep, Passing => Settling, Dated,
                      status = "resolved",
                      \A q \in NodesOf(script, "call") : ~ CallsOutward(script, q),
                      NEW f \in NodesOf(script, "fun"),
                      NEW v \in UNION {Mentions(script, g) : g \in NodesOf(script, "fun")},
                      Needs(script, f, v)
               PROVE  v \in Upvalues(f)
    BY DEF UpvaluesComplete
  <2> QED  BY CompleteAtEnd DEF Passing
<1> QED  BY <1>1, <1>2, <1>3, <1>4, Invariance, ScopesRecorded, PTL DEF Spec
=============================================================================
