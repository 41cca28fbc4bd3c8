------------------------------ MODULE Grammar ------------------------------
(***************************************************************************)
(* The language of Calculon as a grammar, the reference for Parser: every  *)
(* sentence of a bounded length over some words, with its tree.            *)
(*                                                                         *)
(* Operators associate to the left and bind by their precedence; `let' and *)
(* `if' reach as far to the right as they can.  A derivation is            *)
(*     text, tree                                                          *)
(*     level     the precedence of its outermost operator                  *)
(*     open      it ends in a let or if, which would take what follows     *)
(*     full      the value it ends in has an accessor and takes no other   *)
(*     receiver  an accessor may follow and applies to all of it           *)
(* A value takes one accessor; the next one goes to the let or if that the *)
(* value ends.                                                             *)
(***************************************************************************)
EXTENDS Parser

AtomLevel  == 50
UnaryLevel == 40
BinaryOperators == {op \in Operators : Precedence(op) > 0}

Atom(w, t) == [text |-> w, tree |-> t, level |-> AtomLevel,
               open |-> FALSE, full |-> FALSE, receiver |-> TRUE]

(* A let or if with the derivation it ends in.                             *)
Open(w, t, last) == [Atom(w \o last.text, t \o last.tree) EXCEPT
                       !.open = TRUE, !.receiver = last.full]

Present(ws, words, phrases) == IF ws \subseteq words THEN phrases ELSE {}

(***************************************************************************)
(* Lists of parameters and types.                                          *)
(***************************************************************************)
TypePhrases(words) ==
    {[text |-> <<>>, type |-> Infer]}
    \cup Present({":"}, words,
             {[text |-> <<":", t>>, type |-> TypeNames[t]] :
                 t \in {x \in words : x \in DOMAIN TypeNames}})
    \cup Present({":", "*"}, words,
             {[text |-> <<":", t[1], "*", t[2]>>,
               type |-> TypeNames[t[1] \o "*" \o t[2]]] :
                 t \in {x \in (words \cap Identifiers) \X (words \cap Sizes) :
                           x[1] \o "*" \o x[2] \in DOMAIN TypeNames}})

ParameterPhrases(words) ==
    {[text |-> <<x>> \o t.text, list |-> <<[name |-> x, type |-> OrReal(t.type)]>>] :
        x \in words \cap Identifiers, t \in TypePhrases(words)}

(* Lists of at most n words, without the parentheses.                      *)
ParameterLists(words, length) ==
    LET one == ParameterPhrases(words)
        some[n \in Nat] ==     \* of n or fewer parameters
            IF n = 0 THEN {}
            ELSE one \cup {w \in {[text |-> v[1].text \o <<",">> \o v[2].text,
                                   list |-> v[1].list \o v[2].list] :
                                     v \in one \X some[n - 1]} :
                              Len(w.text) <= length}
        plain == IF "," \in words THEN some[length] ELSE one
    IN  {[text |-> <<>>, list |-> <<>>]} \cup plain
            \cup Present({","}, words, {[w EXCEPT !.text = Append(@, ",")] : w \in plain})

Enclosed(words, length) ==
    {[w EXCEPT !.text = <<"(">> \o @ \o <<")">>] :
        w \in {v \in ParameterLists(words, length) : Len(v.text) <= length - 2}}

Signatures(words, length) ==
    {[text |-> v[1].text \o <<":">> \o v[2].text,
      arguments |-> v[1].list, returns |-> v[2].list] :
        v \in {u \in Enclosed(words, length - 3) \X Enclosed(words, length - 3) :
                  Len(u[1].text) + Len(u[2].text) < length}}

(***************************************************************************)
(* Expressions, by their length.  t[k] holds those of k words: `exprs',    *)
(* and `args', the lists of one or more with commas between them.          *)
(***************************************************************************)
Atoms(words) ==
    {Atom(<<w>>, Real) : w \in words \cap Numbers}
    \cup {Atom(<<w>>, Named(w)) : w \in (words \cap Identifiers) \ {"let", "if"}}

(* What precedes the value of a let, with the node it makes.  A type       *)
(* before the parameters has no meaning.                                   *)
LetHeads(words, length) ==
    {[text |-> <<"let", x>> \o t.text \o <<"=">>,
      node |-> [op |-> "let", name |-> x, type |-> t.type]] :
        x \in words \cap Identifiers, t \in TypePhrases(words)}
    \cup Present({"(", ")"}, words,
        {[text |-> <<"let", x>> \o t.text \o p.text \o u.text \o <<"=">>,
          node |-> [op |-> "fun", name |-> x, params |-> p.list, ret |-> OrReal(u.type)]] :
            x \in words \cap Identifiers, t \in TypePhrases(words),
            p \in Enclosed(words, length - 3), u \in TypePhrases(words)})

Lets(words, t) ==
    LET n == Len(t) + 1 IN
    UNION {{Open(z[1].text \o v.text \o <<"in">>, <<z[1].node>> \o v.tree, b) :
               v \in t[z[2]].exprs, b \in t[n - Len(z[1].text) - 1 - z[2]].exprs} :
           z \in {y \in LetHeads(words, n) \X (1 .. n) :
                     Len(y[1].text) + 1 + y[2] < n}}

Ifs(words, t) ==
    LET n == Len(t) + 1 IN
    UNION {{Open(<<"if">> \o c.text \o <<"then">> \o a.text \o <<"else">>,
                 <<[op |-> "if"]>> \o c.tree \o a.tree, b) :
               c \in t[z[1]].exprs, a \in t[z[2]].exprs,
               b \in t[n - 3 - z[1] - z[2]].exprs} :
           z \in {y \in (1 .. n) \X (1 .. n) : y[1] + y[2] < n - 3}}

(* Lists in parentheses may end in a comma, and may be empty.              *)
ArgumentLists(words, t, n) ==
    IF n = 0 THEN {[text |-> <<>>, tree |-> <<>>, count |-> 0]}
    ELSE t[n].args \cup
         (IF n = 1 \/ "," \notin words THEN {}
          ELSE {[a EXCEPT !.text = Append(@, ",")] : a \in t[n - 1].args})

Calls(words, t) ==
    LET n == Len(t) + 1 IN
    IF n < 3 THEN {}
    ELSE {Atom(<<x, "(">> \o a.text \o <<")">>, <<CallOf(x, a.count)>> \o a.tree) :
             x \in (words \cap Identifiers) \ {"let", "if"},
             a \in ArgumentLists(words, t, n - 3)}

Brackets(words, t) ==
    LET n == Len(t) + 1 IN
    IF n < 3 THEN {}
    ELSE {Atom(<<"[">> \o a.text \o <<"]">>,
               <<[op |-> "vector", argc |-> a.count]>> \o a.tree) :
             a \in t[n - 2].args}
         \cup (IF n < 5 THEN {}
               ELSE {Atom(<<"[", "*", s>> \o e.text \o <<"]">>,
                          <<[op |-> "splat"]>> \o e.tree) :
                        s \in words \cap Sizes, e \in t[n - 4].exprs})

Parentheses(t) ==
    LET n == Len(t) + 1 IN
    IF n < 3 THEN {}
    ELSE {Atom(<<"(">> \o e.text \o <<")">>, e.tree) : e \in t[n - 2].exprs}

Accessed(d, words_, name, argc, trees) ==
    [text |-> d.text \o words_, tree |-> <<CallOf(Method(name), argc)>> \o d.tree \o trees,
     level |-> AtomLevel, open |-> FALSE, full |-> TRUE, receiver |-> FALSE]

Receivers(t, n) == {d \in t[n].exprs : d.receiver}

Accesses(words, t) ==
    LET n == Len(t) + 1
        fields == words \cap Identifiers IN
    Present({"."}, words,
        (IF n < 3 THEN {}
         ELSE {Accessed(d, <<".", x>>, x, 1, <<>>) : d \in Receivers(t, n - 2), x \in fields})
        \cup UNION {{Accessed(d, <<".", x, "(">> \o a.text \o <<")">>, x, a.count + 1, a.tree) :
                        d \in Receivers(t, n - 4 - k), x \in fields,
                        a \in Present({"(", ")"}, words, ArgumentLists(words, t, k))} :
                    k \in 0 .. n - 5})
    \cup Present({"[", "]"}, words,
        UNION {{Accessed(d, <<"[">> \o a.text \o <<"]">>, "[]", a.count + 1, a.tree) :
                   d \in Receivers(t, n - 2 - k), a \in t[k].args} :
               k \in 1 .. n - 3})

Unaries(words, t) ==
    LET n == Len(t) + 1 IN
    IF n < 2 THEN {}
    ELSE {[d EXCEPT !.text = <<op>> \o @, !.tree = <<CallOf(Method(op), 1)>> \o @,
                    !.level = UnaryLevel, !.receiver = FALSE] :
             op \in words \cap {"-", "not"},
             d \in {e \in t[n - 1].exprs : e.level = AtomLevel}}

Binaries(words, t) ==
    LET n == Len(t) + 1 IN
    UNION {{[r EXCEPT !.text = l.text \o <<z[1]>> \o @,
                      !.tree = Applied(z[1], l.tree, @),
                      !.level = Precedence(z[1]), !.receiver = FALSE] :
               l \in {d \in t[z[2]].exprs : d.level >= Precedence(z[1]) /\ ~d.open},
               r \in {d \in t[n - 1 - z[2]].exprs : d.level > Precedence(z[1])}} :
           z \in (words \cap BinaryOperators) \X (1 .. n - 2)}

Phrases(words, t) ==
    (IF t = <<>> THEN Atoms(words) ELSE {})
    \cup Present({"let", "=", "in"}, words, Lets(words, t))
    \cup Present({"if", "then", "else"}, words, Ifs(words, t))
    \cup Present({"(", ")"}, words, Calls(words, t) \cup Parentheses(t))
    \cup Present({"[", "]"}, words, Brackets(words, t))
    \cup Accesses(words, t) \cup Unaries(words, t) \cup Binaries(words, t)

ListsOf(words, t, exprs) ==
    {[text |-> e.text, tree |-> e.tree, count |-> 1] : e \in exprs}
    \cup Present({","}, words,
        UNION {{[text |-> e.text \o <<",">> \o a.text, tree |-> e.tree \o a.tree,
                 count |-> a.count + 1] :
                   e \in t[k].exprs, a \in t[Len(t) - k].args} :
               k \in 1 .. Len(t) - 1})

Table(words, length) ==
    LET table[n \in Nat] ==
            IF n = 0 THEN <<>>
            ELSE LET t == table[n - 1]
                     exprs == Phrases(words, t)
                 IN  Append(t, [exprs |-> exprs, args |-> ListsOf(words, t, exprs)])
    IN  table[length]

Sentences(words, length) ==
    LET table == Table(words, length) IN
    {[text |-> d.text, tree |-> d.tree] : d \in UNION {table[n].exprs : n \in 1 .. length}}
=============================================================================
