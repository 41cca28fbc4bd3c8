--------------------------- MODULE ParserGrammar ---------------------------
(***************************************************************************)
(* The parser compared with the grammar of the language.                   *)
(***************************************************************************)
EXTENDS Grammar

CodeLanguage ==
    [s \in {x["code"] : x \in Sources} |-> Sentences(s.words, s.length)]
SignatureLanguage ==
    [s \in {x["signature"] : x \in Sources} |-> Signatures(s.words, s.length)]

Beginnings(texts) == UNION {{SubSeq(w, 1, n) : n \in 0 .. Len(w)} : w \in texts}

CodeBeginnings ==
    [s \in DOMAIN CodeLanguage |-> Beginnings({d.text : d \in CodeLanguage[s]})]
SignatureBeginnings ==
    [s \in DOMAIN SignatureLanguage |->
        Beginnings({d.text : d \in SignatureLanguage[s]})]

(***************************************************************************)
(* The parser's variables have their types: of what is still to be parsed, *)
(* a call knows what it is looking for, and a node is one of Ast.          *)
(***************************************************************************)
Sized == {x \o "*" : x \in Identifiers}
VectorNames == {n \o s : n \in Sized, s \in Sizes}

Items ==
         [do : {"expect"}, token : Words]
    \cup [do : {"build"}, node : Nodes]
    \cup [do : {"operators"}, min : Nat]
    \cup [do : {"apply"}, op : BinaryOperators]
    \cup [do : {"arguments", "call", "inputs", "more"}, name : Names, argc : Nat]
    \cup [do : {"elements"}, of : {"vector", "[]"}, argc : Nat]
    \cup [do : {"parameters"}, list : Lists]
    \cup [do : {"parameter"}, list : Lists, name : Identifiers]
    \cup [do : {"name", "definition", "function", "lanes"}, name : Identifiers]
    \cup [do : {"size"}, name : Sized]
    \cup [do : {"find"}, name : Identifiers \cup VectorNames]
    \cup [do : {"leaf", "postfix", "unary", "method", "separator", "vector",
                "splat", "let", "typespec", "typename", "code", "toplevel"}]

TypeOK ==
    /\ source \in Sources
    /\ stage \in Stages
    /\ text \in [Stages -> Seq(Words)]
    /\ token \in Words \cup {EOF}
    /\ todo \in Seq(Items)
    /\ built \in Seq(Seq(Nodes))
    /\ type \in Types \cup {Infer}
    /\ lists \in [Lists -> Seq(Params)]
    /\ status \in {"parsing", "accepted", "rejected"}

(***************************************************************************)
(* Each call finds the operands it combines and leaves one tree, whatever  *)
(* is nested in it: no node is lost, and none is adopted by a stranger.    *)
(***************************************************************************)
Takes(item) ==
    IF item.do = "build" THEN Arity(item.node)
    ELSE IF item.do = "apply" THEN 2
    ELSE IF item.do \in {"operators", "postfix", "method", "toplevel"} THEN 1
    ELSE IF item.do \in {"arguments", "call", "inputs", "more", "elements"} THEN item.argc
    ELSE 0

Leaves(item) ==
    IF item.do \in {"expect", "separator", "typespec", "typename", "lanes",
                    "size", "find", "parameters", "parameter"}
    THEN 0 ELSE 1

(* The trees there are after an item, of h before it; -1 if it lacks some. *)
After(h, item) ==
    LET rest == h - Takes(item) IN IF rest < 0 THEN -1 ELSE rest + Leaves(item)

OperandsBalance ==
    LET trees[i \in 0 .. Len(todo)] ==
            IF i = 0 THEN Len(built) ELSE After(trees[i - 1], todo[i])
    IN  trees[Len(todo)] = 1

(***************************************************************************)
(* What the parser accepts is a sentence of the grammar, and the tree it   *)
(* builds is the one the grammar gives it: precedence, associativity, the  *)
(* reach of let and if, separators.                                        *)
(***************************************************************************)
AcceptsTheGrammar ==
    status = "accepted" =>
        /\ Len(built) = 1
        /\ [text |-> text["code"], tree |-> built[1]] \in CodeLanguage[source["code"]]

(***************************************************************************)
(* An error is reported for no text that is a sentence, nor at a word with *)
(* which a sentence could go on.                                           *)
(***************************************************************************)
Hopeless(w, language, beginnings) ==
    IF token = EOF THEN \A d \in language : d.text # w
    ELSE w \notin beginnings

RejectsOnlyErrors ==
    status = "rejected" =>
        IF stage = "code"
        THEN Hopeless(text["code"], CodeLanguage[source["code"]],
                      CodeBeginnings[source["code"]])
        ELSE Hopeless(text["signature"], SignatureLanguage[source["signature"]],
                      SignatureBeginnings[source["signature"]])

(***************************************************************************)
(* A signature that is accepted gives the script the parameters and the    *)
(* outputs that it lists, in order, each with the type written after its   *)
(* own name, or real, and not that of a neighbour or of the other list.    *)
(***************************************************************************)
SignatureAsWritten ==
    stage = "code" =>
        [text |-> text["signature"], arguments |-> lists["arguments"],
         returns |-> lists["returns"]] \in SignatureLanguage[source["signature"]]
=============================================================================
