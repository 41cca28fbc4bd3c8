------------------------------ MODULE Parser ------------------------------
(***************************************************************************)
(* The recursive-descent parser of calculon_compiler.h: the two texts that *)
(* Compiler::compile() reads, first the signature of the script and then   *)
(* its code, become lists of parameters and a tree of Ast.                 *)
(*                                                                         *)
(* The recursion of the C++ functions is unrolled into `todo', what is     *)
(* still to be parsed, nearest first; `built' holds the trees that the     *)
(* returned calls have produced and nobody has used yet.  A token is the   *)
(* text of it.  The texts are not fixed beforehand: the lexer answers any  *)
(* of the words of `source' until it answers the end of the file.          *)
(***************************************************************************)
EXTENDS Ast, SequencesExt

CONSTANTS
    Identifiers, \* the identifiers of the texts; keywords are identifiers
    Numbers,     \* the numbers of the texts
    Sizes,       \* those that are positive integers
    TypeNames,   \* the type of each name TypeRegistry::find() knows
    Sources      \* the words and the greatest length of the two texts

Comparisons == {"<", "<=", ">", ">=", "==", "!="}
Operators ==
    {"and", "or", "not", "+", "-", "*", "/", "=", "!"} \cup Comparisons
Punctuation == {"(", ")", "[", "]", ",", ":", "."}
EOF == "EOF"
Words == Identifiers \cup Numbers \cup Operators \cup Punctuation

Stages == {"signature", "code"}
Lists  == {"arguments", "returns", "parameters"}

(* The methods of values are functions that no identifier can name.        *)
Method(id) == "method " \o id

ASSUME TokensAssumption ==
    /\ Identifiers \cap (Numbers \cup Operators \cup Punctuation) = {}
    /\ Numbers \cap (Operators \cup Punctuation) = {}
    /\ EOF \notin Words
    /\ {"let", "in", "if", "then", "else"} \subseteq Identifiers
    /\ Sizes \subseteq Numbers

ASSUME NamesAssumption ==
    Identifiers \cup {Method(x) : x \in Identifiers \cup Operators \cup {"[]"}}
        \subseteq Names

ASSUME TypeNamesAssumption == \A n \in DOMAIN TypeNames : TypeNames[n] \in Types

ASSUME SourcesAssumption ==
    Sources \subseteq [Stages -> [length : Nat, words : SUBSET Words]]

VARIABLES
    source, \* the limits of the two texts
    stage,  \* which of them is read
    text,   \* the words the lexers have returned, of each text
    token,  \* Lexer::token() with its id() or real()
    todo,   \* what is to be parsed
    built,  \* the trees of the calls that have returned
    type,   \* the Type* of the last parse_typespec(), Infer if it is NULL
    lists,  \* the lists of parameters being filled
    status  \* "parsing", "accepted", or "rejected": a LexerException

vars == <<source, stage, text, token, todo, built, type, lists, status>>

Do == Head(todo)
At(what) == status = "parsing" /\ Do.do = what

(* Lexer::next(), and its constructor, which reads the first token.        *)
Readable(s, n) ==
    {EOF} \cup (IF n < source[s].length THEN source[s].words ELSE {})

ReadWord(s, before) ==
    \E t \in Readable(s, Len(before)) :
        /\ token' = t
        /\ text' = [text EXCEPT ![s] =
                        IF t = EOF THEN before ELSE Append(before, t)]

(* A step of the parser goes on with other things to parse, and reads the  *)
(* next token or does not; or it reports an error.                         *)
Consume(items) ==
    /\ todo' = items \o Tail(todo)
    /\ ReadWord(stage, text[stage])
    /\ UNCHANGED status

Stay(items) ==
    /\ todo' = items \o Tail(todo)
    /\ UNCHANGED <<text, token, status>>

Reject ==
    /\ status' = "rejected"
    /\ UNCHANGED <<todo, text, token>>

(* The return value of a parse function.                                   *)
Return(tree) == built' = Append(built, tree)

Expect(t) == [do |-> "expect", token |-> t]
Build(n)  == [do |-> "build", node |-> n]
Step(p)   == [do |-> p]

(* parse_tight() and parse_binary() begin with another call.               *)
Tight       == <<Step("leaf"), Step("postfix")>>
Binary(min) == <<Step("unary"), [do |-> "operators", min |-> min]>>
Expression  == Binary(0)

CallOf(name, argc) == [op |-> "call", name |-> name, argc |-> argc]
Boolean == <<[op |-> "const", type |-> "boolean"]>>
Real    == <<[op |-> "const", type |-> "real"]>>

OrReal(t) == IF t = Infer THEN "real" ELSE t

ParameterList(list) ==
    <<Expect("("), [do |-> "parameters", list |-> list]>>

Signature ==
    ParameterList("arguments") \o <<Expect(":")>> \o ParameterList("returns")

Init ==
    /\ source \in Sources
    /\ stage = "signature"
    /\ token \in Readable(stage, 0)
    /\ text = [s \in Stages |-> IF s = stage /\ token # EOF THEN <<token>> ELSE <<>>]
    /\ todo = Signature \o <<Step("code")>>
    /\ built = <<>>
    /\ type = Infer
    /\ lists = [l \in Lists |-> <<>>]
    /\ status = "parsing"

-----------------------------------------------------------------------------
(* Defects: parse functions with a plausible bug, each of which violates   *)
(* one of the properties of ParserGrammar.                                 *)

\* The operand to the right may hold operators of the same precedence.
OperatorsToTheRight ==
    /\ At("operators")
    /\ \/ /\ token \in Operators
          /\ Consume(Binary(Do.min) \o <<[do |-> "apply", op |-> token], Do>>)
       \/ token \notin Operators /\ Stay(<<>>)
    /\ UNCHANGED <<source, stage, built, type, lists>>

\* The list may not end without a comma.
SeparatorIsComma ==
    /\ At("separator")
    /\ \/ token = "," /\ Consume(<<>>)
       \/ token # "," /\ Reject
    /\ UNCHANGED <<source, stage, built, type, lists>>

\* A missing type is the one of the parameter before.
TypespecRemembered ==
    /\ At("typespec")
    /\ \/ token = ":" /\ Consume(<<Step("typename")>>)
       \/ token # ":" /\ Stay(<<>>)
    /\ UNCHANGED <<source, stage, built, type, lists>>

\* A parameter without a type has none.
ParameterWithoutType ==
    /\ At("parameter")
    /\ lists' = [lists EXCEPT ![Do.list] =
                     Append(@, [name |-> Do.name, type |-> type])]
    /\ Stay(<<>>)
    /\ UNCHANGED <<source, stage, built, type>>

\* The value a method is called on is not counted as its argument.
MethodWithoutReceiver ==
    /\ At("method")
    /\ \/ /\ token \in Identifiers
          /\ Consume(<<[do |-> "call", name |-> Method(token), argc |-> 0]>>)
       \/ token \notin Identifiers /\ Reject
    /\ UNCHANGED <<source, stage, built, type, lists>>

-----------------------------------------------------------------------------
(* expect() and its relatives.                                             *)
ParseExpected ==
    /\ At("expect")
    /\ \/ token = Do.token /\ Consume(<<>>)
       \/ token # Do.token /\ Reject
    /\ UNCHANGED <<source, stage, built, type, lists>>

(* retain(new ...): a node takes the trees built last for its children.    *)
BuildNode ==
    /\ At("build")
    /\ LET rest == Len(built) - Arity(Do.node) IN
       built' = Append(SubSeq(built, 1, rest),
                       <<Do.node>> \o FlattenSeq(SubSeq(built, rest + 1, Len(built))))
    /\ Stay(<<>>)
    /\ UNCHANGED <<source, stage, type, lists>>

-----------------------------------------------------------------------------
(* Expressions.                                                            *)

(* parse_binary(): operators that bind at least as tightly as `min'.       *)
Precedence(op) ==
    IF op \in {"and", "or"} THEN 5
    ELSE IF op \in Comparisons THEN 10
    ELSE IF op \in {"+", "-"} THEN 20
    ELSE IF op \in {"*", "/"} THEN 30
    ELSE 0          \* "not", "=", "!"

ParseOperators ==
    /\ At("operators")
    /\ \/ token \notin Operators /\ Stay(<<>>)
       \/ /\ token \in Operators
          /\ LET p == Precedence(token) IN
             \/ p = 0 /\ Reject
             \/ p # 0 /\ p < Do.min /\ Stay(<<>>)
             \/ /\ p # 0 /\ p >= Do.min
                /\ Consume(Binary(p + 1) \o <<[do |-> "apply", op |-> token], Do>>)
    /\ UNCHANGED <<source, stage, built, type, lists>>

(* `and' and `or' are conditions.                                          *)
Applied(op, lhs, rhs) ==
    IF op = "and" THEN <<[op |-> "if"]>> \o lhs \o rhs \o Boolean
    ELSE IF op = "or" THEN <<[op |-> "if"]>> \o lhs \o Boolean \o rhs
    ELSE <<CallOf(Method(op), 2)>> \o lhs \o rhs

ApplyOperator ==
    /\ At("apply")
    /\ LET n == Len(built) IN
       built' = Append(SubSeq(built, 1, n - 2),
                       Applied(Do.op, built[n - 1], built[n]))
    /\ Stay(<<>>)
    /\ UNCHANGED <<source, stage, type, lists>>

ParseUnary ==
    /\ At("unary")
    /\ \/ /\ token \in {"-", "not"}
          /\ Consume(Tight \o <<Build(CallOf(Method(token), 1))>>)
       \/ token \notin {"-", "not"} /\ Stay(Tight)
    /\ UNCHANGED <<source, stage, built, type, lists>>

(* parse_if(), after the keyword.                                          *)
Condition ==
    Expression \o <<Expect("then")>> \o Expression \o <<Expect("else")>>
        \o Expression \o <<Build([op |-> "if"])>>

(* parse_leaf(), with what follows the first token of each alternative.    *)
Alternative ==
    \/ /\ token = "("
       /\ Consume(Expression \o <<Expect(")")>>)
    \/ /\ token = "["
       /\ Consume(<<Step("vector")>>)
    \/ /\ token = "let"
       /\ Consume(<<Step("let")>>)
    \/ /\ token = "if"
       /\ Consume(Condition)
    \/ /\ token \in Identifiers \ {"let", "if"}
       /\ Consume(<<[do |-> "name", name |-> token]>>)
    \/ /\ token \notin Identifiers \cup Numbers \cup {"(", "["}
       /\ Reject

ParseLeaf ==
    /\ At("leaf")
    /\ \/ token \in Numbers /\ Return(Real) /\ Consume(<<>>)
       \/ token \notin Numbers /\ Alternative /\ UNCHANGED built
    /\ UNCHANGED <<source, stage, type, lists>>

(* parse_variable_or_function_call(), after the identifier.                *)
Named(id) ==
    IF id \in {"true", "false"} THEN Boolean
    ELSE IF id \in {"pi", "Inf", "NaN"} THEN Real
    ELSE IF id = "return" THEN <<[op |-> "return"]>>
    ELSE <<[op |-> "var", name |-> id]>>

ParseName ==
    /\ At("name")
    /\ \/ /\ token = "("
          /\ Consume(<<[do |-> "arguments", name |-> Do.name, argc |-> 0]>>)
          /\ UNCHANGED built
       \/ token # "(" /\ Return(Named(Do.name)) /\ Stay(<<>>)
    /\ UNCHANGED <<source, stage, type, lists>>

ParseArguments ==
    /\ At("arguments")
    /\ \/ token = ")" /\ Consume(<<Build(CallOf(Do.name, Do.argc))>>)
       \/ /\ token # ")"
          /\ Stay(Expression \o <<Step("separator"), [Do EXCEPT !.argc = @ + 1]>>)
    /\ UNCHANGED <<source, stage, built, type, lists>>

ParseSeparator ==
    /\ At("separator")
    /\ \/ token = "," /\ Consume(<<>>)
       \/ token = ")" /\ Stay(<<>>)
       \/ token \notin {",", ")"} /\ Reject
    /\ UNCHANGED <<source, stage, built, type, lists>>

(* parse_tight(), after the leaf: at most one accessor.                    *)
ParsePostfix ==
    /\ At("postfix")
    /\ \/ token = "." /\ Consume(<<Step("method")>>)
       \/ /\ token = "["
          /\ Consume(Expression \o <<[do |-> "elements", of |-> "[]", argc |-> 2]>>)
       \/ token \notin {".", "["} /\ Stay(<<>>)
    /\ UNCHANGED <<source, stage, built, type, lists>>

ParseMethod ==
    /\ At("method")
    /\ \/ /\ token \in Identifiers
          /\ Consume(<<[do |-> "call", name |-> Method(token), argc |-> 1]>>)
       \/ token \notin Identifiers /\ Reject
    /\ UNCHANGED <<source, stage, built, type, lists>>

ParseMethodCall ==
    /\ At("call")
    /\ \/ token = "(" /\ Consume(<<[Do EXCEPT !.do = "inputs"]>>)
       \/ token # "(" /\ Stay(<<Build(CallOf(Do.name, Do.argc))>>)
    /\ UNCHANGED <<source, stage, built, type, lists>>

ParseMethodArguments ==
    /\ At("inputs")
    /\ \/ token = ")" /\ Consume(<<Build(CallOf(Do.name, Do.argc))>>)
       \/ /\ token # ")"
          /\ Stay(Expression \o <<[do |-> "more", name |-> Do.name, argc |-> Do.argc + 1]>>)
    /\ UNCHANGED <<source, stage, built, type, lists>>

ParseMethodComma ==
    /\ At("more")
    /\ \/ token = "," /\ Consume(<<[Do EXCEPT !.do = "inputs"]>>)
       \/ /\ token # ","
          /\ Stay(<<Expect(")"), Build(CallOf(Do.name, Do.argc))>>)
    /\ UNCHANGED <<source, stage, built, type, lists>>

(* parse_vector(), and the indices of `[]'.                                *)
ParseVector ==
    /\ At("vector")
    /\ \/ token = "*" /\ Consume(<<Step("splat")>>)
       \/ /\ token # "*"
          /\ Stay(Expression \o <<[do |-> "elements", of |-> "vector", argc |-> 1]>>)
    /\ UNCHANGED <<source, stage, built, type, lists>>

ParseSplat ==
    /\ At("splat")
    /\ \/ /\ token \in Sizes
          /\ Consume(Expression \o <<Expect("]"), Build([op |-> "splat"])>>)
       \/ token \notin Sizes /\ Reject
    /\ UNCHANGED <<source, stage, built, type, lists>>

ParseElements ==
    /\ At("elements")
    /\ \/ /\ token = ","
          /\ Consume(Expression \o <<[Do EXCEPT !.argc = @ + 1]>>)
       \/ /\ token # ","
          /\ LET node == IF Do.of = "vector"
                         THEN [op |-> "vector", argc |-> Do.argc]
                         ELSE CallOf(Method("[]"), Do.argc)
             IN  Stay(<<Expect("]"), Build(node)>>)
    /\ UNCHANGED <<source, stage, built, type, lists>>

-----------------------------------------------------------------------------
(* Types, parameters and definitions.                                      *)

(* parse_typespec().                                                       *)
ParseTypespec ==
    /\ At("typespec")
    /\ \/ token = ":" /\ Consume(<<Step("typename")>>) /\ UNCHANGED type
       \/ token # ":" /\ Stay(<<>>) /\ type' = Infer
    /\ UNCHANGED <<source, stage, built, lists>>

ParseTypename ==
    /\ At("typename")
    /\ \/ token \in Identifiers /\ Consume(<<[do |-> "lanes", name |-> token]>>)
       \/ token \notin Identifiers /\ Reject
    /\ UNCHANGED <<source, stage, built, type, lists>>

ParseLanes ==
    /\ At("lanes")
    /\ \/ token = "*" /\ Consume(<<[do |-> "size", name |-> Do.name \o "*"]>>)
       \/ token # "*" /\ Stay(<<[do |-> "find", name |-> Do.name]>>)
    /\ UNCHANGED <<source, stage, built, type, lists>>

ParseSize ==
    /\ At("size")
    /\ \/ token \in Sizes /\ Consume(<<[do |-> "find", name |-> Do.name \o token]>>)
       \/ token \notin Sizes /\ Reject
    /\ UNCHANGED <<source, stage, built, type, lists>>

FindType ==
    /\ At("find")
    /\ \/ /\ Do.name \in DOMAIN TypeNames
          /\ type' = TypeNames[Do.name]
          /\ Stay(<<>>)
       \/ Do.name \notin DOMAIN TypeNames /\ Reject /\ UNCHANGED type
    /\ UNCHANGED <<source, stage, built, lists>>

(* parse_paramlist(), after the parenthesis.                               *)
ParseParameters ==
    /\ At("parameters")
    /\ \/ token = ")" /\ Consume(<<>>)
       \/ /\ token \in Identifiers
          /\ Consume(<<Step("typespec"),
                       [do |-> "parameter", list |-> Do.list, name |-> token],
                       Step("separator"), Do>>)
       \/ token \notin Identifiers \cup {")"} /\ Reject
    /\ UNCHANGED <<source, stage, built, type, lists>>

AddParameter ==
    /\ At("parameter")
    /\ lists' = [lists EXCEPT ![Do.list] =
                     Append(@, [name |-> Do.name, type |-> OrReal(type)])]
    /\ Stay(<<>>)
    /\ UNCHANGED <<source, stage, built, type>>

(* parse_let().  A type between the name of a function and its parameters  *)
(* is read, but the type of the function is the one that follows them.     *)
ParseLet ==
    /\ At("let")
    /\ \/ /\ token \in Identifiers
          /\ Consume(<<Step("typespec"), [do |-> "definition", name |-> token]>>)
       \/ token \notin Identifiers /\ Reject
    /\ UNCHANGED <<source, stage, built, type, lists>>

Definition(node) ==
    <<Expect("=")>> \o Expression \o <<Expect("in")>> \o Expression
        \o <<Build(node)>>

ParseDefinition ==
    /\ At("definition")
    /\ \/ /\ token = "("
          /\ lists' = [lists EXCEPT !["parameters"] = <<>>]
          /\ Stay(ParameterList("parameters")
                    \o <<Step("typespec"), [do |-> "function", name |-> Do.name]>>)
       \/ /\ token # "("
          /\ Stay(Definition([op |-> "let", name |-> Do.name, type |-> type]))
          /\ UNCHANGED lists
    /\ UNCHANGED <<source, stage, built, type>>

ParseFunction ==
    /\ At("function")
    /\ Stay(Definition([op |-> "fun", name |-> Do.name,
                        params |-> lists["parameters"], ret |-> OrReal(type)]))
    /\ UNCHANGED <<source, stage, built, type, lists>>

-----------------------------------------------------------------------------
(* compile(): the signature, then the code, each up to the end of its text.*)
BeginCode ==
    /\ At("code")
    /\ \/ /\ token = EOF
          /\ stage' = "code"
          /\ ReadWord("code", <<>>)
          /\ todo' = Expression \o <<Step("toplevel")>>
          /\ UNCHANGED status
       \/ token # EOF /\ Reject /\ UNCHANGED stage
    /\ UNCHANGED <<source, built, type, lists>>

EndCode ==
    /\ At("toplevel")
    /\ \/ token = EOF /\ status' = "accepted" /\ UNCHANGED <<todo, text, token>>
       \/ token # EOF /\ Reject
    /\ UNCHANGED <<source, stage, built, type, lists>>

Finished == status # "parsing" /\ UNCHANGED vars

Next ==
    \/ ParseExpected        \/ BuildNode
    \/ ParseOperators       \/ ApplyOperator        \/ ParseUnary
    \/ ParseLeaf            \/ ParseName            \/ ParseArguments
    \/ ParseSeparator       \/ ParsePostfix         \/ ParseMethod
    \/ ParseMethodCall      \/ ParseMethodArguments \/ ParseMethodComma
    \/ ParseVector          \/ ParseSplat           \/ ParseElements
    \/ ParseTypespec        \/ ParseTypename        \/ ParseLanes
    \/ ParseSize            \/ FindType
    \/ ParseParameters      \/ AddParameter
    \/ ParseLet             \/ ParseDefinition      \/ ParseFunction
    \/ BeginCode            \/ EndCode              \/ Finished

Spec == Init /\ [][Next]_vars
=============================================================================
