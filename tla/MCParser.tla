------------------------------ MODULE MCParser ------------------------------
(* Instances of the parser for TLC.                                        *)
EXTENDS ParserGrammar

MCIdentifiers == {"a", "b", "let", "in", "if", "then", "else"}
MCNumbers     == {"0", "2"}
MCSizes       == {"2"}
MCTypeNames   == [t \in {"a", "in", "a*2"} |-> IF t = "a*2" THEN "vector" ELSE "boolean"]
MCNames ==
    Identifiers \cup {Method(x) : x \in Identifiers \cup Operators \cup {"[]"}}
MCNothing == <<>>

Source(w, n, u, m) ==
    [s \in Stages |-> IF s = "signature" THEN [words |-> w, length |-> n]
                      ELSE [words |-> u, length |-> m]]

Code(w, n) == Source({"(", ")", ":"}, 5, w, n)

(* Operators; let with accessors; if with accessors; lists and indices;    *)
(* definitions in which `in' is also a name and a type; signatures.        *)
MCSources == {
    Code({"a", "and", "<", "+", "*", "-", "not", "(", ")"}, 7),
    Code({"a", "let", "in", "=", ".", "+"}, 10),
    Code({"a", "if", "then", "else", "."}, 10),
    Code({"a", "(", ")", ",", "[", "]", "*", "2", "0", "."}, 7),
    Code({"let", "in", "=", "(", ")", ":"}, 12),
    Source({"a", "b", "(", ")", ":", ",", "*", "2", "0"}, 13, {"a"}, 1)}
=============================================================================
