------------------------------ MODULE Lexemes ------------------------------
(***************************************************************************)
(* Reference for the lexer: which tokens a text consists of, defined on    *)
(* the text alone.  At each place the longest lexeme is taken: a blank, a  *)
(* comment, a word, a number or an operator.                               *)
(*                                                                         *)
(* Characters are members of small sets that stand for the classes the     *)
(* lexer tells apart; "cr", "nl", "sp" are carriage return, newline, space *)
(* and "other" a character that no token contains.                         *)
(***************************************************************************)
EXTENDS Integers, Sequences, SequencesExt, FiniteSets

Digits   == {"1"}
IdStart  == {"a", "e", "o", "r", "_"}
IdRest   == IdStart \cup Digits
Blanks   == {"sp", "nl", "cr"}
Punct    == {".", "/", "*", "=", "<", "-", "(", ")", "[", "]", ":", ","}
Characters == IdRest \cup Blanks \cup Punct \cup {"other"}

(* The names of the tokens that are a single character of their own.       *)
KindOf(w) ==
    CASE w = <<"(">> -> "openparen"
      [] w = <<")">> -> "closeparen"
      [] w = <<"[">> -> "openblock"
      [] w = <<"]">> -> "closeblock"
      [] w = <<":">> -> "colon"
      [] w = <<",">> -> "comma"
      [] w = <<".">> -> "dot"
      [] OTHER -> "operator"

WordKind(w) == IF w = <<"o", "r">> THEN "operator" ELSE "identifier"

Over(w, S) == \A i \in DOMAIN w : w[i] \in S

Blank(w) == Len(w) = 1 /\ w[1] \in Blanks

LineComment(w) ==
    /\ IsPrefix(<<"/", "/">>, w)
    /\ \A i \in 1..Len(w) - 1 : w[i] # "nl"

BlockComment(w) ==
    /\ Len(w) >= 4 /\ IsPrefix(<<"/", "*">>, w)
    /\ \A i \in 4..Len(w) :
          (w[i - 1] = "*" /\ w[i] = "/") <=> i = Len(w)

Word(w) == w # <<>> /\ w[1] \in IdStart /\ Over(w, IdRest)

(* Digits with a point anywhere, but not a point alone.                    *)
Mantissa(w) ==
    /\ Over(w, Digits \cup {"."})
    /\ Cardinality({i \in DOMAIN w : w[i] = "."}) <= 1
    /\ \E i \in DOMAIN w : w[i] \in Digits

Exponent(w) ==
    /\ w # <<>> /\ w[1] = "e"
    /\ LET s == IF Len(w) > 1 /\ w[2] = "-" THEN 3 ELSE 2 IN
       Len(w) >= s /\ Over(SubSeq(w, s, Len(w)), Digits)

Number(w) ==
    \E i \in 1..Len(w) :
        /\ Mantissa(SubSeq(w, 1, i))
        /\ i = Len(w) \/ Exponent(SubSeq(w, i + 1, Len(w)))

Operator(w) ==
    \/ Len(w) = 1 /\ w[1] \in Punct
    \/ Len(w) = 2 /\ w[1] \in {"=", "<"} /\ w[2] = "="

Lexeme(w) ==
    Blank(w) \/ LineComment(w) \/ BlockComment(w) \/ Word(w) \/ Number(w)
    \/ Operator(w)

(* Where no token can be read: an unknown character, a comment that does   *)
(* not end, an exponent without digits.                                    *)
Wrong(t, i, j) ==
    LET Ahead(k) == IF k <= Len(t) THEN t[k] ELSE "sp" IN
    \/ Ahead(i + 1) = "other"
    \/ IsPrefix(<<"/", "*">>, SubSeq(t, i + 1, Len(t))) /\ j = i + 1
    \/ Number(SubSeq(t, i + 1, j)) /\ Mantissa(SubSeq(t, i + 1, j))
       /\ Ahead(j + 1) = "e"

Token(k, w) == [kind |-> k, word |-> w]

(* The tokens of t, with an end of file or an error as the last.           *)
Tokens(t) ==
    LET Longest(i) ==
            LET ends == {j \in i + 1 .. Len(t) : Lexeme(SubSeq(t, i + 1, j))} IN
            IF ends = {} THEN i ELSE CHOOSE j \in ends : \A k \in ends : k <= j
        From[i \in 0..Len(t)] ==
            LET j == Longest(i)
                w == SubSeq(t, i + 1, j)
            IN  IF i = Len(t) THEN <<Token("eof", <<>>)>>
                ELSE IF Wrong(t, i, j) THEN <<Token("error", <<>>)>>
                ELSE IF Word(w) THEN <<Token(WordKind(w), w)>> \o From[j]
                ELSE IF Number(w) THEN <<Token("number", w)>> \o From[j]
                ELSE IF Operator(w) THEN <<Token(KindOf(w), w)>> \o From[j]
                ELSE From[j]
    IN  From[0]

(* The line and column of the character after the first n: carriage        *)
(* returns are no characters.                                              *)
Place(t, n) ==
    LET newlines == {k \in 1..n : t[k] = "nl"} IN
    [line |-> Cardinality(newlines) + 1,
     column |-> 1 + Cardinality({k \in 1..n :
                      t[k] # "cr" /\ \A m \in newlines : m < k})]
=============================================================================
