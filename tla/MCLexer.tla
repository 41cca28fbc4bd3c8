------------------------------ MODULE MCLexer ------------------------------
(* An instance of the lexer for TLC: all texts of bounded lengths over     *)
(* alphabets that each hold what one kind of lexeme needs.                 *)
EXTENDS Lexer

TextsOver(S, n) == UNION {[1..k -> S] : k \in 0..n}

MCTexts ==
    TextsOver({"1", ".", "e", "-"}, 6)
    \cup TextsOver({"/", "*", "nl", "a"}, 6)
    \cup TextsOver({"cr", "nl", "*", "/"}, 6)
    \cup TextsOver({".", "1", "nl", "sp", "cr"}, 5)
    \cup TextsOver({"o", "r", "_", "1", "="}, 4)
    \cup TextsOver({"=", "<", "(", ":", "other", "cr"}, 4)
=============================================================================
