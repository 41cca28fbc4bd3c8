------------------------------- MODULE Lexer -------------------------------
(***************************************************************************)
(* The lexer (calculon_lexer.h): it reads a stream character by character, *)
(* with one character of look-ahead and the end-of-file bit of the stream, *)
(* which is set by the attempt to look or to read beyond the end.  The     *)
(* parser is taken to ask for tokens until the end.                        *)
(***************************************************************************)
EXTENDS Lexemes

CONSTANT Texts     \* the texts of scripts and signatures

ASSUME TextsAssumption == Texts \subseteq Seq(Characters)

VARIABLES
    text,      \* what the stream contains
    bad,       \* whether the stream is not readable, as of a missing file
    at,        \* how many characters have been read
    eof,       \* _data.eof()
    pos,       \* _pos
    tokenPos,  \* _tokenPos
    start,     \* where the lexeme begins that is read now
    word,      \* what has been read of an identifier
    stage,     \* which function is reading
    out        \* the tokens so far

vars == <<text, bad, at, eof, pos, tokenPos, start, word, stage, out>>

End == "end"
Unset == [line |-> 0, column |-> 0]    \* a Position that was never assigned

Init ==
    /\ \/ text \in Texts /\ bad = FALSE
       \/ text = <<>> /\ bad = TRUE
    /\ at = 0 /\ eof = FALSE
    /\ pos = [line |-> 1, column |-> 1]
    /\ tokenPos = Unset /\ start = 0
    /\ word = <<>> /\ stage = "next" /\ out = <<>>

Ahead(n) == IF n < Len(text) THEN text[n + 1] ELSE End
Peek == Ahead(at)

(* The end of the characters of S that follow the first n.                 *)
Past(n, S) ==
    CHOOSE m \in n..Len(text) :
        (\A k \in n + 1 .. m : text[k] \in S) /\ Ahead(m) \notin S

(* consume(): carriage returns are skipped before a character is taken.    *)
Consumed == Ahead(Past(at, {"cr"}))

\* Defect: a newline does not reset the column.
ConsumeInOneColumn ==
    /\ at' = Past(at, {"cr"}) + (IF Consumed = End THEN 0 ELSE 1)
    /\ pos' = IF Consumed = "nl" THEN [pos EXCEPT !.line = @ + 1]
              ELSE [pos EXCEPT !.column = @ + 1]

Consume ==
    /\ at' = Past(at, {"cr"}) + (IF Consumed = End THEN 0 ELSE 1)
    /\ pos' = IF Consumed = "nl" THEN [line |-> pos.line + 1, column |-> 1]
              ELSE [pos EXCEPT !.column = @ + 1]

(* The stream after peek(), and after consume() alone.                     *)
Peeked   == eof' = (Ahead(at') = End)
Unpeeked == eof' = (Consumed = End)

Emit(kind, w) ==
    out' = Append(out, [kind |-> kind, word |-> w, pos |-> tokenPos', start |-> start'])

Throw ==
    /\ Emit("error", <<>>)
    /\ stage' = "thrown"

-----------------------------------------------------------------------------
(* Defects: readers with a plausible bug, each of which violates one of    *)
(* the properties below.                                                   *)

\* After a star, whatever follows is taken with it.
CommentPairsStars ==
    /\ stage = "multiline"
    /\ UNCHANGED <<text, bad, tokenPos, start, word>>
    /\ IF eof THEN Throw /\ UNCHANGED <<at, eof, pos>>
       ELSE IF Consumed = "*" /\ Ahead(Past(at, {"cr"}) + 1) # End
       THEN /\ at' = Past(at, {"cr"}) + 2
            /\ pos' = [pos EXCEPT !.column = @ + 2]
            /\ stage' = IF Ahead(at' - 1) = "/" THEN "next" ELSE stage
            /\ UNCHANGED <<eof, out>>
       ELSE /\ Consume
            /\ eof' = (Consumed = End)
            /\ UNCHANGED <<stage, out>>

\* A comment that does not end waits for more.
CommentNeverFails ==
    /\ stage = "multiline"
    /\ UNCHANGED <<text, bad, tokenPos, start, word>>
    /\ IF eof THEN UNCHANGED <<at, eof, pos, stage, out>>
       ELSE /\ Consume
            /\ IF Consumed = "*" THEN Peeked ELSE Unpeeked
            /\ UNCHANGED <<stage, out>>

-----------------------------------------------------------------------------
(* next(): blanks are skipped, and the end of the stream is a token, at    *)
(* the position of the lexeme before.                                      *)
SkipBlank ==
    /\ stage = "next" /\ ~ eof /\ Peek \in Blanks
    /\ Consume /\ Unpeeked
    /\ UNCHANGED <<text, bad, tokenPos, start, word, stage, out>>

ReachEnd ==
    /\ stage = "next"
    /\ eof \/ (Peek = End /\ ~ bad)
    /\ eof' = TRUE /\ stage' = "end"
    /\ UNCHANGED <<text, bad, at, pos, tokenPos, start, word>>
    /\ Emit("eof", <<>>)

Begin(S) ==
    /\ stage = "next" /\ ~ eof /\ Peek \in S
    /\ tokenPos' = pos /\ start' = at
    /\ UNCHANGED <<text, bad>>

(* A stream that cannot be read answers the end to peek(), but not to      *)
(* eof(): an unknown character.                                            *)
UnknownCharacter ==
    /\ Begin({"other"} \cup IF bad THEN {End} ELSE {})
    /\ Throw
    /\ UNCHANGED <<at, eof, pos, word>>

(* read_number(): the stream takes every character that may belong to a    *)
(* number, and fails if they are none.  tellg() of a stream that met its   *)
(* end is -1.  moved is what consume() has added to the column before.     *)
ReadNumber(moved) ==
    LET Fraction == LET n == Past(at, Digits) IN
                    IF Ahead(n) = "." THEN Past(n + 1, Digits) ELSE n
        Sign     == IF Ahead(Fraction + 1) = "-" THEN 2 ELSE 1
        Scaled   == Ahead(Fraction) = "e"
        Stop     == IF Scaled THEN Past(Fraction + Sign, Digits) ELSE Fraction
        tell     == IF Ahead(Stop) = End THEN -1 ELSE Stop
    IN  /\ at' = Stop
        /\ eof' = (Ahead(Stop) = End)
        /\ IF Scaled /\ Stop = Fraction + Sign
           THEN Throw /\ UNCHANGED pos
           ELSE /\ pos' = [pos EXCEPT !.column = @ + moved + tell - at]
                /\ Emit("number", SubSeq(text, at + 1, Stop))
                /\ UNCHANGED stage
        /\ UNCHANGED word

BeginNumber == Begin(Digits) /\ ReadNumber(0)

BeginIdentifier ==
    /\ Begin(IdStart)
    /\ stage' = "identifier" /\ word' = <<>>
    /\ UNCHANGED <<at, eof, pos, out>>

ReadIdentifier ==
    /\ stage = "identifier"
    /\ Consume /\ Peeked
    /\ word' = Append(word, Consumed)
    /\ UNCHANGED <<text, bad, tokenPos, start>>
    /\ IF Ahead(at') \in IdRest THEN UNCHANGED <<stage, out>>
       ELSE stage' = "next" /\ Emit(WordKind(word'), word')

(* read_operator(): one character is taken; the next one decides whether   *)
(* it is a number, a comment or an operator of two characters.             *)
BeginOperator ==
    /\ Begin(Punct)
    /\ LET next == Ahead(at + 1) IN
       CASE Peek = "." /\ next \in Digits -> ReadNumber(1)
         [] Peek = "/" /\ next \in {"/", "*"} ->
               /\ Consume /\ Peeked
               /\ stage' = IF next = "*" THEN "multiline" ELSE "singleline"
               /\ UNCHANGED <<word, out>>
         [] Peek \in {"=", "<"} /\ next = "=" ->
               /\ at' = at + 2 /\ pos' = [pos EXCEPT !.column = @ + 2]
               /\ Emit("operator", <<Peek, "=">>)
               /\ UNCHANGED <<eof, stage, word>>
         [] OTHER ->
               /\ Consume /\ Peeked
               /\ Emit(KindOf(<<Peek>>), <<Peek>>)
               /\ UNCHANGED <<stage, word>>

(* read_multiline_comment(), entered with its star unread.                 *)
ReadMultilineComment ==
    /\ stage = "multiline"
    /\ UNCHANGED <<text, bad, tokenPos, start, word>>
    /\ IF eof THEN Throw /\ UNCHANGED <<at, eof, pos>>
       ELSE IF Consumed = "*" /\ Ahead(Past(at, {"cr"}) + 1) = "/"
       THEN /\ at' = Past(at, {"cr"}) + 2
            /\ pos' = [pos EXCEPT !.column = @ + 2]
            /\ stage' = "next"
            /\ UNCHANGED <<eof, out>>
       ELSE /\ Consume
            /\ IF Consumed = "*" THEN Peeked ELSE Unpeeked
            /\ UNCHANGED <<stage, out>>

(* read_singleline_comment(), up to the next line or the end.              *)
ReadSinglelineComment ==
    /\ stage = "singleline"
    /\ Consume /\ Unpeeked
    /\ stage' = IF eof' \/ pos'.line # pos.line THEN "next" ELSE stage
    /\ UNCHANGED <<text, bad, tokenPos, start, word, out>>

Next ==
    \/ SkipBlank \/ ReachEnd \/ UnknownCharacter
    \/ BeginNumber \/ BeginIdentifier \/ ReadIdentifier
    \/ BeginOperator \/ ReadMultilineComment \/ ReadSinglelineComment

Spec == Init /\ [][Next]_vars

(* The lexer is sequential code that nothing interrupts.                   *)
FairSpec == Spec /\ WF_vars(Next)
-----------------------------------------------------------------------------
TypeOK ==
    /\ text \in Texts \cup {<<>>} /\ bad \in BOOLEAN /\ eof \in BOOLEAN
    /\ at \in 0..Len(text) /\ start \in 0..at
    /\ pos.line \in 1..Len(text) + 1 /\ pos.column \in Int
    /\ tokenPos = Unset \/ tokenPos.line \in 1..pos.line
    /\ word \in Seq(IdRest)
    /\ stage \in {"next", "identifier", "multiline", "singleline", "end", "thrown"}
    /\ \A i \in DOMAIN out : out[i].kind = "error" => i = Len(out) /\ stage = "thrown"

(* A text in which carriage returns only precede newlines or the end: any  *)
(* other one takes the next character with it, whatever that is.           *)
LinesEndPlainly ==
    \A k \in DOMAIN text : text[k] = "cr" =>
        k = Len(text) \/ text[k + 1] \in {"cr", "nl"}

(* The star of the beginning of a comment is taken for that of its end.    *)
NoStarTwice ==
    \A k \in 3..Len(text) : SubSeq(text, k - 2, k) # <<"/", "*", "/">>

(* The tokens are the lexemes of the text without its carriage returns, in *)
(* order, and an error ends them where one is due: maximal munch by a      *)
(* stream with a single character of look-ahead.                           *)
TokensAsWritten ==
    stage \in {"end", "thrown"} /\ LinesEndPlainly /\ NoStarTwice /\ ~ bad =>
        [i \in DOMAIN out |-> Token(out[i].kind, out[i].word)]
            = Tokens(SelectSeq(text, LAMBDA c : c # "cr"))

(* The position of a token, and that of an error, is where it is in the    *)
(* text, whatever blanks, comments and carriage returns come before,       *)
(* except that each number that begins with a point moves the rest of its  *)
(* line one column to the right.  Only an end of file after blanks alone   *)
(* has no position.                                                        *)
PositionsTrue ==
    /\ TypeOK
    /\ \A i \in DOMAIN out :
          LET place == Place(text, out[i].start)
              shift == Cardinality({j \in 1..i - 1 :
                          /\ out[j].start < out[i].start
                          /\ out[j].kind = "number" /\ out[j].word[1] = "."
                          /\ out[j].pos.line = place.line})
          IN  IF out[i].pos = Unset
              THEN /\ out[i].kind = "eof" /\ ~ bad
                   /\ LinesEndPlainly => Over(text, Blanks)
              ELSE out[i].pos = [place EXCEPT !.column = @ + shift]

(* Every text has an end or an error.                                      *)
Terminates == <>(stage \in {"end", "thrown"})
=============================================================================
