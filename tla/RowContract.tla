---------------------------- MODULE RowContract ----------------------------
(***************************************************************************)
(* What the filter demo does, seen from outside: it may refuse to start;   *)
(* if not it cuts its input into rows of width numbers, in order, and      *)
(* writes one row of results for each whole one, until the input ends or   *)
(* is found malformed.  It always exits, and its status is 0 if and only   *)
(* if it started and the whole input was numbers.                          *)
(***************************************************************************)
EXTENDS Integers, Sequences

VARIABLES
    input,   \* the words of the input: "number" or "malformed"
    width,   \* how many numbers make a row
    fits,    \* whether rows of input and output fit into the program
    rows,    \* for each row written, which numbers it was computed from
    ended    \* "no", or how the program has ended

vars == <<input, width, fits, rows, ended>>

Init == width \in Nat \ {0} /\ rows = <<>> /\ ended = "no"

Written == Len(rows) * width
Row == {i \in DOMAIN input : Written < i /\ i <= Written + width}

Whole == Written + width <= Len(input)
Sound == \A i \in Row : input[i] = "number"

End(how) == ended = "no" /\ ended' = how /\ UNCHANGED <<input, width, fits, rows>>

Refuse == rows = <<>> /\ End("refused: 1")

WriteRow ==
    /\ ended = "no" /\ Whole /\ Sound
    /\ rows' = Append(rows, [i \in 1..width |-> Written + i])
    /\ UNCHANGED <<input, width, fits, ended>>

Finish == ~ Whole /\ Sound /\ End(IF Row = {} THEN "complete: 0" ELSE "partial: 0")

Malformed == ~ Sound /\ End("malformed: 1")

(* Nothing is promised if a row is too large.                              *)
Overrun == ~ fits /\ End("overrun")

Next == Refuse \/ WriteRow \/ Finish \/ Malformed \/ Overrun

Safety == Init /\ [][Next]_vars

Spec == Safety /\ WF_vars(Next)
=============================================================================
