------------------------------- MODULE Filter -------------------------------
(***************************************************************************)
(* The filter demo (demo/filter.cc): it checks its options, compiles a     *)
(* script, and applies it to each number, or each row of numbers, of its   *)
(* input.  Rows go through two buffers of fixed size.                      *)
(***************************************************************************)
EXTENDS Integers, Sequences

CONSTANTS
    MAX_VECTOR_ELEMENTS,  \* size of the buffers of a row
    Commands,             \* command lines, as records of their options
    Inputs                \* what standard input may contain

Definitions == {"none", "good", "malformed"}

ASSUME FilterAssumption ==
    /\ MAX_VECTOR_ELEMENTS \in Nat \ {0}
    /\ Commands \subseteq [help : BOOLEAN, file : BOOLEAN, script : BOOLEAN,
                           define : Definitions, vector : Definitions,
                           type : Definitions,
                           precision : {"double", "float", "other"},
                           ivector : Nat, ovector : Nat]
    /\ Inputs \subseteq Seq({"number", "malformed"})

VARIABLES
    command,    \* the command line
    input,      \* standard input: its words
    next,       \* how many of them have been read
    stage,      \* what the program is doing
    in,         \* istorage: which number each element holds
    index,      \* i, the element of the row that is read next
    rows,       \* the rows written: the numbers each was computed from
    complaint,  \* what was reported on standard error
    code        \* the exit status

vars == <<command, input, next, stage, in, index, rows, complaint, code>>

Garbage == 0        \* an element that was never read

Init ==
    /\ command \in Commands /\ input \in Inputs
    /\ next = 0 /\ stage = "options"
    /\ in = <<>> /\ index = 0 /\ rows = <<>>
    /\ complaint = "none" /\ code = 0

(* ivsize and ovsize; without them a row is a single real.                 *)
InRows == command.ivector # 0
Width  == IF InRows THEN command.ivector ELSE 1
Capacity == IF InRows THEN MAX_VECTOR_ELEMENTS ELSE 1

Exit(status, what) ==
    /\ stage' = "exited" /\ code' = status /\ complaint' = what
    /\ UNCHANGED <<command, input, next, in, index, rows>>

Overrun ==
    /\ stage' = "overrun"
    /\ UNCHANGED <<command, input, next, in, index, rows, complaint, code>>

-----------------------------------------------------------------------------
(* Defects: steps with a plausible bug, each of which violates one of the  *)
(* properties below.                                                       *)

\* The row that was begun is processed with what the last one left.
ReadPaddedNumber ==
    /\ stage = "read" /\ index < Width
    /\ IF next = Len(input)
       THEN IF index = 0 THEN Exit(0, "none")
            ELSE /\ index' = Width
                 /\ UNCHANGED <<command, input, next, stage, in, rows, complaint, code>>
       ELSE IF index >= Capacity THEN Overrun
       ELSE IF input[next + 1] = "malformed" THEN Exit(1, "malformed")
       ELSE /\ next' = next + 1 /\ index' = index + 1
            /\ in' = [in EXCEPT ![index + 1] = next']
            /\ UNCHANGED <<command, input, stage, rows, complaint, code>>

\* The row is not begun anew after it was written.
CallWithoutReset ==
    /\ stage = "read" /\ index = Width
    /\ IF InRows /\ command.ovector > Capacity THEN Overrun
       ELSE /\ rows' = Append(rows, SubSeq(in, 1, Width))
            /\ index' = Width - 1
            /\ UNCHANGED <<command, input, next, stage, in, complaint, code>>

-----------------------------------------------------------------------------
(* What main() objects to, in this order.                                  *)
Objections ==
    << <<command.help, "help">>,
       <<~ command.file /\ ~ command.script, "no script">>,
       <<command.file /\ command.script, "two scripts">>,
       <<command.define = "malformed", "definition">>,
       <<command.vector = "malformed", "definition">>,
       <<command.type = "malformed", "definition">>,
       <<(command.ivector # 0) # (command.ovector # 0), "sizes">>,
       <<command.precision = "other", "precision">> >>

Objected == {i \in DOMAIN Objections : Objections[i][1]}

CheckOptions ==
    /\ stage = "options"
    /\ IF Objected # {}
       THEN Exit(1, Objections[CHOOSE i \in Objected : \A j \in Objected : i <= j][2])
       ELSE /\ stage' = "compile"
            /\ UNCHANGED <<command, input, next, in, index, rows, complaint, code>>

(* The globals are added and the script is compiled, which may throw.      *)
Compile ==
    /\ stage = "compile"
    /\ \/ Exit(1, "compilation")
       \/ /\ stage' = "read"
          /\ in' = [i \in 1..Capacity |-> Garbage]
          /\ UNCHANGED <<command, input, next, index, rows, complaint, code>>

(* readnumber(): a word that is no number ends the program, wherever it    *)
(* is; parsenumber() has stored its result before it reports that.         *)
ReadNumber ==
    /\ stage = "read" /\ index < Width
    /\ IF next = Len(input)
       THEN Exit(0, IF index = 0 THEN "none" ELSE "partial row")
       ELSE IF index >= Capacity THEN Overrun
       ELSE IF input[next + 1] = "malformed" THEN Exit(1, "malformed")
       ELSE /\ next' = next + 1 /\ index' = index + 1
            /\ in' = [in EXCEPT ![index + 1] = next']
            /\ UNCHANGED <<command, input, stage, rows, complaint, code>>

(* The row is complete: the script is called, which writes a vector of     *)
(* ovector elements, and its results are printed.                          *)
CallAndWrite ==
    /\ stage = "read" /\ index = Width
    /\ IF InRows /\ command.ovector > Capacity THEN Overrun
       ELSE /\ rows' = Append(rows, SubSeq(in, 1, Width))
            /\ index' = 0
            /\ UNCHANGED <<command, input, next, stage, in, complaint, code>>

Next == CheckOptions \/ Compile \/ ReadNumber \/ CallAndWrite

Spec == Init /\ [][Next]_vars

(* The program is sequential, its input is a file or a pipe that ends, and *)
(* a script that the compiler accepts returns.                             *)
FairSpec == Spec /\ WF_vars(Next)
-----------------------------------------------------------------------------
TypeOK ==
    /\ command \in Commands /\ input \in Inputs
    /\ next \in 0..Len(input)
    /\ stage \in {"options", "compile", "read", "exited", "overrun"}
    /\ index \in 0..Width
    /\ \A i \in DOMAIN in : in[i] \in 0..next
    /\ code \in {0, 1}

(* The elements of the buffer below index are the numbers read last, in    *)
(* order, so that no row mixes numbers of two; every number read before    *)
(* has been in a row that was written; and what is read stays within the   *)
(* buffer.                                                                 *)
BufferHoldsRow ==
    /\ TypeOK
    /\ next = Len(rows) * Width + index
    /\ stage = "read" =>
          /\ index <= Len(in) /\ Len(in) = Capacity
          /\ \A i \in 1..index : in[i] = next - index + i

(* Reading number by number, the program writes the rows and has the exit  *)
(* status of RowContract: rows are whole, in order and of this input only, *)
(* all rows before a malformed word are written, and a row that the input  *)
(* does not complete is reported.                                          *)
Ended ==
    IF stage = "overrun" THEN "overrun"
    ELSE IF stage # "exited" THEN "no"
    ELSE IF code = 0 THEN IF complaint = "none" THEN "complete: 0" ELSE "partial: 0"
    ELSE IF complaint = "malformed" THEN "malformed: 1" ELSE "refused: 1"

Contract == INSTANCE RowContract
              WITH width <- Width, ended <- Ended,
                   fits <- Width <= Capacity /\ (InRows => command.ovector <= Capacity)

FiltersRows == Contract!Spec
=============================================================================
