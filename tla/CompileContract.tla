-------------------------- MODULE CompileContract --------------------------
(***************************************************************************)
(* What compiling a script promises (doc/usage.wiki, Introduction): it     *)
(* ends, either with a function or with an exception.  Only of plain and   *)
(* typed programs is it true: one that is not plain may also bring the     *)
(* compiler down, which ends it too, and the function of one that is not   *)
(* typed may be malformed.                                                 *)
(***************************************************************************)
VARIABLES
    plain, typed,    \* what the program is like: nothing changes it
    outcome

Init == outcome = "compiling"

Succeed == outcome = "compiling" /\ outcome' = "function"
Fail    == outcome = "compiling" /\ outcome' = "exception"

Break ==
    /\ outcome = "compiling" /\ outcome' \in {"aborted", "crashed", "failed"}
    /\ ~ plain

Garble == outcome = "compiling" /\ outcome' = "malformed" /\ ~ typed

Next == Succeed \/ Fail \/ Break \/ Garble

Safety == Init /\ [][Next]_outcome

Spec == Safety /\ WF_outcome(Next)
=============================================================================
