------------------------------ MODULE MCFilter ------------------------------
(* An instance of the filter for TLC: buffers of three numbers, rows of up *)
(* to four, and every wrong option.                                        *)
EXTENDS Filter

Options == [help |-> FALSE, file |-> FALSE, script |-> TRUE, define |-> "none",
            vector |-> "none", type |-> "none", precision |-> "double",
            ivector |-> 0, ovector |-> 0]

Sizes == {[Options EXCEPT !.ivector = i, !.ovector = o] : i, o \in 0..4}

Wrong ==
    {[Options EXCEPT !.help = h, !.file = f, !.script = s, !.define = d, !.vector = v,
                     !.type = t, !.precision = p] :
        h, f, s \in BOOLEAN, d, v, t \in {"good", "malformed"}, p \in {"float", "other"}}

MCCommands == Sizes \cup Wrong
MCInputs == UNION {[1..n -> {"number", "malformed"}] : n \in 0..7}
=============================================================================
