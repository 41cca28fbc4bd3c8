------------------------------- MODULE Trees -------------------------------
(***************************************************************************)
(* All trees of a bounded size over an alphabet of nodes, as preorder      *)
(* lists: the programs of the model-checked instances.                     *)
(***************************************************************************)
EXTENDS Ast

(* begun[n]: the lists of n nodes that begin a tree of at most `size'      *)
(* nodes, each paired with the number of its subtrees still to come.       *)
(* (The list comes first: TLC builds the set fastest in its own order.)    *)
TreesOf(alphabet, size) ==
    LET begun[n \in Nat] ==
            IF n = 0 THEN {<<<<>>, 1>>}
            ELSE {w \in {<<Append(v[1], x), v[2] - 1 + Arity(x)>> :
                            x \in alphabet,
                            v \in {u \in begun[n - 1] : u[2] > 0}} :
                     w[2] <= size - n}
    IN  UNION {{w[1] : w \in {v \in begun[n] : v[2] = 0}} : n \in 1 .. size}
=============================================================================
