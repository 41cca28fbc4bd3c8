----------------------------- MODULE VectorSum -----------------------------
(***************************************************************************)
(* The code that V.sum generates (SumMethod, calculon_intrinsics.h).  A    *)
(* vector is cut into parts whose sizes are powers of two; a part is       *)
(* halved, one half added to the other, until one or two elements remain;  *)
(* the sums of the parts are added in the same way.  Each step below       *)
(* appends the instructions of one step of the generator.                  *)
(***************************************************************************)
EXTENDS Integers, Sequences

CONSTANT Sizes     \* the sizes of the vectors that are summed

ASSUME SizesAssumption == Sizes \subseteq Nat \ {0}

VARIABLES
    size,      \* the size of the vector the script sums
    source,    \* sum_non_power_of_2(): the vector that is cut into parts
    min,       \* its minelement; maxelement is the length of source
    results,   \* its results: the sums of the parts so far
    rest,      \* find_power_of_2(): i
    power,     \* find_power_of_2(): j, the size of the part
    part,      \* sum_power_of_2(): the vector it is given
    from,      \* its minelement
    width,     \* its isize
    stage,     \* where the generator is
    total      \* the value of V.sum

vars == <<size, source, min, results, rest, power, part, from, width, stage,
          total>>

(* A real that the code computes is the set of elements of V that it adds  *)
(* up.  An element that is added twice, or a lane that no vector has,      *)
(* leaves a mark that is no element.                                       *)
Elements == 1..size
Twice == 0
Undefined == -1

Add(u, v) == u \cup v \cup (IF u \cap v = {} THEN {} ELSE {Twice})

Lane(v, i) == IF i + 1 \in DOMAIN v THEN v[i + 1] ELSE {Undefined}

Init ==
    /\ size \in Sizes
    /\ source = [i \in 1..size |-> {i}]
    /\ min = 0
    /\ results = <<>>
    /\ rest = 0 /\ power = 1
    /\ part = <<>> /\ from = 0 /\ width = 0
    /\ stage = "cut"
    /\ total = {}

-----------------------------------------------------------------------------
(* Defects: steps with a plausible bug, each of which violates one of the  *)
(* properties below.                                                       *)

\* The second half is taken from the beginning of the vector.
HalveFromStart ==
    /\ stage = "halve" /\ width > 2
    /\ LET half == width \div 2 IN
       /\ part' = [i \in 1..half |-> Add(Lane(part, from + i - 1),
                                         Lane(part, half + i - 1))]
       /\ from' = 0 /\ width' = half
    /\ UNCHANGED <<size, source, min, results, rest, power, stage, total>>

\* The size of the part is not halved with it.
HalveKeepsWidth ==
    /\ stage = "halve" /\ width > 2
    /\ LET half == width \div 2 IN
       /\ part' = [i \in 1..half |-> Add(Lane(part, from + i - 1),
                                         Lane(part, from + half + i - 1))]
       /\ from' = 0
    /\ UNCHANGED <<size, source, min, results, rest, power, width, stage, total>>

\* min moves by what is left of the part.
AdvanceByWidth ==
    /\ stage = "halve" /\ width <= 2
    /\ results' = Append(results,
                    IF width = 1 THEN Lane(part, from)
                    ELSE Add(Lane(part, from), Lane(part, from + 1)))
    /\ min' = min + width
    /\ stage' = "cut"
    /\ UNCHANGED <<size, source, rest, power, part, from, width, total>>

-----------------------------------------------------------------------------
(* sum_non_power_of_2(): the next part begins at min and has the size that *)
(* find_power_of_2() computes by halving what is left.                     *)
Cut ==
    /\ stage = "cut" /\ min # Len(source)
    /\ rest' = Len(source) - min
    /\ power' = 1
    /\ stage' = "find"
    /\ UNCHANGED <<size, source, min, results, part, from, width, total>>

DoublePower ==
    /\ stage = "find" /\ rest > 1
    /\ rest' = rest \div 2
    /\ power' = 2 * power
    /\ UNCHANGED <<size, source, min, results, part, from, width, stage, total>>

TakePart ==
    /\ stage = "find" /\ rest <= 1
    /\ part' = source /\ from' = min /\ width' = power
    /\ stage' = "halve"
    /\ UNCHANGED <<size, source, min, results, rest, power, total>>

(* sum_power_of_2() of more than two elements: two shuffles and a vector   *)
(* addition halve the part.                                                *)
Halve ==
    /\ stage = "halve" /\ width > 2
    /\ LET half == width \div 2 IN
       /\ part' = [i \in 1..half |-> Add(Lane(part, from + i - 1),
                                         Lane(part, from + half + i - 1))]
       /\ from' = 0 /\ width' = half
    /\ UNCHANGED <<size, source, min, results, rest, power, stage, total>>

(* One or two elements are added as scalars; min moves behind the part.    *)
AddScalars ==
    /\ stage = "halve" /\ width <= 2
    /\ results' = Append(results,
                    IF width = 1 THEN Lane(part, from)
                    ELSE Add(Lane(part, from), Lane(part, from + 1)))
    /\ min' = min + power
    /\ stage' = "cut"
    /\ UNCHANGED <<size, source, rest, power, part, from, width, total>>

(* All parts are summed: the sums are the next vector, unless there are    *)
(* only one or two of them.                                                *)
SumResults ==
    /\ stage = "cut" /\ min = Len(source)
    /\ IF Len(results) <= 2
       THEN /\ total' = IF Len(results) = 1 THEN results[1]
                        ELSE Add(results[1], results[2])
            /\ stage' = "done"
            /\ UNCHANGED <<source, min, results>>
       ELSE /\ source' = results /\ min' = 0 /\ results' = <<>>
            /\ UNCHANGED <<total, stage>>
    /\ UNCHANGED <<size, rest, power, part, from, width>>

Next == Cut \/ DoublePower \/ TakePart \/ Halve \/ AddScalars \/ SumResults

Spec == Init /\ [][Next]_vars

(* The generator is sequential code that nothing interrupts.               *)
FairSpec == Spec /\ WF_vars(Next)
-----------------------------------------------------------------------------
(* n is a power of two if 1 is its only odd divisor.                       *)
IsPower(n) == \A d, e \in 1..n : d * e = n => d = 1 \/ d % 2 = 0

Values == SUBSET Elements

TypeOK ==
    /\ size \in Sizes
    /\ source \in Seq(Values) /\ results \in Seq(Values)
    /\ part \in Seq(Values)
    /\ min \in 0..Len(source)
    /\ rest \in Nat /\ power \in Nat /\ from \in Nat /\ width \in Nat
    /\ stage \in {"cut", "find", "halve", "done"}
    /\ total \in Values

(* A part fits into what is left of the vector and can be halved until one *)
(* or two elements remain.                                                 *)
PartsFit ==
    /\ Len(source) > 0 /\ (min > 0 => Len(results) > 0)
    /\ stage = "find" =>
          /\ rest > 0 /\ power > 0 /\ IsPower(power)
          /\ min + power * rest <= Len(source)
    /\ stage = "halve" =>
          /\ power > 0 /\ min + power <= Len(source)
          /\ IsPower(width) /\ width > 0
          /\ from + width <= Len(part)

(* Where the generator holds the sums that it has yet to add up: lanes of  *)
(* source, the results, and lanes of the part.                             *)
Pending ==
    IF stage = "done" THEN {}
    ELSE IF stage = "halve" THEN min + power + 1 .. Len(source)
    ELSE min + 1 .. Len(source)

PartLanes == IF stage = "halve" THEN from + 1 .. from + width ELSE {}

Kept == IF stage = "done" THEN {} ELSE DOMAIN results

(* Whatever has been cut, halved and added, every element of V is in one   *)
(* of these sums ...                                                       *)
NothingLost ==
    \A e \in Elements :
        \/ \E i \in Pending : e \in source[i]
        \/ \E i \in Kept : e \in results[i]
        \/ \E i \in PartLanes : e \in part[i]
        \/ stage = "done" /\ e \in total

(* ... and in no second one.                                               *)
NothingTwice ==
    /\ \A i, j \in Pending : i # j => source[i] \cap source[j] = {}
    /\ \A i, j \in Kept : i # j => results[i] \cap results[j] = {}
    /\ \A i, j \in PartLanes : i # j => part[i] \cap part[j] = {}
    /\ \A i \in Pending, j \in Kept : source[i] \cap results[j] = {}
    /\ \A i \in Pending, j \in PartLanes : source[i] \cap part[j] = {}
    /\ \A i \in Kept, j \in PartLanes : results[i] \cap part[j] = {}

Inductive == TypeOK /\ PartsFit /\ NothingLost /\ NothingTwice

(* V.sum "computes the sum of all elements in the vector"                  *)
(* (doc/language.wiki): each of them once, whatever the size.              *)
EachOnce == stage = "done" => total = Elements

(* The recursions of both functions end.                                   *)
Terminates == <>(stage = "done")
=============================================================================
