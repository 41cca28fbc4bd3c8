--------------------------- MODULE TypeRegistry ---------------------------
(***************************************************************************)
(* The types of one compiler (calculon_types.h): TypeRegistry creates a    *)
(* Type object the first time a name is asked for, and finds the object of *)
(* an LLVM type again when only a value is at hand.  The operators that    *)
(* depend on the answer, `==' and the arithmetic ones, are modelled by     *)
(* what they do with it (calculon_intrinsics.h, calculon_symbol.h).        *)
(***************************************************************************)
EXTENDS Integers, Sequences

CONSTANTS
    Requests,  \* type names that scripts, signatures and externals mention
    Alias,     \* the type aliases the caller of the compiler defines
    Lanes      \* size of the vector type of each name "vector", "vector*n"

Scalars  == {"real", "boolean", "!float", "!double"}
Known    == Scalars \cup DOMAIN Lanes
External == {"!float", "!double"}     \* only externals use these names

(* Aliases are looked up once.  "real" and "boolean", which the compiler   *)
(* itself asks for, are taken not to be redefined.                         *)
ASSUME AliasAssumption ==
    /\ \A n \in DOMAIN Alias : Alias[n] # n
    /\ DOMAIN Alias \cap {"real", "boolean"} = {}

ASSUME LanesAssumption ==
    /\ DOMAIN Lanes \cap Scalars = {}
    /\ \A n \in DOMAIN Lanes : Lanes[n] \in Nat \ {0}

Unaliased(n) == IF n \in DOMAIN Alias THEN Alias[n] ELSE n

(* The LLVM type of a Type: reals of every representation share the type   *)
(* Calculon computes with, and vectors are distinguished by size only.     *)
LLVM(n) ==
    IF n = "boolean" THEN [of |-> "i1", lanes |-> 0]
    ELSE IF n \in DOMAIN Lanes THEN [of |-> "fp", lanes |-> Lanes[n]]
    ELSE [of |-> "fp", lanes |-> 0]

LLVMTypes == {LLVM(n) : n \in Known}

VARIABLES
    objects,     \* the Type objects created, each by its name
    byname,      \* _byname: name -> object
    byllvm,      \* _byllvm: LLVM type -> object
    realType,    \* CompilerState::realType
    booleanType, \* CompilerState::booleanType
    operation    \* the last operator applied to values, and its outcome

vars == <<objects, byname, byllvm, realType, booleanType, operation>>

None == 0        \* a null Type*

LLVMOf(t) == LLVM(objects[t])
IsVector(t) == objects[t] \in DOMAIN Lanes

Equals(t, u) == LLVMOf(t) = LLVMOf(u)

Put(fcn, k, v) ==
    [x \in DOMAIN fcn \cup {k} |-> IF x = k THEN v ELSE fcn[x]]

NoOperation == [op |-> "none"]

Init ==
    /\ objects = <<>>
    /\ byname = [n \in {} |-> None]
    /\ byllvm = [l \in {} |-> None]
    /\ realType = None
    /\ booleanType = None
    /\ operation = NoOperation

(* addType() of a new object, which replaces the one that its LLVM type    *)
(* had.                                                                    *)
Create(n, t) ==
    /\ objects' = Append(objects, t)
    /\ byname' = Put(byname, n, Len(objects'))
    /\ byllvm' = Put(byllvm, LLVM(t), Len(objects'))

-----------------------------------------------------------------------------
(* Defects: lookups and conversions with a plausible bug, each of which    *)
(* violates one of the properties below.                                   *)

\* A name that is no type is taken for one.
FindAnything(n) ==
    LET t == Unaliased(n) IN
    IF t \in DOMAIN byname THEN UNCHANGED <<objects, byname, byllvm>>
    ELSE Create(t, t)

\* A name is not looked up before a type is created.
FindAfresh(n) ==
    LET t == Unaliased(n) IN
    IF t \notin Known THEN UNCHANGED <<objects, byname, byllvm>>
    ELSE Create(t, t)

\* A type is looked up and entered under its alias.
FindUnderAlias(n) ==
    LET t == Unaliased(n) IN
    IF n \in DOMAIN byname \/ t \notin Known
    THEN UNCHANGED <<objects, byname, byllvm>>
    ELSE Create(n, t)

\* A type is not entered by its LLVM type.
FindByNameOnly(n) ==
    LET t == Unaliased(n) IN
    IF t \in DOMAIN byname \/ t \notin Known
    THEN UNCHANGED <<objects, byname, byllvm>>
    ELSE /\ objects' = Append(objects, t)
         /\ byname' = Put(byname, t, Len(objects'))
         /\ UNCHANGED byllvm

\* A real is not turned into a vector.
RHSAsIs(t, u) == LLVMOf(u)

-----------------------------------------------------------------------------
(* find(name): the object of the name, created if it is the first request. *)
(* (A vector type asks for "real" itself, which exists by then.)           *)
Find(n) ==
    LET t == Unaliased(n) IN
    IF t \in DOMAIN byname \/ t \notin Known
    THEN UNCHANGED <<objects, byname, byllvm>>
    ELSE Create(t, t)

FindReal ==
    /\ realType = None
    /\ Find("real")
    /\ realType' = byname'["real"]
    /\ UNCHANGED <<booleanType, operation>>

FindBoolean ==
    /\ realType # None /\ booleanType = None
    /\ Find("boolean")
    /\ booleanType' = byname'["boolean"]
    /\ UNCHANGED <<realType, operation>>

Ready == realType # None /\ booleanType # None

FindNamed ==
    /\ Ready
    /\ \E n \in Requests : Find(n)
    /\ UNCHANGED <<realType, booleanType, operation>>

-----------------------------------------------------------------------------
(* Operators see values, which have LLVM types only: those of the types    *)
(* that have been asked for.                                               *)
ValueTypes == DOMAIN byllvm

EqualityOf(t) ==
    IF t = realType \/ t = booleanType \/ IsVector(t)
    THEN "compared" ELSE "aborted"

(* EQMethod and NEMethod of two values of one type.                        *)
Compare ==
    /\ Ready
    /\ \E l \in ValueTypes :
          operation' = [op |-> "==", outcome |-> EqualityOf(byllvm[l])]
    /\ UNCHANGED <<objects, byname, byllvm, realType, booleanType>>

(* BitcodeRealOrVectorArraySymbol: the left operand is real or a vector,   *)
(* the right one of the same vector type or real; convertRHS() turns a     *)
(* real that is combined with a vector into a vector.                      *)
Accepted(t, u) ==
    /\ Equals(t, realType) \/ IsVector(t)
    /\ \/ IsVector(t) /\ Equals(u, t)
       \/ Equals(u, realType)

ConvertRHS(t, u) ==
    IF IsVector(t) /\ u = realType THEN LLVMOf(t) ELSE LLVMOf(u)

Arithmetic ==
    /\ Ready
    /\ \E l, r \in ValueTypes :
          /\ Accepted(byllvm[l], byllvm[r])
          /\ operation' = [op |-> "+", lhs |-> l,
                           rhs |-> ConvertRHS(byllvm[l], byllvm[r])]
    /\ UNCHANGED <<objects, byname, byllvm, realType, booleanType>>

Next == FindReal \/ FindBoolean \/ FindNamed \/ Compare \/ Arithmetic

Spec == Init /\ [][Next]_vars

-----------------------------------------------------------------------------
Objects == DOMAIN objects

TypeOK ==
    /\ objects \in Seq(Known)
    /\ DOMAIN byname \subseteq Known
    /\ \A n \in DOMAIN byname : byname[n] \in Objects
    /\ DOMAIN byllvm \subseteq LLVMTypes
    /\ \A l \in DOMAIN byllvm : byllvm[l] \in Objects
    /\ realType \in Objects \cup {None}
    /\ booleanType \in Objects \cup {None}

(* find() of an LLVM type never fails its assertion for a type that        *)
(* was asked for, and the Type it answers equals() the one that was asked  *)
(* for, even if another object has taken its place.                        *)
ReverseLookupTotal ==
    \A n \in DOMAIN byname :
        /\ LLVMOf(byname[n]) \in DOMAIN byllvm
        /\ Equals(byllvm[LLVMOf(byname[n])], byname[n])

(* A name keeps its object: Type pointers held by symbols stay the ones    *)
(* that later lookups of the name answer, and no name has two objects.     *)
NamesKeepTypes ==
    [][\A n \in DOMAIN byname :
          n \in DOMAIN byname' /\ byname'[n] = byname[n]]_vars

OneObjectPerName ==
    \A t, u \in Objects : objects[t] = objects[u] => t = u

(* Until the type of an external function's float or double is looked up,  *)
(* the Type found for a real value is realType itself, as the operators    *)
(* that compare the two pointers take for granted: `==' is defined on      *)
(* every type and both operands of an addition have one LLVM type.         *)
OperatorsDefined ==
    DOMAIN byname \cap External = {} =>
        /\ operation.op = "==" => operation.outcome = "compared"
        /\ operation.op = "+" => operation.lhs = operation.rhs

(* doc/language.wiki on reals: "all the usual C-like operators", and on     *)
(* vectors: "if you pass a real as the second parameter, then that value   *)
(* is applied to all components".  Operators do so on every value that a   *)
(* script can have, whatever types have been looked up before.             *)
OperatorsAlwaysDefined ==
    /\ operation.op = "==" => operation.outcome = "compared"
    /\ operation.op = "+" => operation.lhs = operation.rhs
=============================================================================
