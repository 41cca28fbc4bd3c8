------------------------------- MODULE Calls -------------------------------
(***************************************************************************)
(* How a call is checked and emitted (calculon_symbol.h,                   *)
(* calculon_intrinsics.h): methods and operators, functions of the maths   *)
(* library, and external functions.  Calls nest: the parameters of a call  *)
(* are counted before its arguments are generated, and their types are     *)
(* checked afterwards, one by one.  The symbols belong to a table that     *)
(* several compilers use, one after the other; a compiler has a registry   *)
(* of types of its own, an instance of TypeRegistry.                       *)
(*                                                                         *)
(* An argument is the LLVM type of its value.                              *)
(***************************************************************************)
EXTENDS Integers, Sequences

CONSTANTS
    Lanes, Alias,   \* as in TypeRegistry
    ScriptTypes,    \* type names that scripts mention
    Used,           \* the methods and operators that scripts call
    Library,        \* number of parameters of each maths function
    Externals,      \* signature of each external function: names of types
    MaxCalls,       \* bound on the calls of all scripts
    MaxCompilers    \* bound on the compilers that use the table

Element == [x |-> 0, y |-> 1, z |-> 2, w |-> 3]
MinElements == [x |-> 1, y |-> 2, z |-> 3, w |-> 1]

Comparisons == {"<", "<=", ">", ">="}
Equalities  == {"==", "!="}
Arithmetics == {"+", "-", "*", "/"}
Accessors   == DOMAIN Element
OfVector    == {"length", "sum"} \cup Accessors
Methods     == {"not", "[]"} \cup Comparisons \cup Equalities
                  \cup Arithmetics \cup OfVector

Callable == Used \cup DOMAIN Library \cup DOMAIN Externals

(* The names of the types in the signature of an external function.        *)
Signed(f) ==
    LET s == Externals[f] IN {s.returns} \cup {s.takes[i] : i \in DOMAIN s.takes}

Requests == ScriptTypes \cup UNION {Signed(f) : f \in DOMAIN Externals}

ASSUME CallableAssumption ==
    /\ Used \subseteq Methods
    /\ \A f \in DOMAIN Library : Library[f] \in Nat \ {0}
    /\ \A f \in DOMAIN Externals : Externals[f].takes \in Seq(STRING)
    /\ Methods \cap DOMAIN Library = {} /\ Methods \cap DOMAIN Externals = {}
    /\ DOMAIN Library \cap DOMAIN Externals = {}

ASSUME BoundsAssumption == MaxCalls \in Nat /\ MaxCompilers \in Nat \ {0}

(* Those of TypeRegistry that matter here.                                 *)
ASSUME AliasAssumption == DOMAIN Alias \cap {"real", "boolean"} = {}

ASSUME LanesAssumption ==
    /\ DOMAIN Lanes \cap {"real", "boolean", "!float", "!double"} = {}
    /\ \A n \in DOMAIN Lanes : Lanes[n] \in Nat \ {0}

VARIABLES
    objects, byname, byllvm, realType, booleanType,  \* the registry
    operation,   \* the last operator applied to values, and its outcome
    compiler,    \* how many compilers have used the table so far
    started,     \* how many calls scripts have come to so far
    calls,       \* the calls begun, the innermost last
    stage,       \* what the compiler is doing
    index,       \* the parameter whose type is checked next
    first,       \* _firsttype, firsttype of each operator symbol
    position,    \* CompilerState::position: the call that errors name
    last         \* what became of the last call

registry == <<objects, byname, byllvm, realType, booleanType, operation>>
vars == <<registry, compiler, started, calls, stage, index, first, position,
          last>>

Registry == INSTANCE TypeRegistry WITH operation <- operation

Real    == Registry!LLVM("real")
Boolean == Registry!LLVM("boolean")

TypeOfValue(l) == byllvm[l]
IsVector(l) == Registry!IsVector(TypeOfValue(l))
IsReal(l)   == Registry!Equals(TypeOfValue(l), realType)

(* The LLVM type of the type of a name in a signature.                     *)
Named(n) == Registry!LLVM(Registry!Unaliased(n))

Top == calls[Len(calls)]
Below == SubSeq(calls, 1, Len(calls) - 1)

(* A call with one more argument.                                          *)
With(c, l) ==
    [fn |-> c.fn, count |-> c.count, args |-> Append(c.args, l), at |-> c.at]

InExternal == Top.fn \in DOMAIN Externals
Declared == Externals[Top.fn]

NoCall == [how |-> "none"]
Unset  == [by |-> 0, type |-> Real]

Init ==
    /\ Registry!Init
    /\ compiler = 1 /\ started = 0
    /\ calls = <<>> /\ stage = "script" /\ index = 1
    /\ first = [f \in Used \cap (Equalities \cup Arithmetics) |-> Unset]
    /\ position = 0
    /\ last = NoCall
-----------------------------------------------------------------------------
(* The compiler is built, and scripts mention types.                       *)
Construct ==
    /\ Registry!FindReal \/ Registry!FindBoolean
    /\ UNCHANGED <<compiler, started, calls, stage, index, first, position, last>>

Mention ==
    /\ stage = "script" /\ Registry!Ready
    /\ \E n \in ScriptTypes : Registry!Find(n)
    /\ UNCHANGED <<realType, booleanType, operation, compiler, started, calls,
                   stage, index, first, position, last>>

(* What becomes of the innermost call.  After an exception or a failed     *)
(* assertion the compiler is done; ill-typed instructions are taken to end *)
(* it too.                                                                 *)
Call(how, result) ==
    [how |-> how, fn |-> Top.fn, args |-> Top.args, result |-> result,
     named |-> position, at |-> Top.at]

Fail(how) ==
    /\ stage' = IF how = "unknown" THEN "thrown" ELSE how
    /\ last' = Call(how, Boolean)
    /\ calls' = <<>> /\ index' = 1

(* Whether the type a signature names exists: if not, lookup_type() throws *)
(* an exception that names no position.                                    *)
Exists(n) == Registry!Unaliased(n) \in Registry!Known

-----------------------------------------------------------------------------
(* Defects: definitions with a plausible bug, each of which violates one   *)
(* of the properties below.                                                *)

\* The symbol keeps the type of the first argument it ever saw.
RememberOnce(f, l) ==
    IF f \in DOMAIN first /\ first[f] = Unset
    THEN [first EXCEPT ![f] = [by |-> compiler, type |-> l]]
    ELSE first

\* Every class checks the first parameter only.
WrongFirstType(f, i, l) ==
    /\ i = 1
    /\ \/ f = "not" /\ ~ Registry!Equals(TypeOfValue(l), booleanType)
       \/ f \in OfVector \cup {"[]"} /\ ~ IsVector(l)
       \/ f \in DOMAIN Externals /\ l # Named(Externals[f].takes[i])
       \/ f \in Comparisons \cup Equalities \cup Arithmetics /\ ~ IsReal(l)

\* The second operand of an arithmetic operator must have the type of the
\* first.
WrongUnlessSame(f, i, l) ==
    \/ f = "not" /\ ~ Registry!Equals(TypeOfValue(l), booleanType)
    \/ f \in Comparisons /\ l # Registry!LLVMOf(realType)
    \/ f \in Equalities \cup Arithmetics /\ i > 1 /\ l # first[f].type
    \/ f \in Arithmetics /\ i = 1 /\ ~ IsReal(l) /\ ~ IsVector(l)
    \/ f \in OfVector /\ ~ IsVector(l)
    \/ f = "[]" /\ ~ IF i = 1 THEN IsVector(l) ELSE IsReal(l)
    \/ f \in DOMAIN Externals /\ l # Named(Externals[f].takes[i])

\* The position is not set again when a call's arguments are generated.
EmitAtOldPosition ==
    /\ stage = "script" /\ calls # <<>>
    /\ Len(Top.args) = Top.count
    /\ IF InExternal THEN Registry!Find(Declared.returns)
       ELSE UNCHANGED <<objects, byname, byllvm>>
    /\ IF InExternal => Exists(Declared.returns)
       THEN stage' = "check" /\ UNCHANGED <<calls, index, last>>
       ELSE Fail("unknown")
    /\ UNCHANGED <<realType, booleanType, operation, compiler, started, first,
                   position>>

\* Accessors trust the vector to be big enough.
BigEnough(f, a) ==
    \/ f \in Accessors /\ a[1].lanes > 4
    \/ f = "[]" /\ Len(a) = 3 /\ ~ \E r \in 1..a[1].lanes : r * r = a[1].lanes

\* The map of LLVM types survives the compiler whose types it leads to.
NextKeepsTypes ==
    /\ stage = "thrown" \/ (stage = "script" /\ calls = <<>> /\ started > 0)
    /\ compiler < MaxCompilers
    /\ compiler' = compiler + 1
    /\ objects' = <<>>
    /\ byname' = [n \in {} |-> Registry!None]
    /\ realType' = Registry!None /\ booleanType' = Registry!None
    /\ operation' = Registry!NoOperation
    /\ calls' = <<>> /\ stage' = "script" /\ index' = 1
    /\ position' = 0 /\ last' = NoCall
    /\ UNCHANGED <<byllvm, started, first>>

-----------------------------------------------------------------------------
(* checkParameterCount(), before the arguments are generated.              *)
Accepts(f, n) ==
    \/ f \in {"not", "-"} \cup OfVector /\ n = 1
    \/ f \in {"[]"} \cup Comparisons \cup Equalities \cup Arithmetics /\ n = 2
    \/ f = "[]" /\ n = 3
    \/ f \in DOMAIN Library /\ n = Library[f]
    \/ f \in DOMAIN Externals /\ n = Len(Externals[f].takes)

Begin(f, n) ==
    /\ stage = "script" /\ Registry!Ready
    /\ started < MaxCalls
    /\ calls # <<>> => Len(Top.args) < Top.count
    /\ started' = started + 1
    /\ IF Accepts(f, n)
       THEN /\ calls' = Append(calls, [fn |-> f, count |-> n, args |-> <<>>,
                                       at |-> started'])
            /\ last' = NoCall
            /\ UNCHANGED stage
       ELSE /\ calls' = <<>>
            /\ stage' = "thrown"
            /\ last' = [how |-> "miscounted", fn |-> f, count |-> n,
                        named |-> position, at |-> started']
    /\ UNCHANGED <<registry, compiler, index, first, position>>

(* An argument that is no call: a constant, a variable, a vector.          *)
Argument(l) ==
    /\ stage = "script" /\ calls # <<>>
    /\ Len(Top.args) < Top.count
    /\ calls' = Append(Below, With(Top, l))
    /\ UNCHANGED <<registry, compiler, started, stage, index, first, position,
                   last>>

(* All arguments are there: emitCall().  An external function looks its    *)
(* return type up.                                                         *)
Emit ==
    /\ stage = "script" /\ calls # <<>>
    /\ Len(Top.args) = Top.count
    /\ position' = Top.at
    /\ IF InExternal THEN Registry!Find(Declared.returns)
       ELSE UNCHANGED <<objects, byname, byllvm>>
    /\ IF InExternal => Exists(Declared.returns)
       THEN stage' = "check" /\ UNCHANGED <<calls, index, last>>
       ELSE Fail("unknown")
    /\ UNCHANGED <<realType, booleanType, operation, compiler, started, first>>

-----------------------------------------------------------------------------
(* typeCheckParameter() of each class of symbols, for an argument of LLVM  *)
(* type l as parameter i of f; that of maths functions is never called.    *)
WrongType(f, i, l) ==
    \/ f = "not" /\ ~ Registry!Equals(TypeOfValue(l), booleanType)
    \/ f \in Comparisons /\ l # Registry!LLVMOf(realType)
    \/ f \in Equalities /\ i > 1 /\ l # first[f].type
    \/ f \in Arithmetics /\ i = 1 /\ ~ IsReal(l) /\ ~ IsVector(l)
    \/ /\ f \in Arithmetics /\ i > 1 /\ ~ IsReal(l)
       /\ first[f].type.lanes > 0 => l # first[f].type
    \/ f \in OfVector /\ ~ IsVector(l)
    \/ f = "[]" /\ ~ IF i = 1 THEN IsVector(l) ELSE IsReal(l)
    \/ f \in DOMAIN Externals /\ l # Named(Externals[f].takes[i])

(* The error names a type; that of [] is null, which typeError() asserts   *)
(* not to be the case.                                                     *)
TypeError == IF Top.fn = "[]" THEN Fail("aborted") ELSE Fail("thrown")

RememberFirst(f, l) ==
    IF f \in DOMAIN first /\ index = 1
    THEN [first EXCEPT ![f] = [by |-> compiler, type |-> l]]
    ELSE first

CheckParameter ==
    /\ stage = "check" /\ index <= Len(Top.args)
    /\ IF InExternal THEN Registry!Find(Declared.takes[index])
       ELSE UNCHANGED <<objects, byname, byllvm>>
    /\ first' = RememberFirst(Top.fn, Top.args[index])
    /\ IF InExternal /\ ~ Exists(Declared.takes[index])
       THEN Fail("unknown")
       ELSE IF WrongType(Top.fn, index, Top.args[index])
       THEN TypeError
       ELSE index' = index + 1 /\ UNCHANGED <<calls, stage, last>>
    /\ UNCHANGED <<realType, booleanType, operation, compiler, started, position>>

-----------------------------------------------------------------------------
(* emitBitcode() and the ends of the emitCall()s: how the innermost call   *)
(* fails, if it does, and the type of its value.                           *)
Square(n) == \E r \in 1..n : r * r = n

WrongSize(f, a) ==
    \/ f \in Accessors /\ (a[1].lanes < MinElements[f] \/ a[1].lanes > 4)
    \/ f = "[]" /\ Len(a) = 3 /\ ~ Square(a[1].lanes)

Asserts(f, a) ==
    \/ f \in Equalities /\ Registry!EqualityOf(TypeOfValue(a[1])) # "compared"
    \/ f \in Accessors /\ Element[f] >= a[1].lanes

IllTyped(f, a) ==
    /\ f \in Arithmetics /\ Len(a) = 2
    /\ Registry!ConvertRHS(TypeOfValue(a[1]), TypeOfValue(a[2])) # a[1]

(* A vector is returned through a pointer that is passed last, but loaded  *)
(* from the first value that was passed, which may be no pointer.          *)
FromArgument(f, a) ==
    f \in DOMAIN Externals /\ a # <<>> /\ Named(Externals[f].returns).lanes > 0

Outcome(f, a) ==
    IF WrongSize(f, a) THEN "thrown"
    ELSE IF Asserts(f, a) THEN "aborted"
    ELSE IF IllTyped(f, a) THEN "malformed"
    ELSE IF ~ FromArgument(f, a) THEN "emitted"
    ELSE IF a[1].lanes > 0 THEN "misloaded" ELSE "malformed"

Value(f, a) ==
    IF f \in Arithmetics \cup DOMAIN Library THEN a[1]
    ELSE IF f \in DOMAIN Externals THEN Named(Externals[f].returns)
    ELSE IF f \in OfVector \cup {"[]"} THEN Real
    ELSE Boolean

Operation(f, a) ==
    IF f \in Equalities
    THEN [op |-> "==", outcome |-> Registry!EqualityOf(TypeOfValue(a[1]))]
    ELSE IF f \in Arithmetics /\ Len(a) = 2
    THEN [op |-> "+", lhs |-> a[1],
          rhs |-> Registry!ConvertRHS(TypeOfValue(a[1]), TypeOfValue(a[2]))]
    ELSE operation

(* The value is an argument of the call around it, if there is one.        *)
Give(l) ==
    calls' = IF Len(calls) = 1 THEN <<>>
             ELSE Append(SubSeq(calls, 1, Len(calls) - 2),
                         With(calls[Len(calls) - 1], l))

Complete ==
    /\ stage = "check" /\ index > Len(Top.args)
    /\ operation' = Operation(Top.fn, Top.args)
    /\ LET how == Outcome(Top.fn, Top.args)
           value == Value(Top.fn, Top.args) IN
       IF how \in {"emitted", "misloaded"}
       THEN /\ Give(value)
            /\ last' = Call(how, value)
            /\ stage' = "script" /\ index' = 1
       ELSE Fail(how)
    /\ UNCHANGED <<objects, byname, byllvm, realType, booleanType, compiler,
                   started, first, position>>

(* Another compiler uses the table, when this one has compiled its script  *)
(* or thrown.  All it owns is deleted.                                     *)
NextCompiler ==
    /\ stage = "thrown" \/ (stage = "script" /\ calls = <<>> /\ started > 0)
    /\ compiler < MaxCompilers
    /\ compiler' = compiler + 1
    /\ objects' = <<>>
    /\ byname' = [n \in {} |-> Registry!None]
    /\ byllvm' = [l \in {} |-> Registry!None]
    /\ realType' = Registry!None /\ booleanType' = Registry!None
    /\ operation' = Registry!NoOperation
    /\ calls' = <<>> /\ stage' = "script" /\ index' = 1
    /\ position' = 0 /\ last' = NoCall
    /\ UNCHANGED <<started, first>>

Next ==
    \/ Construct \/ Mention
    \/ \E f \in Callable, n \in 0..3 : Begin(f, n)
    \/ \E l \in Registry!ValueTypes : Argument(l)
    \/ Emit \/ CheckParameter \/ Complete
    \/ NextCompiler

Spec == Init /\ [][Next]_vars

-----------------------------------------------------------------------------
CallRecords ==
    {c \in [fn : Callable, count : 0..3, args : UNION {[1..n -> Registry!LLVMTypes] : n \in 0..3},
            at : 1..MaxCalls] : Len(c.args) <= c.count}

TypeOK ==
    /\ Registry!TypeOK
    /\ compiler \in 1..MaxCompilers /\ started \in 0..MaxCalls
    /\ \A i \in DOMAIN calls : calls[i] \in CallRecords
    /\ stage \in {"script", "check", "thrown", "aborted", "malformed"}
    /\ stage = "check" => calls # <<>> /\ index \in 1..Len(Top.args) + 1
    /\ \A f \in DOMAIN first :
          first[f].by \in 0..compiler /\ first[f].type \in Registry!LLVMTypes
    /\ position \in 0..started

(* A registry is created for each compiler, and whatever calls do with it  *)
(* and with values is what TypeRegistry says a compiler may do: what is    *)
(* proved of TypeRegistry holds of calls.                                  *)
Registries ==
    /\ Registry!Init
    /\ [][Registry!Next \/ Registry!Init']_registry

(* The type that an operator keeps in its symbol, which other calls and    *)
(* other compilers share, is that of the first argument of this very call  *)
(* whenever it is read.                                                    *)
FirstIsOfThisCall ==
    stage = "check" /\ index > 1 /\ Top.fn \in DOMAIN first
        => first[Top.fn] = [by |-> compiler, type |-> Top.args[1]]

(* What doc/language.wiki and doc/usage.wiki say of the arguments of a     *)
(* call, as LLVM types, and of the type of its value.                      *)
Vector(l) == l.of = "fp" /\ l.lanes > 0

Documented(f, a) ==
    \/ f = "not" /\ a = <<Boolean>>
    \/ f \in Comparisons /\ a = <<Real, Real>>
    \/ f \in Equalities /\ Len(a) = 2 /\ a[1] = a[2]
    \/ /\ f \in Arithmetics
       /\ \/ Len(a) = 2 /\ a[2] \in {a[1], Real}
          \/ Len(a) = 1 /\ f = "-"
       /\ a[1] = Real \/ Vector(a[1])
    \/ f \in {"length", "sum"} /\ Len(a) = 1 /\ Vector(a[1])
    \/ f \in Accessors /\ Len(a) = 1 /\ Vector(a[1]) /\ a[1].lanes > Element[f]
    \/ /\ f = "[]"
       /\ Len(a) = 2 \/ (Len(a) = 3 /\ Square(a[1].lanes))
       /\ Vector(a[1]) /\ \A i \in 2..Len(a) : a[i] = Real
    \/ f \in DOMAIN Library /\ a = [i \in 1..Library[f] |-> Real]
    \/ /\ f \in DOMAIN Externals /\ \A n \in Signed(f) : Exists(n)
       /\ a = [i \in DOMAIN Externals[f].takes |-> Named(Externals[f].takes[i])]

DocumentedValue(f, a) ==
    IF f \in {"not"} \cup Comparisons \cup Equalities THEN Boolean
    ELSE IF f \in Arithmetics THEN a[1]
    ELSE IF f \in DOMAIN Externals THEN Named(Externals[f].returns)
    ELSE Real

(* What the documents say and the code does not do: CallsAsDocumented is   *)
(* false of these calls, and of operators when a signature names !float or *)
(* !double.  The invariants after it say what happens to them, and that    *)
(* all other calls are treated as documented.                              *)
Oversized(f, a) == f \in Accessors /\ Vector(a[1]) /\ a[1].lanes > 4

Unchecked(f, a) == f \in DOMAIN Library /\ ~ Documented(f, a)

Broken(f, a) ==
    \/ f = "[]" /\ ~ (Vector(a[1]) /\ \A i \in 2..Len(a) : a[i] = Real)
    \/ f = "w" /\ Vector(a[1]) /\ a[1].lanes < 4
    \/ /\ f \in DOMAIN Externals /\ a # <<>> /\ Documented(f, a)
       /\ Vector(DocumentedValue(f, a))

(* doc/language.wiki: .x to .w "extract the first four elements from a     *)
(* vector", "assuming the vector has enough elements", and "an out of      *)
(* bound access is a compile time error"; "functions are not polymorphic"  *)
(* and the maths library behaves "exactly like" its Posix namesakes, which *)
(* take and return reals.  doc/usage.wiki: "if compiling a                 *)
(* script fails, an exception is thrown"; vectors "are returned by pointer *)
(* via an extra parameter which appears last".  So a call is emitted, with *)
(* the value documented, if its arguments are those documented, and else   *)
(* it is refused with an exception.                                        *)
CallsAsDocumented ==
    \/ last.how \in {"none", "miscounted"}
    \/ IF Documented(last.fn, last.args)
       THEN /\ last.how = "emitted"
            /\ last.result = DocumentedValue(last.fn, last.args)
       ELSE last.how \in {"thrown", "unknown"}

(* A call that is emitted has the arguments and the value that the         *)
(* documentation gives it.  Only those of the maths library are not        *)
(* checked: SimpleRealExternal::typeCheckParameter() takes a char and so   *)
(* overrides nothing.  No call of the three other kinds is ever emitted.   *)
EmittedAsDocumented ==
    last.how = "emitted" =>
        \/ /\ Documented(last.fn, last.args)
           /\ last.result = DocumentedValue(last.fn, last.args)
           /\ ~ Oversized(last.fn, last.args) /\ ~ Broken(last.fn, last.args)
        \/ Unchecked(last.fn, last.args)

(* A call is refused with an exception only if the documentation does not  *)
(* allow it, except that accessors are refused on vectors of more than     *)
(* four elements; and for the number of its arguments only if no arguments *)
(* of that number are documented.                                          *)
RejectedOnlyIfWrong ==
    /\ last.how \in {"thrown", "unknown"} =>
          \/ Oversized(last.fn, last.args)
          \/ /\ ~ Documented(last.fn, last.args)
             /\ ~ Unchecked(last.fn, last.args) /\ ~ Broken(last.fn, last.args)
    /\ last.how = "miscounted" =>
          \A a \in [1..last.count -> Registry!LLVMTypes] :
              ~ Documented(last.fn, a)

(* Without an exception a call fails in these ways only: [] of wrong       *)
(* types, .w of a vector of fewer than four elements, a vector that is     *)
(* returned to a call with arguments, and an operator that finds the type  *)
(* of an external function in place of realType.                           *)
KnownFailures ==
    last.how \in {"aborted", "malformed", "misloaded"} =>
        \/ Broken(last.fn, last.args)
        \/ /\ last.fn \in Equalities \cup Arithmetics
           /\ Real \in {last.args[1], last.args[2]}
           /\ DOMAIN byname \cap Registry!External # {}

(* Nothing else fails, and no variable leaves its type.                    *)
FailsOnlyAsKnown == TypeOK /\ KnownFailures

(* A type error names the call it is about, although the calls in its      *)
(* arguments have set the position before.                                 *)
ErrorsNameTheCall == last.how = "thrown" => last.named = last.at
=============================================================================
