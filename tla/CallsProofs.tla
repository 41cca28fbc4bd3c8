---------------------------- MODULE CallsProofs ----------------------------
(***************************************************************************)
(* Theorems about Calls: what operators keep in their symbols, which call  *)
(* an error names, that calls use a registry of types only as TypeRegistry *)
(* says, and which calls are emitted, rejected or fail.                    *)
(***************************************************************************)
EXTENDS Calls, AnySequence, TLAPS

(* Between calls no parameter is being checked, and during the checks of a *)
(* call the position is its own, whatever its arguments were.              *)
Checking ==
    /\ index \in Nat \ {0}
    /\ stage # "check" => index = 1
    /\ stage = "check" => position = Top.at

Remembering == Checking /\ FirstIsOfThisCall /\ ErrorsNameTheCall

-----------------------------------------------------------------------------
LEMMA InitRemembers == Init => Remembering
BY DEF Init, Remembering, Checking, FirstIsOfThisCall, ErrorsNameTheCall, NoCall

(* A call that fails has the position that is set when its checks begin.   *)
LEMMA FailRemembers ==
    ASSUME NEW how, Fail(how), how # "check",
           how = "unknown" \/ position = Top.at
    PROVE  Remembering'
<1>1. stage' # "check" /\ index' = 1
  BY DEF Fail
<1>2. ErrorsNameTheCall'
  BY DEF Fail, Call, ErrorsNameTheCall
<1> QED  BY <1>1, <1>2 DEF Remembering, Checking, FirstIsOfThisCall

LEMMA StepRemembers == Remembering /\ [Next]_vars => Remembering'
<1> SUFFICES ASSUME Remembering, [Next]_vars PROVE Remembering'
  OBVIOUS
<1> USE DEF Remembering, Checking
<1>1. CASE Construct \/ Mention
  BY <1>1 DEF Construct, Mention, Top, FirstIsOfThisCall, ErrorsNameTheCall
<1>2. ASSUME NEW f \in Callable, NEW n \in 0..3, Begin(f, n) PROVE Remembering'
  <2>1. stage = "script" /\ stage' # "check" /\ index' = index
    BY <1>2 DEF Begin
  <2>2. ErrorsNameTheCall'
    BY <1>2 DEF Begin, ErrorsNameTheCall, NoCall
  <2> QED  BY <2>1, <2>2 DEF FirstIsOfThisCall
<1>3. ASSUME NEW l \in Registry!ValueTypes, Argument(l) PROVE Remembering'
  BY <1>3 DEF Argument, FirstIsOfThisCall, ErrorsNameTheCall
<1>4. CASE Emit
  <2>1. stage = "script" /\ index = 1 /\ position' = Top.at
    BY <1>4 DEF Emit
  <2>2. CASE Fail("unknown")
    BY <2>2, FailRemembers
  <2>3. CASE stage' = "check" /\ UNCHANGED <<calls, index, last>>
    <3>1. position' = Top'.at  BY <2>1, <2>3 DEF Top
    <3>2. index' = 1  BY <2>1, <2>3
    <3> QED  BY <2>3, <3>1, <3>2 DEF FirstIsOfThisCall, ErrorsNameTheCall
  <2> QED  BY <1>4, <2>2, <2>3 DEF Emit
<1>5. CASE CheckParameter
  <2>1. stage = "check" /\ position = Top.at
        /\ UNCHANGED <<compiler, position>>
        /\ first' = RememberFirst(Top.fn, Top.args[index])
    BY <1>5 DEF CheckParameter
  <2>2. CASE \E how \in {"unknown", "aborted", "thrown"} : Fail(how)
    BY <2>1, <2>2, FailRemembers
  <2>3. CASE index' = index + 1 /\ UNCHANGED <<calls, stage, last>>
    <3>1. Top' = Top  BY <2>3 DEF Top
    <3>2. ASSUME Top.fn \in DOMAIN first'
          PROVE  first'[Top.fn] = [by |-> compiler, type |-> Top.args[1]]
      <4>1. Top.fn \in DOMAIN first
        BY <2>1, <3>2 DEF RememberFirst
      <4>2. CASE index = 1
        BY <2>1, <4>1, <4>2 DEF RememberFirst
      <4>3. CASE index # 1
        BY <2>1, <4>1, <4>3 DEF RememberFirst, FirstIsOfThisCall
      <4> QED  BY <4>2, <4>3
    <3> QED  BY <2>1, <2>3, <3>1, <3>2 DEF FirstIsOfThisCall, ErrorsNameTheCall
  <2> QED  BY <1>5, <2>2, <2>3 DEF CheckParameter, TypeError
<1>6. CASE Complete
  <2>1. stage = "check" /\ position = Top.at
    BY <1>6 DEF Complete
  <2> DEFINE how == Outcome(Top.fn, Top.args)
  <2>2. CASE /\ how \in {"emitted", "misloaded"}
             /\ last' = Call(how, Value(Top.fn, Top.args))
             /\ stage' = "script" /\ index' = 1
    BY <2>2 DEF FirstIsOfThisCall, ErrorsNameTheCall, Call
  <2>3. CASE Fail(how)
    <3>1. how # "check"  BY DEF Outcome
    <3> QED  BY <2>1, <2>3, <3>1, FailRemembers
  <2> QED  BY <1>6, <2>2, <2>3 DEF Complete
<1>7. CASE NextCompiler
  BY <1>7 DEF NextCompiler, FirstIsOfThisCall, ErrorsNameTheCall, NoCall
<1>8. CASE UNCHANGED vars
  BY <1>8 DEF vars, Top, FirstIsOfThisCall, ErrorsNameTheCall
<1> QED  BY <1>1, <1>2, <1>3, <1>4, <1>5, <1>6, <1>7, <1>8 DEF Next

-----------------------------------------------------------------------------
(* What an operator remembers of its first argument is of this call, not   *)
(* of one nested in its arguments, nor of a compiler that is gone.         *)
THEOREM OperatorsForget == Spec => []FirstIsOfThisCall
<1>1. Remembering => FirstIsOfThisCall
  BY DEF Remembering
<1> QED  BY <1>1, InitRemembers, StepRemembers, PTL DEF Spec

(* An error about a type names the call it is about.                       *)
THEOREM PositionOfErrors == Spec => []ErrorsNameTheCall
<1>1. Remembering => ErrorsNameTheCall
  BY DEF Remembering
<1> QED  BY <1>1, InitRemembers, StepRemembers, PTL DEF Spec

-----------------------------------------------------------------------------
(* The registry, as far as calls rely on it: an LLVM type leads to a Type  *)
(* that has it, and that of a type that was asked for is always found.     *)
TypesFound ==
    /\ IsSeq(objects)
    /\ \A l \in DOMAIN byllvm :
          byllvm[l] \in 1 .. Len(objects) /\ Registry!LLVM(objects[byllvm[l]]) = l
    /\ \A n \in DOMAIN byname : Registry!LLVM(n) \in DOMAIN byllvm
    /\ realType # Registry!None => "real" \in DOMAIN byname
    /\ booleanType # Registry!None => "boolean" \in DOMAIN byname

(* Arguments are values, and a call begins with the right number of them.  *)
CallOK(c, values) ==
    /\ c.fn \in Callable /\ Accepts(c.fn, c.count)
    /\ IsSeq(c.args)
    /\ \A i \in 1 .. Len(c.args) : c.args[i] \in values

CallsSound ==
    /\ IsSeq(calls)
    /\ \A i \in 1 .. Len(calls) : CallOK(calls[i], Registry!ValueTypes)
    /\ calls # <<>> => Registry!Ready
    /\ DOMAIN first = Used \cap (Equalities \cup Arithmetics)
    /\ stage = "check" =>
          /\ calls # <<>> /\ Len(Top.args) = Top.count
          /\ InExternal => Named(Declared.returns) \in DOMAIN byllvm

(* An arithmetic operator accepts the operands that have been checked.     *)
OperandsAccepted ==
    stage = "check" /\ Top.fn \in Arithmetics =>
        /\ index > 1 => IsReal(Top.args[1]) \/ IsVector(Top.args[1])
        /\ index > 2 => Registry!Accepted(TypeOfValue(Top.args[1]),
                                         TypeOfValue(Top.args[2]))

Sound == Remembering /\ TypesFound /\ CallsSound /\ OperandsAccepted

-----------------------------------------------------------------------------
(* The kinds of callables do not overlap.                                  *)
LEMMA Kinds ==
    /\ \A f \in Methods : f \notin DOMAIN Library /\ f \notin DOMAIN Externals
    /\ Equalities \cup Arithmetics \subseteq Methods
    /\ \A f \in Callable : f \in Methods => f \in Used
    /\ \A f \in DOMAIN Library : f \notin DOMAIN Externals
BY CallableAssumption DEF Callable, Methods

(* How many arguments operators have.                                      *)
LEMMA OperatorCounts ==
    ASSUME NEW f, NEW n, Accepts(f, n)
    PROVE  /\ f \in Equalities => n = 2
           /\ f \in Arithmetics => n \in {1, 2}
           /\ f \in DOMAIN Library => n \in Nat \ {0}
<1>1. ASSUME f \in DOMAIN Library PROVE n \in Nat \ {0}
  <2>1. f \notin Methods /\ f \notin DOMAIN Externals
    BY <1>1, Kinds
  <2>2. n = Library[f]
    BY <2>1 DEF Accepts, Methods, Arithmetics
  <2> QED  BY <1>1, <2>2, CallableAssumption
<1>2. ASSUME f \in Equalities \cup Arithmetics
      PROVE  (f \in Equalities => n = 2) /\ (f \in Arithmetics => n \in {1, 2})
  <2>1. f \notin DOMAIN Library /\ f \notin DOMAIN Externals
    BY <1>2, Kinds
  <2>2. f \notin OfVector \cup {"not", "[]"}
    BY <1>2 DEF Equalities, Arithmetics, OfVector, Accessors, Element
  <2>3. f \in Equalities => f # "-"
    BY DEF Equalities
  <2> QED  BY <2>1, <2>2, <2>3 DEF Accepts
<1> QED  BY <1>1, <1>2

(* find() of a name.                                                       *)
LEMMA FindSound ==
    ASSUME TypesFound, NEW m, Registry!Find(m)
    PROVE  /\ IsSeq(objects')
           /\ \A l \in DOMAIN byllvm' :
                 byllvm'[l] \in 1 .. Len(objects')
                 /\ Registry!LLVM(objects'[byllvm'[l]]) = l
           /\ \A n \in DOMAIN byname' : Registry!LLVM(n) \in DOMAIN byllvm'
           /\ DOMAIN byname \subseteq DOMAIN byname'
           /\ DOMAIN byllvm \subseteq DOMAIN byllvm'
           /\ Exists(m) => Registry!Unaliased(m) \in DOMAIN byname'
<1> DEFINE t == Registry!Unaliased(m)
<1>1. CASE t \in DOMAIN byname \/ t \notin Registry!Known
  BY <1>1 DEF Registry!Find, TypesFound, Exists
<1>2. CASE t \notin DOMAIN byname /\ t \in Registry!Known
  <2> DEFINE new == Len(objects')
  <2>1. /\ objects' = Append(objects, t)
        /\ byname' = Registry!Put(byname, t, new)
        /\ byllvm' = Registry!Put(byllvm, Registry!LLVM(t), new)
    BY <1>2 DEF Registry!Find, Registry!Create
  <2>2. /\ IsSeq(objects') /\ new = Len(objects) + 1
        /\ \A i \in 1 .. Len(objects) : objects'[i] = objects[i]
        /\ objects'[new] = t
    BY <2>1, AppendSeq DEF TypesFound
  <2>3. Len(objects) \in Nat
    BY SeqLength DEF TypesFound
  <2> HIDE DEF t, new
  <2>4. /\ DOMAIN byname' = DOMAIN byname \cup {t}
        /\ DOMAIN byllvm' = DOMAIN byllvm \cup {Registry!LLVM(t)}
        /\ byllvm'[Registry!LLVM(t)] = new
        /\ \A l \in DOMAIN byllvm : l # Registry!LLVM(t) => byllvm'[l] = byllvm[l]
    BY <2>1 DEF Registry!Put
  <2>5. ASSUME NEW l \in DOMAIN byllvm'
        PROVE  byllvm'[l] \in 1 .. new /\ Registry!LLVM(objects'[byllvm'[l]]) = l
    <3>1. CASE l = Registry!LLVM(t)
      BY <2>2, <2>3, <2>4, <3>1
    <3>2. CASE l # Registry!LLVM(t)
      <4>1. l \in DOMAIN byllvm /\ byllvm'[l] = byllvm[l]
        BY <2>4, <3>2
      <4>2. byllvm[l] \in 1 .. Len(objects) /\ Registry!LLVM(objects[byllvm[l]]) = l
        BY <4>1 DEF TypesFound
      <4> QED  BY <2>2, <2>3, <4>1, <4>2
    <3> QED  BY <3>1, <3>2
  <2>6. \A n \in DOMAIN byname' : Registry!LLVM(n) \in DOMAIN byllvm'
    BY <2>4 DEF TypesFound
  <2>7. t \in DOMAIN byname'
    BY <2>4
  <2> QED  BY <2>2, <2>4, <2>5, <2>6, <2>7 DEF t, new
<1> QED  BY <1>1, <1>2

LEMMA FindKeepsTypes ==
    ASSUME TypesFound, NEW m, Registry!Find(m), UNCHANGED <<realType, booleanType>>
    PROVE  TypesFound'
BY FindSound DEF TypesFound

(* Calls stay as they are when more types are known.                       *)
LEMMA CallsKeep ==
    ASSUME CallsSound, DOMAIN byllvm \subseteq DOMAIN byllvm',
           UNCHANGED <<calls, realType, booleanType>>
    PROVE  /\ IsSeq(calls')
           /\ \A i \in 1 .. Len(calls) : CallOK(calls[i], DOMAIN byllvm')
           /\ calls # <<>> => Registry!Ready'
<1>1. calls # <<>> => Registry!Ready'
  BY DEF CallsSound, Registry!Ready, Registry!None
<1>2. ASSUME NEW i \in 1 .. Len(calls) PROVE CallOK(calls[i], DOMAIN byllvm')
  BY DEF CallsSound, CallOK, Registry!ValueTypes
<1> QED  BY <1>1, <1>2 DEF CallsSound

(* After a failure nothing is left of the calls.                           *)
LEMMA FailSound ==
    ASSUME NEW how, Fail(how), how # "check",
           DOMAIN first' = Used \cap (Equalities \cup Arithmetics)
    PROVE  CallsSound' /\ OperandsAccepted'
<1>1. calls' = <<>> /\ stage' # "check"
  BY DEF Fail
<1> QED  BY <1>1, NothingSeq DEF CallsSound, OperandsAccepted

-----------------------------------------------------------------------------
LEMMA InitSound == Init => Sound
<1> SUFFICES ASSUME Init PROVE Sound
  OBVIOUS
<1>1. Remembering
  BY InitRemembers
<1>2. TypesFound
  BY NothingSeq DEF Init, Registry!Init, TypesFound, Registry!None
<1>3. CallsSound /\ OperandsAccepted
  BY NothingSeq DEF Init, CallsSound, OperandsAccepted
<1> QED  BY <1>1, <1>2, <1>3 DEF Sound

(* The compiler asks for "real" and "boolean" before it begins.            *)
LEMMA ConstructSound ==
    ASSUME Sound, Construct
    PROVE  TypesFound' /\ CallsSound' /\ OperandsAccepted'
<1>1. Registry!Unaliased("real") = "real" /\ Registry!Unaliased("boolean") = "boolean"
  BY AliasAssumption DEF Registry!Unaliased
<1>2. {"real", "boolean"} \subseteq Registry!Known
  BY DEF Registry!Known, Registry!Scalars
<1>3. TypesFound'
  <2>1. CASE Registry!FindReal
    <3>1. Registry!Find("real") /\ UNCHANGED booleanType
      BY <2>1 DEF Registry!FindReal
    <3> QED  BY <1>1, <1>2, <3>1, FindSound DEF Sound, TypesFound, Exists, Registry!None
  <2>2. CASE Registry!FindBoolean
    <3>1. Registry!Find("boolean") /\ UNCHANGED realType
      BY <2>2 DEF Registry!FindBoolean
    <3> QED  BY <1>1, <1>2, <3>1, FindSound DEF Sound, TypesFound, Exists, Registry!None
  <2> QED  BY <2>1, <2>2 DEF Construct
<1>4. calls = <<>> /\ stage # "check" /\ UNCHANGED <<calls, stage, first>>
  BY DEF Construct, Registry!FindReal, Registry!FindBoolean, Registry!Ready, Sound, CallsSound
<1> QED  BY <1>3, <1>4, NothingSeq DEF Sound, CallsSound, OperandsAccepted

LEMMA MentionSound ==
    ASSUME Sound, Mention
    PROVE  TypesFound' /\ CallsSound' /\ OperandsAccepted'
<1>1. PICK n \in ScriptTypes : Registry!Find(n)
  BY DEF Mention
<1>2. stage = "script" /\ UNCHANGED <<realType, booleanType, calls, stage, first>>
  BY DEF Mention
<1>3. TypesFound'
  BY <1>1, <1>2, FindKeepsTypes DEF Sound
<1>4. DOMAIN byllvm \subseteq DOMAIN byllvm'
  BY <1>1, FindSound DEF Sound
<1>5. CallsSound'
  BY <1>2, <1>4, CallsKeep DEF Sound, CallsSound, Registry!ValueTypes
<1> QED  BY <1>2, <1>3, <1>5 DEF OperandsAccepted

LEMMA BeginSound ==
    ASSUME Sound, NEW f \in Callable, NEW n \in 0..3, Begin(f, n)
    PROVE  TypesFound' /\ CallsSound' /\ OperandsAccepted'
<1>1. /\ stage = "script" /\ Registry!Ready
      /\ UNCHANGED <<objects, byname, byllvm, realType, booleanType, first>>
  BY DEF Begin, registry
<1>2. TypesFound'
  BY <1>1 DEF Sound, TypesFound
<1>3. stage' # "check"
  BY <1>1 DEF Begin
<1>4. CASE Accepts(f, n)
  <2> DEFINE c == [fn |-> f, count |-> n, args |-> <<>>, at |-> started']
  <2>1. calls' = Append(calls, c)
    BY <1>4 DEF Begin
  <2>2. CallOK(c, DOMAIN byllvm')
    BY <1>4, NothingSeq DEF CallOK
  <2>3. /\ IsSeq(calls') /\ Len(calls') = Len(calls) + 1 /\ Len(calls) \in Nat
        /\ \A i \in 1 .. Len(calls) : calls'[i] = calls[i]
        /\ calls'[Len(calls) + 1] = c
    BY <2>1, AppendSeq, SeqLength DEF Sound, CallsSound
  <2>4. ASSUME NEW i \in 1 .. Len(calls) PROVE CallOK(calls[i], DOMAIN byllvm')
    BY <1>1, <2>3 DEF Sound, CallsSound, Registry!ValueTypes
  <2> HIDE DEF c
  <2>5. ASSUME NEW i \in 1 .. Len(calls') PROVE CallOK(calls'[i], DOMAIN byllvm')
    BY <2>2, <2>3, <2>4
  <2> QED  BY <1>1, <1>2, <1>3, <2>3, <2>5
           DEF Sound, CallsSound, OperandsAccepted, Registry!Ready, Registry!None,
               Registry!ValueTypes
<1>5. CASE ~ Accepts(f, n)
  <2>1. calls' = <<>>
    BY <1>5 DEF Begin
  <2> QED  BY <1>1, <1>2, <1>3, <2>1, NothingSeq DEF Sound, CallsSound, OperandsAccepted
<1> QED  BY <1>4, <1>5

(* An argument more for the last call of a list of calls.                  *)
LEMMA WithSound ==
    ASSUME NEW s, IsSeq(s), NEW n \in 0 .. Len(s) - 1, NEW values, NEW l \in values,
           \A i \in 1 .. Len(s) : CallOK(s[i], values)
    PROVE  LET r == Append(SubSeq(s, 1, n), With(s[n + 1], l)) IN
           IsSeq(r) /\ \A i \in 1 .. Len(r) : CallOK(r[i], values)
<1> DEFINE b == SubSeq(s, 1, n)
           c == With(s[n + 1], l)
           r == Append(b, c)
<1>1. Len(s) \in Nat
  BY SeqLength
<1>2. IsSeq(b) /\ Len(b) = n /\ \A i \in 1 .. n : b[i] = s[i]
  BY <1>1, PrefixSeq
<1>3. CallOK(c, values)
  <2>1. CallOK(s[n + 1], values)
    BY <1>1
  <2> DEFINE a == s[n + 1].args
  <2>2. IsSeq(a) /\ Len(a) \in Nat /\ \A i \in 1 .. Len(a) : a[i] \in values
    BY <2>1, SeqLength DEF CallOK
  <2>3. /\ IsSeq(Append(a, l)) /\ Len(Append(a, l)) = Len(a) + 1
        /\ \A i \in 1 .. Len(a) : Append(a, l)[i] = a[i]
        /\ Append(a, l)[Len(a) + 1] = l
    BY <2>2, AppendSeq
  <2>4. c.fn = s[n + 1].fn /\ c.count = s[n + 1].count /\ c.args = Append(a, l)
    BY DEF With
  <2> HIDE DEF a, c
  <2>5. \A i \in 1 .. Len(Append(a, l)) : Append(a, l)[i] \in values
    BY <2>2, <2>3
  <2> QED  BY <2>1, <2>3, <2>4, <2>5 DEF CallOK
<1> HIDE DEF b, c
<1>4. /\ IsSeq(r) /\ Len(r) = n + 1
      /\ \A i \in 1 .. n : r[i] = b[i]
      /\ r[n + 1] = c
  BY <1>2, AppendSeq
<1> HIDE DEF r
<1>5. ASSUME NEW i \in 1 .. Len(r) PROVE CallOK(r[i], values)
  <2>1. CASE i \in 1 .. n
    BY <1>1, <1>2, <1>4, <2>1
  <2>2. CASE i = n + 1
    BY <1>3, <1>4, <2>2
  <2> QED  BY <1>1, <1>4, <2>1, <2>2
<1> QED  BY <1>4, <1>5 DEF r, b, c

LEMMA ArgumentSound ==
    ASSUME Sound, NEW l \in Registry!ValueTypes, Argument(l)
    PROVE  TypesFound' /\ CallsSound' /\ OperandsAccepted'
<1>1. /\ stage = "script" /\ calls # <<>>
      /\ UNCHANGED <<objects, byname, byllvm, realType, booleanType, first, stage>>
  BY DEF Argument, registry
<1>2. TypesFound'
  BY <1>1 DEF Sound, TypesFound
<1>3. Len(calls) \in Nat \ {0}
  BY <1>1, SeqLength DEF Sound, CallsSound
<1> DEFINE n == Len(calls) - 1
<1>4. n \in 0 .. Len(calls) - 1 /\ n + 1 = Len(calls)
  BY <1>3
<1>5. calls' = Append(SubSeq(calls, 1, n), With(calls[n + 1], l))
  BY <1>4 DEF Argument, Below, Top
<1> HIDE DEF n
<1>6. /\ IsSeq(calls')
      /\ \A i \in 1 .. Len(calls') : CallOK(calls'[i], DOMAIN byllvm)
  <2>1. \A i \in 1 .. Len(calls) : CallOK(calls[i], DOMAIN byllvm)
    BY DEF Sound, CallsSound, Registry!ValueTypes
  <2>2. l \in DOMAIN byllvm
    BY DEF Registry!ValueTypes
  <2> QED  BY <1>4, <1>5, <2>1, <2>2, WithSound DEF Sound, CallsSound
<1> QED  BY <1>1, <1>2, <1>6
         DEF Sound, CallsSound, OperandsAccepted, Registry!Ready, Registry!None,
             Registry!ValueTypes

LEMMA EmitSound ==
    ASSUME Sound, Emit
    PROVE  TypesFound' /\ CallsSound' /\ OperandsAccepted'
<1>1. /\ stage = "script" /\ index = 1 /\ calls # <<>> /\ Len(Top.args) = Top.count
      /\ UNCHANGED <<realType, booleanType, first>>
  BY DEF Emit, Sound, Remembering, Checking
<1>2. /\ TypesFound' /\ DOMAIN byllvm \subseteq DOMAIN byllvm'
      /\ InExternal /\ Exists(Declared.returns)
            => Named(Declared.returns) \in DOMAIN byllvm'
  <2>1. CASE InExternal
    <3>1. Registry!Find(Declared.returns)
      BY <2>1 DEF Emit
    <3> QED  BY <1>1, <3>1, FindSound, FindKeepsTypes DEF Sound, Named
  <2>2. CASE ~ InExternal
    <3>1. UNCHANGED <<objects, byname, byllvm>>
      BY <2>2 DEF Emit
    <3> QED  BY <1>1, <2>2, <3>1 DEF Sound, TypesFound
  <2> QED  BY <2>1, <2>2
<1>3. CASE stage' = "check" /\ UNCHANGED <<calls, index, last>>
           /\ (InExternal => Exists(Declared.returns))
  <2>1. Top' = Top /\ (InExternal' <=> InExternal) /\ Declared' = Declared
    BY <1>3 DEF Top, InExternal, Declared
  <2>2. CallsSound'
    BY <1>1, <1>2, <1>3, <2>1, CallsKeep DEF Sound, CallsSound, Registry!ValueTypes, Named
  <2> QED  BY <1>1, <1>2, <1>3, <2>2 DEF OperandsAccepted
<1>4. CASE Fail("unknown")
  BY <1>1, <1>2, <1>4, FailSound DEF Sound, CallsSound
<1> QED  BY <1>3, <1>4 DEF Emit

LEMMA NextCompilerSound ==
    ASSUME Sound, NextCompiler
    PROVE  TypesFound' /\ CallsSound' /\ OperandsAccepted'
<1>1. /\ objects' = <<>> /\ DOMAIN byllvm' = {} /\ DOMAIN byname' = {}
      /\ realType' = Registry!None /\ booleanType' = Registry!None
      /\ calls' = <<>> /\ stage' = "script" /\ first' = first
  BY DEF NextCompiler
<1>2. TypesFound'
  BY <1>1, NothingSeq DEF TypesFound, Registry!None
<1> QED  BY <1>1, <1>2, NothingSeq DEF Sound, CallsSound, OperandsAccepted

(* A type with lanes is that of a vector.                                  *)
LEMMA LanesAreVectors ==
    ASSUME TypesFound, NEW l \in DOMAIN byllvm, l.lanes > 0
    PROVE  IsVector(l)
<1> DEFINE n == objects[byllvm[l]]
<1>1. Registry!LLVM(n) = l
  BY DEF TypesFound
<1> HIDE DEF n
<1>2. n \in DOMAIN Lanes
  BY <1>1 DEF Registry!LLVM
<1> QED  BY <1>2 DEF IsVector, TypeOfValue, Registry!IsVector, n

(* The checks of both operands of an arithmetic operator.                  *)
LEMMA ArithmeticChecked ==
    ASSUME Sound, stage = "check", Top.fn \in Arithmetics,
           index <= Len(Top.args), ~ WrongType(Top.fn, index, Top.args[index])
    PROVE  /\ IsReal(Top.args[1]) \/ IsVector(Top.args[1])
           /\ index + 1 > 2 => Registry!Accepted(TypeOfValue(Top.args[1]),
                                                 TypeOfValue(Top.args[2]))
<1> DEFINE a == Top.args
           f == Top.fn
<1>1. CallOK(Top, DOMAIN byllvm) /\ Len(a) = Top.count
  <2>1. Len(calls) \in Nat \ {0}
    BY SeqLength DEF Sound, CallsSound
  <2> QED  BY <2>1 DEF Sound, CallsSound, Top, Registry!ValueTypes
<1>2. Len(a) \in {1, 2} /\ index \in {1, 2}
  BY <1>1, OperatorCounts DEF CallOK, Sound, Remembering, Checking
<1>3. CASE index = 1
  BY <1>3 DEF WrongType
<1>4. CASE index = 2
  <2>1. IsReal(a[1]) \/ IsVector(a[1])
    BY <1>4 DEF Sound, OperandsAccepted
  <2>2. f \in DOMAIN first
    <3>1. f \in Methods /\ f \in Used
      BY <1>1, Kinds DEF CallOK
    <3> QED  BY <3>1 DEF Sound, CallsSound
  <2>3. first[f].type = a[1]
    BY <1>4, <2>2 DEF Sound, Remembering, FirstIsOfThisCall
  <2>4. IsReal(a[2]) \/ (a[1].lanes > 0 /\ a[2] = a[1])
    BY <1>4, <2>3 DEF WrongType
  <2>5. a[1] \in DOMAIN byllvm
    BY <1>1, <1>2 DEF CallOK
  <2>6. CASE IsReal(a[2])
    BY <2>1, <2>6 DEF Registry!Accepted, IsReal, IsVector
  <2>7. CASE a[1].lanes > 0 /\ a[2] = a[1]
    <3>1. IsVector(a[1])
      BY <2>5, <2>7, LanesAreVectors DEF Sound
    <3> QED  BY <2>7, <3>1 DEF Registry!Accepted, Registry!Equals, IsVector
  <2> QED  BY <2>1, <2>4, <2>6, <2>7
<1> QED  BY <1>2, <1>3, <1>4

LEMMA CheckSound ==
    ASSUME Sound, CheckParameter
    PROVE  TypesFound' /\ CallsSound' /\ OperandsAccepted'
<1>1. /\ stage = "check" /\ index <= Len(Top.args) /\ index \in Nat \ {0}
      /\ UNCHANGED <<realType, booleanType>>
      /\ DOMAIN first' = DOMAIN first
  BY DEF CheckParameter, Sound, Remembering, Checking, RememberFirst
<1>2. /\ TypesFound' /\ DOMAIN byllvm \subseteq DOMAIN byllvm'
      /\ ~ InExternal => UNCHANGED <<objects, byname, byllvm>>
  <2>1. CASE InExternal
    <3>1. Registry!Find(Declared.takes[index])
      BY <2>1 DEF CheckParameter
    <3> QED  BY <1>1, <2>1, <3>1, FindSound, FindKeepsTypes DEF Sound
  <2>2. CASE ~ InExternal
    <3>1. UNCHANGED <<objects, byname, byllvm>>
      BY <2>2 DEF CheckParameter
    <3> QED  BY <1>1, <3>1 DEF Sound, TypesFound
  <2> QED  BY <2>1, <2>2
<1>3. CASE \E how \in {"unknown", "aborted", "thrown"} : Fail(how)
  BY <1>1, <1>2, <1>3, FailSound DEF Sound, CallsSound
<1>4. CASE /\ ~ WrongType(Top.fn, index, Top.args[index])
           /\ index' = index + 1 /\ UNCHANGED <<calls, stage, last>>
  <2>1. Top' = Top /\ (InExternal' <=> InExternal) /\ Declared' = Declared
    BY <1>4 DEF Top, InExternal, Declared
  <2>2. CallsSound'
    <3>1. InExternal => Named(Declared.returns) \in DOMAIN byllvm'
      BY <1>1, <1>2 DEF Sound, CallsSound
    <3>2. Named(Declared.returns)' = Named(Declared.returns)
      BY <2>1 DEF Named
    <3> QED  BY <1>1, <1>2, <1>4, <2>1, <3>1, <3>2, CallsKeep
             DEF Sound, CallsSound, Registry!ValueTypes
  <2>3. OperandsAccepted'
    <3> SUFFICES ASSUME Top.fn \in Arithmetics
                 PROVE  OperandsAccepted'
      BY <2>1 DEF OperandsAccepted
    <3>1. ~ InExternal
      BY Kinds DEF InExternal
    <3>2. UNCHANGED <<objects, byllvm, realType>>
      BY <1>1, <1>2, <3>1
    <3>3. /\ IsReal(Top.args[1]) \/ IsVector(Top.args[1])
          /\ index + 1 > 2 => Registry!Accepted(TypeOfValue(Top.args[1]),
                                                TypeOfValue(Top.args[2]))
      BY <1>1, <1>4, ArithmeticChecked
    <3> QED  BY <1>4, <2>1, <3>2, <3>3
             DEF OperandsAccepted, IsReal, IsVector, TypeOfValue, Registry!Accepted,
                 Registry!Equals, Registry!IsVector, Registry!LLVMOf
  <2> QED  BY <1>2, <2>2, <2>3
<1> QED  BY <1>3, <1>4 DEF CheckParameter, TypeError

(* The value of a call that is emitted has a type that was asked for.      *)
LEMMA ValueFound ==
    ASSUME Sound, stage = "check"
    PROVE  Value(Top.fn, Top.args) \in DOMAIN byllvm
<1> DEFINE a == Top.args
           f == Top.fn
<1>1. CallOK(Top, DOMAIN byllvm) /\ Len(a) = Top.count
  <2>1. Len(calls) \in Nat \ {0}
    BY SeqLength DEF Sound, CallsSound
  <2> QED  BY <2>1 DEF Sound, CallsSound, Top, Registry!ValueTypes
<1>2. CASE f \in Arithmetics \cup DOMAIN Library
  <2>1. Len(a) \in Nat \ {0}
    BY <1>1, <1>2, OperatorCounts DEF CallOK
  <2>2. a[1] \in DOMAIN byllvm
    BY <1>1, <2>1 DEF CallOK
  <2> QED  BY <1>2, <2>2 DEF Value
<1>3. CASE f \notin Arithmetics \cup DOMAIN Library
  <2>1. f \in DOMAIN Externals => Named(Externals[f].returns) \in DOMAIN byllvm
    BY DEF Sound, CallsSound, InExternal, Declared
  <2>2. Real \in DOMAIN byllvm /\ Boolean \in DOMAIN byllvm
    BY DEF Sound, CallsSound, TypesFound, Registry!Ready, Real, Boolean
  <2> QED  BY <1>3, <2>1, <2>2 DEF Value
<1> QED  BY <1>2, <1>3

LEMMA CompleteSound ==
    ASSUME Sound, Complete
    PROVE  TypesFound' /\ CallsSound' /\ OperandsAccepted'
<1>1. /\ stage = "check" /\ calls # <<>>
      /\ UNCHANGED <<objects, byname, byllvm, realType, booleanType, first>>
  BY DEF Complete, Sound, CallsSound
<1>2. TypesFound'
  BY <1>1 DEF Sound, TypesFound
<1> DEFINE how == Outcome(Top.fn, Top.args)
           value == Value(Top.fn, Top.args)
<1>3. CASE Give(value) /\ stage' = "script"
  <2>1. value \in DOMAIN byllvm
    BY <1>1, ValueFound
  <2> HIDE DEF value
  <2>2. PICK k \in Nat \ {0} : k = Len(calls)
    BY <1>1, SeqLength DEF Sound, CallsSound
  <2>3. IsSeq(calls') /\ \A i \in 1 .. Len(calls') : CallOK(calls'[i], DOMAIN byllvm)
    <3>1. CASE k = 1
      BY <1>3, <2>2, <3>1, NothingSeq DEF Give
    <3>2. CASE k > 1
      <4> DEFINE n == k - 2
      <4>1. n \in 0 .. Len(calls) - 1 /\ n + 1 = k - 1
        BY <2>2, <3>2
      <4>2. calls' = Append(SubSeq(calls, 1, n), With(calls[n + 1], value))
        <5>1. calls' = IF k = 1 THEN <<>>
                       ELSE Append(SubSeq(calls, 1, k - 2), With(calls[k - 1], value))
          BY <1>3, <2>2 DEF Give
        <5> QED  BY <3>2, <4>1, <5>1
      <4> HIDE DEF n
      <4>3. \A i \in 1 .. Len(calls) : CallOK(calls[i], DOMAIN byllvm)
        BY DEF Sound, CallsSound, Registry!ValueTypes
      <4>4. IsSeq(calls)
        BY DEF Sound, CallsSound
      <4> QED  BY <2>1, <4>1, <4>2, <4>3, <4>4, WithSound
    <3> QED  BY <3>1, <3>2
  <2> QED  BY <1>1, <1>2, <1>3, <2>3
           DEF Sound, CallsSound, OperandsAccepted, Registry!Ready, Registry!None,
               Registry!ValueTypes
<1>4. CASE Fail(how)
  <2>1. how # "check"
    BY DEF Outcome
  <2> QED  BY <1>1, <1>2, <1>4, <2>1, FailSound DEF Sound, CallsSound
<1> QED  BY <1>3, <1>4 DEF Complete

LEMMA StepSound == Sound /\ [Next]_vars => Sound'
<1> SUFFICES ASSUME Sound, [Next]_vars PROVE Sound'
  OBVIOUS
<1>1. Remembering'
  BY StepRemembers DEF Sound
<1>2. TypesFound' /\ CallsSound' /\ OperandsAccepted'
  <2>1. CASE Next
    BY <2>1, ConstructSound, MentionSound, BeginSound, ArgumentSound, EmitSound,
       CheckSound, CompleteSound, NextCompilerSound DEF Next
  <2>2. CASE UNCHANGED vars
    <3>1. /\ UNCHANGED <<objects, byname, byllvm, realType, booleanType>>
          /\ UNCHANGED <<calls, stage, index, first>>
      BY <2>2 DEF vars, registry
    <3>2. Top' = Top /\ (InExternal' <=> InExternal) /\ Declared' = Declared
      BY <3>1 DEF Top, InExternal, Declared
    <3>3. TypesFound'
      BY <3>1 DEF Sound, TypesFound
    <3>4. CallsSound'
      BY <3>1, <3>2, CallsKeep DEF Sound, CallsSound, Registry!ValueTypes, Named
    <3>5. OperandsAccepted'
      BY <3>1, <3>2
         DEF Sound, OperandsAccepted, IsReal, IsVector, TypeOfValue, Registry!Accepted,
             Registry!Equals, Registry!IsVector, Registry!LLVMOf
    <3> QED  BY <3>3, <3>4, <3>5
  <2> QED  BY <2>1, <2>2
<1> QED  BY <1>1, <1>2 DEF Sound

-----------------------------------------------------------------------------
(* Every step of a call is a step of the registry or leaves it alone.      *)
LEMMA RequestsSigned ==
    ASSUME NEW f \in DOMAIN Externals
    PROVE  /\ Externals[f].returns \in Requests
           /\ \A i \in DOMAIN Externals[f].takes : Externals[f].takes[i] \in Requests
BY DEF Requests, Signed

LEMMA FindStep ==
    ASSUME Sound, NEW n \in Requests, Registry!Find(n), Registry!Ready,
           UNCHANGED <<realType, booleanType, operation>>
    PROVE  Registry!Next
BY DEF Registry!Next, Registry!FindNamed

LEMMA CompleteStep ==
    ASSUME Sound, Complete
    PROVE  Registry!Next \/ UNCHANGED registry
<1> DEFINE a == Top.args
           f == Top.fn
<1>1. /\ stage = "check" /\ index > Len(a) /\ operation' = Operation(f, a)
      /\ UNCHANGED <<objects, byname, byllvm, realType, booleanType>>
  BY DEF Complete
<1>2. CallOK(Top, DOMAIN byllvm) /\ Len(a) = Top.count /\ Registry!Ready
  <2>1. Len(calls) \in Nat \ {0}
    BY <1>1, SeqLength DEF Sound, CallsSound
  <2> QED  BY <1>1, <2>1 DEF Sound, CallsSound, Top, Registry!ValueTypes
<1>3. CASE f \in Equalities
  <2>1. a[1] \in Registry!ValueTypes
    BY <1>2, <1>3, OperatorCounts DEF CallOK, Registry!ValueTypes
  <2>2. operation' = [op |-> "==", outcome |-> Registry!EqualityOf(byllvm[a[1]])]
    BY <1>1, <1>3 DEF Operation, TypeOfValue
  <2> QED  BY <1>1, <1>2, <2>1, <2>2 DEF Registry!Next, Registry!Compare
<1>4. CASE f \in Arithmetics /\ f \notin Equalities /\ Len(a) = 2
  <2>1. a[1] \in Registry!ValueTypes /\ a[2] \in Registry!ValueTypes
    BY <1>2, <1>4 DEF CallOK, Registry!ValueTypes
  <2>2. Registry!Accepted(byllvm[a[1]], byllvm[a[2]])
    BY <1>1, <1>4 DEF Sound, OperandsAccepted, TypeOfValue
  <2>3. operation' = [op |-> "+", lhs |-> a[1],
                      rhs |-> Registry!ConvertRHS(byllvm[a[1]], byllvm[a[2]])]
    BY <1>1, <1>4 DEF Operation, TypeOfValue
  <2> QED  BY <1>1, <1>2, <2>1, <2>2, <2>3 DEF Registry!Next, Registry!Arithmetic
<1>5. CASE f \notin Equalities /\ ~ (f \in Arithmetics /\ Len(a) = 2)
  BY <1>1, <1>5 DEF Operation, registry
<1> QED  BY <1>3, <1>4, <1>5

LEMMA RegistryStep ==
    ASSUME Sound, [Next]_vars
    PROVE  Registry!Next \/ Registry!Init' \/ UNCHANGED registry
<1>1. CASE Construct
  BY <1>1 DEF Construct, Registry!Next
<1>2. CASE Mention
  <2>1. PICK n \in ScriptTypes : Registry!Find(n)
    BY <1>2 DEF Mention
  <2>2. Registry!Ready /\ UNCHANGED <<realType, booleanType, operation>>
    BY <1>2 DEF Mention
  <2> QED  BY <2>1, <2>2, FindStep DEF Requests
<1>3. ASSUME NEW f \in Callable, NEW n \in 0..3, Begin(f, n) PROVE UNCHANGED registry
  BY <1>3 DEF Begin
<1>4. ASSUME NEW l \in Registry!ValueTypes, Argument(l) PROVE UNCHANGED registry
  BY <1>4 DEF Argument
<1>5. CASE Emit
  <2>1. calls # <<>> /\ UNCHANGED <<realType, booleanType, operation>>
    BY <1>5 DEF Emit
  <2>2. CASE InExternal
    <3>1. Registry!Find(Declared.returns) /\ Declared.returns \in Requests
      BY <1>5, <2>2, RequestsSigned DEF Emit, InExternal, Declared
    <3> QED  BY <2>1, <3>1, FindStep DEF Sound, CallsSound
  <2>3. CASE ~ InExternal
    BY <1>5, <2>1, <2>3 DEF Emit, registry
  <2> QED  BY <2>2, <2>3
<1>6. CASE CheckParameter
  <2>1. /\ stage = "check" /\ index <= Len(Top.args)
        /\ UNCHANGED <<realType, booleanType, operation>>
    BY <1>6 DEF CheckParameter
  <2>2. CASE InExternal
    <3>1. index \in DOMAIN Declared.takes
      <4>1. CallOK(Top, DOMAIN byllvm) /\ Len(Top.args) = Top.count
        <5>1. Len(calls) \in Nat \ {0}
          BY <2>1, SeqLength DEF Sound, CallsSound
        <5> QED  BY <2>1, <5>1 DEF Sound, CallsSound, Top, Registry!ValueTypes
      <4>2. Top.count = Len(Declared.takes)
        <5>1. Top.fn \notin Methods /\ Top.fn \notin DOMAIN Library
          BY <2>2, Kinds DEF InExternal
        <5> QED  BY <4>1, <5>1 DEF CallOK, Accepts, Methods, Arithmetics, Declared
      <4>3. Declared.takes \in Seq(STRING)
        BY <2>2, CallableAssumption DEF InExternal, Declared
      <4>4. index \in Nat \ {0}
        BY DEF Sound, Remembering, Checking
      <4> QED  BY <2>1, <4>1, <4>2, <4>3, <4>4
    <3>2. Registry!Find(Declared.takes[index]) /\ Declared.takes[index] \in Requests
      BY <1>6, <2>2, <3>1, RequestsSigned DEF CheckParameter, InExternal, Declared
    <3> QED  BY <2>1, <3>2, FindStep DEF Sound, CallsSound
  <2>3. CASE ~ InExternal
    BY <1>6, <2>1, <2>3 DEF CheckParameter, registry
  <2> QED  BY <2>2, <2>3
<1>7. CASE Complete
  BY <1>7, CompleteStep
<1>8. CASE NextCompiler
  BY <1>8 DEF NextCompiler, Registry!Init
<1>9. CASE UNCHANGED vars
  BY <1>9 DEF vars
<1> QED  BY <1>1, <1>2, <1>3, <1>4, <1>5, <1>6, <1>7, <1>8, <1>9 DEF Next

(* A compiler that checks and emits calls does nothing with types that     *)
(* TypeRegistry does not describe, in whatever order calls nest and with   *)
(* as many compilers as there may be: the theorems of TypeRegistryProofs   *)
(* are about calls too.                                                    *)
THEOREM CallsUseRegistry == Spec => Registries
<1>1. Init => Registry!Init
  BY DEF Init
<1>2. Sound /\ [Next]_vars => [Registry!Next \/ Registry!Init']_registry
  BY RegistryStep
<1> QED  BY <1>1, <1>2, InitSound, StepSound, PTL DEF Spec, Registries

-----------------------------------------------------------------------------
(* What the documentation says of calls, parameter by parameter: argument  *)
(* i of a call of f with arguments a is one that it allows.                *)
Fits(f, i, a) ==
    /\ f = "not" => a[i] = Boolean
    /\ f \in Comparisons => a[i] = Real
    /\ f \in Equalities => a[i] = a[1]
    /\ f \in Arithmetics =>
          IF i = 1 THEN a[1] = Real \/ Vector(a[1]) ELSE a[i] \in {a[1], Real}
    /\ f \in OfVector => Vector(a[i])
    /\ f = "[]" => IF i = 1 THEN Vector(a[1]) ELSE a[i] = Real
    /\ f \in DOMAIN Externals =>
          Exists(Externals[f].takes[i]) /\ a[i] = Named(Externals[f].takes[i])

(* The arguments of a call have been counted.                              *)
Counted(f, a) == f \in Callable /\ IsSeq(a) /\ Accepts(f, Len(a))

(* LLVM types: those of vectors have lanes, and there are two more.        *)
LEMMA Shapes ==
    ASSUME NEW n \in Registry!Known
    PROVE  LET l == Registry!LLVM(n) IN
           /\ n \in DOMAIN Lanes <=> Vector(l)
           /\ l = Boolean <=> n = "boolean"
           /\ l = Real <=> n \in {"real", "!float", "!double"}
           /\ Vector(l) \/ l = Boolean \/ l = Real
           /\ l.lanes \in Nat /\ (l.lanes > 0 <=> Vector(l))
           /\ Real # Boolean /\ ~ Vector(Real) /\ ~ Vector(Boolean)
<1>1. /\ "real" \notin DOMAIN Lanes /\ "boolean" \notin DOMAIN Lanes
      /\ "!float" \notin DOMAIN Lanes /\ "!double" \notin DOMAIN Lanes
  BY LanesAssumption
<1>2. /\ Real = [of |-> "fp", lanes |-> 0] /\ Boolean = [of |-> "i1", lanes |-> 0]
  BY <1>1 DEF Real, Boolean, Registry!LLVM
<1>3. CASE n = "boolean"
  BY <1>1, <1>2, <1>3 DEF Registry!LLVM, Vector
<1>4. CASE n \in DOMAIN Lanes
  <2>1. Registry!LLVM(n) = [of |-> "fp", lanes |-> Lanes[n]] /\ Lanes[n] \in Nat \ {0}
    BY <1>1, <1>4, LanesAssumption DEF Registry!LLVM
  <2> QED  BY <1>1, <1>2, <1>4, <2>1 DEF Vector
<1>5. CASE n \in {"real", "!float", "!double"}
  BY <1>1, <1>2, <1>5 DEF Registry!LLVM, Vector
<1> QED  BY <1>3, <1>4, <1>5 DEF Registry!Known, Registry!Scalars

(* The kinds of callables, once more: what a name is, is known from any of *)
(* its properties.                                                         *)
LEMMA Kind ==
    ASSUME NEW f \in Callable
    PROVE  \/ f = "not" /\ \A n : Accepts(f, n) => n = 1
           \/ f \in Comparisons /\ \A n : Accepts(f, n) => n = 2
           \/ f \in Equalities /\ \A n : Accepts(f, n) => n = 2
           \/ f \in Arithmetics
              /\ \A n : Accepts(f, n) => n = 2 \/ (n = 1 /\ f = "-")
           \/ f \in {"length", "sum"} /\ \A n : Accepts(f, n) => n = 1
           \/ f \in Accessors /\ \A n : Accepts(f, n) => n = 1
           \/ f = "[]" /\ \A n : Accepts(f, n) => n \in {2, 3}
           \/ f \in DOMAIN Library /\ f \notin DOMAIN Externals /\ f \notin Methods
              /\ \A n : Accepts(f, n) => n = Library[f]
           \/ f \in DOMAIN Externals /\ f \notin DOMAIN Library /\ f \notin Methods
              /\ \A n : Accepts(f, n) => n = Len(Externals[f].takes)
<1> USE DEF Accepts, Methods, Comparisons, Equalities, Arithmetics, OfVector,
            Accessors, Element
<1>1. CASE f \in Methods
  <2>1. f \notin DOMAIN Library /\ f \notin DOMAIN Externals
    BY <1>1, Kinds
  <2> QED  BY <1>1, <2>1
<1>2. CASE f \in DOMAIN Library
  <2>1. f \notin Methods /\ f \notin DOMAIN Externals
    BY <1>2, Kinds
  <2> QED  BY <1>2, <2>1
<1>3. CASE f \in DOMAIN Externals
  <2>1. f \notin Methods /\ f \notin DOMAIN Library
    BY <1>3, Kinds
  <2> QED  BY <1>3, <2>1
<1>4. f \in Methods \cup DOMAIN Library \cup DOMAIN Externals
  BY CallableAssumption DEF Callable
<1> QED  BY <1>1, <1>2, <1>3, <1>4

(* What the documentation says of a call, it says of its parameters.       *)
LEMMA DocumentedFits ==
    ASSUME NEW f, NEW a, Counted(f, a), Documented(f, a), NEW i \in 1 .. Len(a)
    PROVE  Fits(f, i, a)
<1> USE DEF Counted, Comparisons, Equalities, Arithmetics, OfVector, Accessors, Element
<1>0. Len(a) \in Nat /\ DOMAIN a = 1 .. Len(a)
  BY SeqLength
<1>1. CASE f \in DOMAIN Externals
  <2>1. f \notin Methods /\ f \notin DOMAIN Library
    BY <1>1, Kinds
  <2>2. /\ \A n \in Signed(f) : Exists(n)
        /\ a = [j \in DOMAIN Externals[f].takes |-> Named(Externals[f].takes[j])]
    BY <2>1 DEF Documented, Methods
  <2>3. i \in DOMAIN Externals[f].takes
    BY <1>0, <2>2
  <2>4. Externals[f].takes[i] \in Signed(f)
    BY <2>3 DEF Signed
  <2> QED  BY <2>1, <2>2, <2>3, <2>4  DEF Fits, Methods
<1>2. CASE f \in DOMAIN Library
  <2>1. f \notin Methods /\ f \notin DOMAIN Externals
    BY <1>2, Kinds
  <2> QED  BY <2>1  DEF Fits, Methods
<1>3. CASE f \in Methods
  <2>1. f \notin DOMAIN Library /\ f \notin DOMAIN Externals
    BY <1>3, Kinds
  <2>2. CASE f \in Equalities \cup Comparisons \cup {"not"}
    BY <1>0, <2>1, <2>2  DEF Documented, Fits
  <2>3. CASE f \in Arithmetics
    BY <1>0, <2>1, <2>3  DEF Documented, Fits
  <2>4. CASE f \in OfVector
    BY <1>0, <2>1, <2>4  DEF Documented, Fits
  <2>5. CASE f = "[]"
    BY <1>0, <2>1, <2>5  DEF Documented, Fits
  <2> QED  BY <1>3, <2>2, <2>3, <2>4, <2>5 DEF Methods
<1> QED  BY <1>1, <1>2, <1>3, CallableAssumption DEF Callable

(* A call whose parameters are all right is as documented, but for the     *)
(* size of the vector and the value of an external function.               *)
LEMMA FitsDocumented ==
    ASSUME NEW f, NEW a, Counted(f, a), f \notin DOMAIN Library,
           \A i \in 1 .. Len(a) : Fits(f, i, a),
           f \in DOMAIN Externals => Exists(Externals[f].returns),
           f \in Accessors => a[1].lanes > Element[f],
           f = "[]" /\ Len(a) = 3 => Square(a[1].lanes)
    PROVE  Documented(f, a)
<1> USE DEF Comparisons, Equalities, Arithmetics, Accessors, Element
<1>0. Len(a) \in Nat /\ DOMAIN a = 1 .. Len(a) /\ f \in Callable
  BY SeqLength DEF Counted
<1>1. CASE f \in DOMAIN Externals
  <2>1. Len(a) = Len(Externals[f].takes) /\ Externals[f].takes \in Seq(STRING)
    BY <1>0, <1>1, Kinds, CallableAssumption
       DEF Counted, Accepts, Methods, OfVector
  <2>2. DOMAIN Externals[f].takes = 1 .. Len(a)
    BY <2>1
  <2>3. \A i \in 1 .. Len(a) :
            Exists(Externals[f].takes[i]) /\ a[i] = Named(Externals[f].takes[i])
    BY <1>1 DEF Fits
  <2>4. \A n \in Signed(f) : Exists(n)
    BY <1>1, <2>2, <2>3 DEF Signed
  <2>5. a = [j \in DOMAIN Externals[f].takes |-> Named(Externals[f].takes[j])]
    <3>1. PICK S : a \in Seq(S)
      BY DEF Counted, IsSeq
    <3>2. a = [j \in 1 .. Len(a) |-> a[j]]
      BY <3>1
    <3> QED  BY <2>2, <2>3, <3>2
  <2> QED  BY <1>1, <2>4, <2>5 DEF Documented
<1>2. CASE f \in Methods
  <2>1. f \notin DOMAIN Externals
    BY <1>2, Kinds
  <2>2. PICK S : a \in Seq(S)
    BY DEF Counted, IsSeq
  <2>3. CASE f = "not"
    <3>1. Len(a) = 1 /\ a[1] = Boolean
      BY <1>0, <2>3, Kind DEF Fits, Counted, Methods
    <3>2. a = <<Boolean>>
      BY <2>2, <3>1
    <3> QED  BY <2>3, <3>2 DEF Documented
  <2>4. CASE f \in Comparisons
    <3>1. Len(a) = 2
      BY <1>0, <1>2, <2>1, <2>4, Kind DEF Counted
    <3>2. a[1] = Real /\ a[2] = Real
      BY <2>4, <3>1 DEF Fits
    <3>3. a = <<Real, Real>>
      BY <2>2, <3>1, <3>2
    <3> QED  BY <2>4, <3>3 DEF Documented
  <2>5. CASE f \in Equalities
    <3>1. Len(a) = 2
      BY <1>0, <1>2, <2>1, <2>5, Kind DEF Counted
    <3> QED  BY <2>5, <3>1 DEF Fits, Documented
  <2>6. CASE f \in Arithmetics
    <3>1. Len(a) = 2 \/ (Len(a) = 1 /\ f = "-")
      BY <1>0, <1>2, <2>1, <2>6, Kind DEF Counted
    <3>2. Fits(f, 1, a) /\ (Len(a) = 2 => Fits(f, 2, a))
      BY <1>0, <3>1
    <3> QED  BY <2>6, <3>1, <3>2 DEF Fits, Documented
  <2>7. CASE f \in OfVector
    <3>1. Len(a) = 1
      BY <1>0, <1>2, <2>1, <2>7, Kind DEF Counted, OfVector
    <3> QED  BY <2>7, <3>1 DEF Fits, Documented, OfVector
  <2>8. CASE f = "[]"
    <3>1. Len(a) \in {2, 3}
      BY <1>0, <1>2, <2>1, <2>8, Kind DEF Counted
    <3>2. Fits(f, 1, a) /\ \A i \in 2 .. Len(a) : Fits(f, i, a)
      BY <3>1
    <3> QED  BY <2>8, <3>1, <3>2 DEF Fits, Documented
  <2> QED  BY <1>2, <2>3, <2>4, <2>5, <2>6, <2>7, <2>8 DEF Methods
<1> QED  BY <1>0, <1>1, <1>2, CallableAssumption DEF Callable

(* Nothing is documented of a number of arguments that is not accepted.    *)
LEMMA DocumentedCounted ==
    ASSUME NEW f \in Callable, NEW n \in Nat, NEW a \in [1 .. n -> Registry!LLVMTypes],
           Documented(f, a)
    PROVE  Accepts(f, n)
<1> USE DEF Comparisons, Equalities, Arithmetics, OfVector, Accessors, Element
<1>0. a \in Seq(Registry!LLVMTypes) /\ Len(a) = n /\ DOMAIN a = 1 .. n
  OBVIOUS
<1>1. CASE f \in DOMAIN Externals
  <2>1. f \notin Methods /\ f \notin DOMAIN Library
    BY <1>1, Kinds
  <2>2. a = [j \in DOMAIN Externals[f].takes |-> Named(Externals[f].takes[j])]
    BY <2>1 DEF Documented, Methods
  <2>3. Externals[f].takes \in Seq(STRING)
    BY <1>1, CallableAssumption
  <2>4. DOMAIN Externals[f].takes = 1 .. n
    BY <1>0, <2>2
  <2>5. Len(Externals[f].takes) = n
    BY <2>3, <2>4
  <2> QED  BY <1>1, <2>5 DEF Accepts
<1>2. CASE f \in DOMAIN Library
  <2>1. f \notin Methods /\ f \notin DOMAIN Externals
    BY <1>2, Kinds
  <2>2. a = [j \in 1 .. Library[f] |-> Real]
    BY <2>1 DEF Documented, Methods
  <2>3. 1 .. n = 1 .. Library[f] /\ Library[f] \in Nat
    BY <1>0, <1>2, <2>2, CallableAssumption
  <2>4. n = Library[f]
    BY <2>3
  <2> QED  BY <1>2, <2>4 DEF Accepts
<1>3. CASE f \in Methods
  <2>1. f \notin DOMAIN Library /\ f \notin DOMAIN Externals
    BY <1>3, Kinds
  <2>2. CASE f = "not"
    <3>1. a = <<Boolean>>
      BY <2>1, <2>2 DEF Documented
    <3> QED  BY <1>0, <2>2, <3>1 DEF Accepts
  <2>5. CASE f \in Comparisons
    <3>1. a = <<Real, Real>>
      BY <2>1, <2>5 DEF Documented
    <3> QED  BY <1>0, <2>5, <3>1 DEF Accepts
  <2>3. CASE f \in Equalities \cup Arithmetics
    BY <1>0, <2>1, <2>3 DEF Documented, Accepts
  <2>4. CASE f \in OfVector \cup {"[]"}
    BY <1>0, <2>1, <2>4 DEF Documented, Accepts
  <2> QED  BY <1>3, <2>2, <2>3, <2>4, <2>5 DEF Methods
<1> QED  BY <1>1, <1>2, <1>3, CallableAssumption DEF Callable

(* A parameter of the wrong type breaks a call of [], and only that.       *)
LEMMA Unfit ==
    ASSUME NEW f, NEW a, Counted(f, a), NEW i \in 1 .. Len(a), ~ Fits(f, i, a)
    PROVE  /\ Broken(f, a) <=> f = "[]"
           /\ ~ Unchecked(f, a) /\ ~ Oversized(f, a) /\ ~ Documented(f, a)
<1>1. ~ Documented(f, a)
  BY DocumentedFits
<1>2. Len(a) \in Nat /\ f \in Callable
  BY SeqLength DEF Counted
<1>3. f \notin DOMAIN Library
  <2> SUFFICES ASSUME f \in DOMAIN Library PROVE FALSE
    OBVIOUS
  <2>1. f \notin Methods /\ f \notin DOMAIN Externals
    BY Kinds
  <2> QED  BY <2>1 DEF Fits, Methods
<1>4. ASSUME f = "[]" PROVE Broken(f, a)
  <2>1. f \notin DOMAIN Externals
    BY <1>4, Kinds DEF Methods
  <2>2. ~ IF i = 1 THEN Vector(a[1]) ELSE a[i] = Real
    BY <1>4, <2>1 DEF Fits, Comparisons, Equalities, Arithmetics, OfVector, Accessors, Element
  <2>3. ~ (Vector(a[1]) /\ \A j \in 2 .. Len(a) : a[j] = Real)
    BY <1>2, <2>2
  <2> QED  BY <1>4, <2>3 DEF Broken
<1>5. ASSUME f \in Accessors PROVE ~ Vector(a[1])
  <2>1. f \in Methods
    BY <1>5 DEF Methods, OfVector
  <2>2. f \notin DOMAIN Externals
    BY <2>1, Kinds
  <2>3. Len(a) = 1
    BY <1>2, <1>3, <1>5, <2>2, Kind
       DEF Counted, Comparisons, Equalities, Arithmetics, Accessors, Element
  <2> QED  BY <1>5, <2>2, <2>3
           DEF Fits, Comparisons, Equalities, Arithmetics, OfVector, Accessors, Element
<1>6. "w" \in Accessors
  BY DEF Accessors, Element
<1> QED  BY <1>1, <1>3, <1>4, <1>5, <1>6 DEF Broken, Unchecked, Oversized

(* If no parameter is wrong, [] is not what breaks.                        *)
LEMMA FitVector ==
    ASSUME NEW a, Counted("[]", a), \A i \in 1 .. Len(a) : Fits("[]", i, a)
    PROVE  Vector(a[1]) /\ \A i \in 2 .. Len(a) : a[i] = Real
<1>1. "[]" \in Methods /\ "[]" \in Callable
  BY DEF Methods, Counted
<1>2. Len(a) \in {2, 3}
  BY <1>1, Kind, Kinds
     DEF Counted, Comparisons, Equalities, Arithmetics, OfVector, Accessors, Element
<1>3. Fits("[]", 1, a) /\ \A i \in 2 .. Len(a) : Fits("[]", i, a)
  BY <1>2
<1> QED  BY <1>3 DEF Fits

-----------------------------------------------------------------------------
(* The registry, as far as the meaning of calls depends on it: the objects *)
(* of "real" and "boolean" are the ones the compiler keeps, and are found  *)
(* again from their LLVM types, "real" until an external function has a    *)
(* type with the same one.                                                 *)
NamesFound ==
    /\ \A n \in DOMAIN byname :
          /\ n \in Registry!Known
          /\ byname[n] \in 1 .. Len(objects) /\ objects[byname[n]] = n
    /\ \A t \in 1 .. Len(objects) : objects[t] \in Registry!Known

RealFound ==
    IF realType = Registry!None
    THEN DOMAIN byname = {} /\ booleanType = Registry!None
    ELSE /\ realType = byname["real"]
         /\ DOMAIN byname \cap Registry!External = {} => byllvm[Real] = realType

BooleanFound ==
    IF booleanType = Registry!None
    THEN "boolean" \notin DOMAIN byname
    ELSE booleanType = byname["boolean"] /\ byllvm[Boolean] = booleanType

Pointers == NamesFound /\ RealFound /\ BooleanFound

(* find() of a name leaves the other names and LLVM types as they are.     *)
LEMMA FindNamesFound ==
    ASSUME TypesFound, NamesFound, NEW m, Registry!Find(m)
    PROVE  LET t == Registry!Unaliased(m) IN
           /\ NamesFound'
           /\ DOMAIN byname' \subseteq DOMAIN byname \cup {t}
           /\ \A n \in DOMAIN byname : n \in DOMAIN byname' /\ byname'[n] = byname[n]
           /\ \A l \in DOMAIN byllvm :
                 \/ byllvm'[l] = byllvm[l]
                 \/ t \notin DOMAIN byname /\ t \in DOMAIN byname' /\ Registry!LLVM(t) = l
           /\ t \in Registry!Known /\ t \notin DOMAIN byname =>
                 /\ t \in DOMAIN byname' /\ Registry!LLVM(t) \in DOMAIN byllvm'
                 /\ byllvm'[Registry!LLVM(t)] = byname'[t]
<1> DEFINE t == Registry!Unaliased(m)
<1>1. CASE t \in DOMAIN byname \/ t \notin Registry!Known
  BY <1>1 DEF Registry!Find, NamesFound
<1>2. CASE t \notin DOMAIN byname /\ t \in Registry!Known
  <2> DEFINE new == Len(objects')
  <2>1. /\ objects' = Append(objects, t)
        /\ byname' = Registry!Put(byname, t, new)
        /\ byllvm' = Registry!Put(byllvm, Registry!LLVM(t), new)
    BY <1>2 DEF Registry!Find, Registry!Create
  <2>2. /\ IsSeq(objects') /\ new = Len(objects) + 1
        /\ \A i \in 1 .. Len(objects) : objects'[i] = objects[i]
        /\ objects'[new] = t
    BY <2>1, AppendSeq DEF TypesFound
  <2>3. Len(objects) \in Nat
    BY SeqLength DEF TypesFound
  <2>4. t \in Registry!Known /\ t \notin DOMAIN byname
    BY <1>2
  <2>5. \A i \in 1 .. new : objects'[i] \in Registry!Known
    <3> HIDE DEF new, t
    <3> QED  BY <2>2, <2>3, <2>4 DEF NamesFound
  <2> HIDE DEF t
  <2>6. /\ DOMAIN byname' = DOMAIN byname \cup {t} /\ byname'[t] = new
        /\ \A n \in DOMAIN byname : byname'[n] = byname[n]
        /\ byllvm'[Registry!LLVM(t)] = new
        /\ DOMAIN byllvm' = DOMAIN byllvm \cup {Registry!LLVM(t)}
        /\ \A l \in DOMAIN byllvm : l # Registry!LLVM(t) => byllvm'[l] = byllvm[l]
    BY <2>1, <2>4 DEF Registry!Put
  <2>7. ASSUME NEW n \in DOMAIN byname'
        PROVE  /\ n \in Registry!Known
               /\ byname'[n] \in 1 .. new /\ objects'[byname'[n]] = n
    <3> HIDE DEF new
    <3>1. CASE n = t
      BY <2>2, <2>3, <2>4, <2>6, <3>1
    <3>2. CASE n # t
      <4>1. n \in DOMAIN byname /\ byname'[n] = byname[n]
        BY <2>6, <3>2
      <4>2. /\ n \in Registry!Known
            /\ byname[n] \in 1 .. Len(objects) /\ objects[byname[n]] = n
        BY <4>1 DEF NamesFound
      <4> QED  BY <2>2, <2>3, <4>1, <4>2
    <3> QED  BY <3>1, <3>2
  <2>8. NamesFound'
    BY <2>5, <2>7 DEF NamesFound, Registry!Known, Registry!Scalars
  <2> QED  BY <2>4, <2>6, <2>8 DEF t
<1> QED  BY <1>1, <1>2

LEMMA FindPointers ==
    ASSUME TypesFound, Pointers, Registry!Ready, NEW m, Registry!Find(m),
           UNCHANGED <<realType, booleanType>>
    PROVE  Pointers'
<1> DEFINE t == Registry!Unaliased(m)
<1>1. NamesFound /\ RealFound /\ BooleanFound
  BY DEF Pointers
<1>2. /\ NamesFound'
      /\ DOMAIN byname' \subseteq DOMAIN byname \cup {t}
      /\ \A n \in DOMAIN byname : n \in DOMAIN byname' /\ byname'[n] = byname[n]
      /\ \A l \in DOMAIN byllvm :
            \/ byllvm'[l] = byllvm[l]
            \/ t \notin DOMAIN byname /\ t \in DOMAIN byname' /\ Registry!LLVM(t) = l
  BY <1>1, FindNamesFound
<1> HIDE DEF t
<1>3. /\ realType # Registry!None /\ booleanType # Registry!None
      /\ "real" \in DOMAIN byname /\ "boolean" \in DOMAIN byname
      /\ Real \in DOMAIN byllvm /\ Boolean \in DOMAIN byllvm
  BY DEF Registry!Ready, TypesFound, Real, Boolean
<1>4. BooleanFound'
  <2>1. booleanType = byname["boolean"] /\ byllvm[Boolean] = booleanType
    BY <1>1, <1>3 DEF BooleanFound
  <2>2. byllvm'[Boolean] = byllvm[Boolean]
    <3> SUFFICES ASSUME t \notin DOMAIN byname, t \in DOMAIN byname',
                        Registry!LLVM(t) = Boolean
                 PROVE  FALSE
      BY <1>2, <1>3
    <3>1. t \in Registry!Known
      BY <1>2 DEF NamesFound, Registry!Known, Registry!Scalars
    <3> QED  BY <1>3, <3>1, Shapes
  <2> QED  BY <1>2, <1>3, <2>1, <2>2 DEF BooleanFound, Registry!None, Boolean, Registry!LLVM
<1>5. RealFound'
  <2>1. realType = byname["real"]
    BY <1>1, <1>3 DEF RealFound
  <2>2. ASSUME DOMAIN byname' \cap Registry!External = {}
        PROVE  byllvm'[Real] = realType
    <3>1. DOMAIN byname \cap Registry!External = {} /\ byllvm[Real] = realType
      BY <1>1, <1>2, <1>3, <2>2 DEF RealFound
    <3> SUFFICES ASSUME t \notin DOMAIN byname, t \in DOMAIN byname',
                        Registry!LLVM(t) = Real
                 PROVE  FALSE
      BY <1>2, <1>3, <3>1
    <3>2. t \in Registry!Known
      BY <1>2 DEF NamesFound, Registry!Known, Registry!Scalars
    <3>3. t \in {"!float", "!double"}
      BY <1>3, <3>2, Shapes
    <3> QED  BY <2>2, <3>3 DEF Registry!External
  <2> QED  BY <1>2, <1>3, <2>1, <2>2
           DEF RealFound, Registry!None, Real, Registry!LLVM, Registry!External
<1> QED  BY <1>2, <1>4, <1>5 DEF Pointers

LEMMA ConstructPointers ==
    ASSUME Sound, Pointers, Construct
    PROVE  Pointers'
<1>1. /\ Registry!Unaliased("real") = "real" /\ Registry!Unaliased("boolean") = "boolean"
      /\ {"real", "boolean"} \subseteq Registry!Known
      /\ {"real", "boolean"} \cap Registry!External = {}
  BY AliasAssumption
     DEF Registry!Unaliased, Registry!Known, Registry!Scalars, Registry!External
<1>2. TypesFound /\ NamesFound /\ RealFound /\ BooleanFound
  BY DEF Sound, Pointers
<1>3. Len(objects) \in Nat
  BY <1>2, SeqLength DEF TypesFound
<1>4. CASE Registry!FindReal
  <2>1. /\ realType = Registry!None /\ Registry!Find("real")
        /\ realType' = byname'["real"] /\ booleanType' = booleanType
    BY <1>4 DEF Registry!FindReal
  <2>2. DOMAIN byname = {} /\ booleanType = Registry!None
    BY <1>2, <2>1 DEF RealFound
  <2>3. /\ NamesFound' /\ DOMAIN byname' = {"real"}
        /\ byllvm'[Registry!LLVM("real")] = byname'["real"]
    <3>1. /\ NamesFound' /\ DOMAIN byname' \subseteq DOMAIN byname \cup {"real"}
          /\ "real" \in DOMAIN byname'
          /\ byllvm'[Registry!LLVM("real")] = byname'["real"]
      BY <1>1, <1>2, <2>1, <2>2, FindNamesFound
    <3> QED  BY <2>2, <3>1
  <2>4. realType' # Registry!None
    <3>1. "real" \in DOMAIN byname'
      BY <2>3
    <3>2. byname'["real"] \in 1 .. Len(objects')
      BY <2>3, <3>1 DEF NamesFound
    <3> QED  BY <2>1, <3>2 DEF Registry!None
  <2>5. RealFound'
    BY <2>1, <2>3, <2>4 DEF RealFound, Real, Registry!None, Registry!LLVM, Registry!External
  <2>6. BooleanFound'
    BY <2>1, <2>2, <2>3 DEF BooleanFound, Registry!None
  <2> QED  BY <2>3, <2>5, <2>6 DEF Pointers
<1>5. CASE Registry!FindBoolean
  <2>1. /\ realType # Registry!None /\ booleanType = Registry!None
        /\ Registry!Find("boolean")
        /\ booleanType' = byname'["boolean"] /\ realType' = realType
    BY <1>5 DEF Registry!FindBoolean
  <2>2. "boolean" \notin DOMAIN byname /\ "real" \in DOMAIN byname /\ Real \in DOMAIN byllvm
    BY <1>2, <2>1 DEF BooleanFound, TypesFound, Real
  <2>3. /\ NamesFound' /\ DOMAIN byname' \subseteq DOMAIN byname \cup {"boolean"}
        /\ "boolean" \in DOMAIN byname'
        /\ \A n \in DOMAIN byname : n \in DOMAIN byname' /\ byname'[n] = byname[n]
        /\ byllvm'[Registry!LLVM("boolean")] = byname'["boolean"]
        /\ \A l \in DOMAIN byllvm :
              byllvm'[l] = byllvm[l] \/ Registry!LLVM("boolean") = l
    BY <1>1, <1>2, <2>1, <2>2, FindNamesFound
  <2>4. booleanType' # Registry!None
    <3>1. byname'["boolean"] \in 1 .. Len(objects')
      BY <2>3 DEF NamesFound
    <3> QED  BY <2>1, <3>1 DEF Registry!None
  <2>5. byllvm'[Real] = byllvm[Real]
    BY <1>1, <2>2, <2>3, Shapes DEF Boolean
  <2>6. RealFound'
    BY <1>2, <2>1, <2>2, <2>3, <2>5
       DEF RealFound, Real, Registry!None, Registry!LLVM, Registry!External
  <2>7. BooleanFound'
    BY <2>1, <2>3, <2>4 DEF BooleanFound, Boolean, Registry!None, Registry!LLVM
  <2> QED  BY <2>3, <2>6, <2>7 DEF Pointers
<1> QED  BY <1>4, <1>5 DEF Construct

LEMMA PointersKeep ==
    ASSUME Pointers, UNCHANGED <<objects, byname, byllvm, realType, booleanType>>
    PROVE  Pointers'
BY DEF Pointers, NamesFound, RealFound, BooleanFound, Registry!None, Registry!Known,
       Registry!Scalars, Registry!External, Real, Boolean, Registry!LLVM

LEMMA StepPointers ==
    ASSUME Sound, Pointers, [Next]_vars
    PROVE  Pointers'
<1> DEFINE Same == UNCHANGED <<objects, byname, byllvm, realType, booleanType>>
           Asked == /\ Registry!Ready /\ UNCHANGED <<realType, booleanType>>
                    /\ \E n : Registry!Find(n)
<1>1. CASE Construct
  BY <1>1, ConstructPointers
<1>2. CASE Mention
  BY <1>2, FindPointers DEF Mention, Sound
<1>3. ASSUME NEW f \in Callable, NEW n \in 0..3, Begin(f, n) PROVE Same
  BY <1>3 DEF Begin, registry
<1>4. ASSUME NEW l \in Registry!ValueTypes, Argument(l) PROVE Same
  BY <1>4 DEF Argument, registry
<1>5. CASE Emit
  <2>1. Registry!Ready /\ UNCHANGED <<realType, booleanType>>
    BY <1>5 DEF Emit, Sound, CallsSound
  <2> QED  BY <1>5, <2>1, FindPointers, PointersKeep DEF Emit, Sound
<1>6. CASE CheckParameter
  <2>1. Registry!Ready /\ UNCHANGED <<realType, booleanType>>
    BY <1>6 DEF CheckParameter, Sound, CallsSound
  <2> QED  BY <1>6, <2>1, FindPointers, PointersKeep DEF CheckParameter, Sound
<1>7. CASE Complete
  BY <1>7, PointersKeep DEF Complete
<1>8. CASE NextCompiler
  <2>1. /\ objects' = <<>> /\ DOMAIN byname' = {} /\ DOMAIN byllvm' = {}
        /\ realType' = Registry!None /\ booleanType' = Registry!None
    BY <1>8 DEF NextCompiler
  <2> QED  BY <2>1, NothingSeq DEF Pointers, NamesFound, RealFound, BooleanFound, Registry!None
<1>9. CASE UNCHANGED vars
  BY <1>9, PointersKeep DEF vars, registry
<1> QED  BY <1>1, <1>2, <1>3, <1>4, <1>5, <1>6, <1>7, <1>8, <1>9, PointersKeep DEF Next

-----------------------------------------------------------------------------
(* A value and the Type found for it.                                      *)
LEMMA Shape ==
    ASSUME TypesFound, NamesFound, NEW l \in DOMAIN byllvm
    PROVE  /\ Registry!LLVMOf(TypeOfValue(l)) = l
           /\ IsVector(l) <=> Vector(l)
           /\ Vector(l) \/ l = Boolean \/ l = Real
           /\ l.lanes \in Nat /\ (l.lanes > 0 <=> Vector(l))
           /\ Real # Boolean /\ ~ Vector(Real) /\ ~ Vector(Boolean)
<1> DEFINE n == objects[byllvm[l]]
<1>1. n \in Registry!Known /\ Registry!LLVM(n) = l
  BY DEF TypesFound, NamesFound
<1> HIDE DEF n
<1>2. Registry!LLVMOf(TypeOfValue(l)) = l /\ (IsVector(l) <=> n \in DOMAIN Lanes)
  BY <1>1 DEF Registry!LLVMOf, TypeOfValue, IsVector, Registry!IsVector, n
<1> QED  BY <1>1, <1>2, Shapes

LEMMA KeptTypes ==
    ASSUME TypesFound, Pointers, Registry!Ready
    PROVE  Registry!LLVMOf(realType) = Real /\ Registry!LLVMOf(booleanType) = Boolean
<1>1. "real" \in DOMAIN byname /\ "boolean" \in DOMAIN byname
  BY DEF Registry!Ready, TypesFound
<1>2. realType = byname["real"] /\ booleanType = byname["boolean"]
  BY DEF Registry!Ready, Pointers, RealFound, BooleanFound
<1>3. objects[realType] = "real" /\ objects[booleanType] = "boolean"
  BY <1>1, <1>2 DEF Pointers, NamesFound
<1> QED  BY <1>3 DEF Registry!LLVMOf, Real, Boolean

(* The call whose parameters are checked.                                  *)
LEMMA TopCounted ==
    ASSUME Sound, stage = "check"
    PROVE  /\ Counted(Top.fn, Top.args) /\ Registry!Ready
           /\ Len(Top.args) \in Nat
           /\ \A i \in 1 .. Len(Top.args) : Top.args[i] \in DOMAIN byllvm
           /\ index \in Nat \ {0}
<1>1. Len(calls) \in Nat \ {0}
  BY SeqLength DEF Sound, CallsSound
<1>2. CallOK(Top, DOMAIN byllvm) /\ Len(Top.args) = Top.count
  BY <1>1 DEF Sound, CallsSound, Top, Registry!ValueTypes
<1> QED  BY <1>2, SeqLength DEF CallOK, Counted, Sound, CallsSound, Remembering, Checking

(* The check of a parameter finds out whether it is one that the           *)
(* documentation allows, although types are looked up by the values.       *)
LEMMA WrongUnlessFits ==
    ASSUME Sound, Pointers, stage = "check", index <= Len(Top.args),
           InExternal => Exists(Declared.takes[index])
    PROVE  WrongType(Top.fn, index, Top.args[index]) <=> ~ Fits(Top.fn, index, Top.args)
<1> DEFINE f == Top.fn
           a == Top.args
           l == a[index]
<1>1. /\ Counted(f, a) /\ Registry!Ready /\ index \in 1 .. Len(a) /\ Len(a) \in Nat
      /\ l \in DOMAIN byllvm /\ a[1] \in DOMAIN byllvm
  BY TopCounted
<1>2. TypesFound /\ NamesFound
  BY DEF Sound, Pointers
<1>3. /\ IsReal(l) <=> l = Real
      /\ Registry!Equals(TypeOfValue(l), booleanType) <=> l = Boolean
      /\ Registry!LLVMOf(realType) = Real
      /\ IsVector(l) <=> Vector(l)
  BY <1>1, <1>2, Shape, KeptTypes DEF IsReal, Registry!Equals
<1>4. a[1].lanes \in Nat /\ (a[1].lanes > 0 <=> Vector(a[1]))
  BY <1>1, <1>2, Shape
<1>5. ASSUME index > 1, f \in Equalities \cup Arithmetics
      PROVE  first[f].type = a[1]
  <2>1. f \in DOMAIN first
    BY <1>1, <1>5, Kinds DEF Sound, CallsSound, Counted
  <2> QED  BY <1>5, <2>1 DEF Sound, Remembering, FirstIsOfThisCall
<1>6. ASSUME f \in Arithmetics, index > 1
      PROVE  a[1] = Real \/ Vector(a[1])
  <2>1. IsReal(a[1]) \/ IsVector(a[1])
    BY <1>6 DEF Sound, OperandsAccepted
  <2> QED  BY <1>1, <1>2, <2>1, Shape, KeptTypes DEF IsReal, Registry!Equals
<1>7. f \in DOMAIN Externals => Exists(Externals[f].takes[index])
  BY DEF InExternal, Declared
<1> HIDE DEF f, a
<1>8. WrongType(f, index, l) <=> ~ Fits(f, index, a)
  <2> USE DEF WrongType, Fits, Comparisons, Equalities, Arithmetics, OfVector, Accessors,
              Element
  <2>1. CASE f \in DOMAIN Externals
    <3>1. f \notin Methods
      BY <2>1, Kinds
    <3> QED  BY <1>7, <2>1, <3>1 DEF Methods
  <2>2. CASE f \notin DOMAIN Externals
    <3>1. CASE f \in {"not"} \cup Comparisons
      BY <1>3, <2>2, <3>1
    <3>2. CASE f \in Equalities
      BY <1>1, <1>5, <2>2, <3>2
    <3>3. CASE f \in Arithmetics
      BY <1>1, <1>3, <1>4, <1>5, <1>6, <2>2, <3>3
    <3>4. CASE f \in OfVector \cup {"[]"}
      BY <1>1, <1>3, <2>2, <3>4
    <3>5. CASE f \notin Methods
      BY <2>2, <3>5 DEF Methods
    <3> QED  BY <3>1, <3>2, <3>3, <3>4, <3>5 DEF Methods
  <2> QED  BY <2>1, <2>2
<1> QED  BY <1>8 DEF f, a

-----------------------------------------------------------------------------
(* The parameters checked so far are right, and a call that ended did so   *)
(* as the documentation says, but for the known failures.                  *)
Checked ==
    stage = "check" =>
        /\ index <= Len(Top.args) + 1
        /\ \A i \in 1 .. index - 1 : Fits(Top.fn, i, Top.args)
        /\ InExternal => Exists(Declared.returns)

Ended == EmittedAsDocumented /\ RejectedOnlyIfWrong /\ KnownFailures

Meaning == Sound /\ Pointers /\ Checked /\ Ended

(* A call all of whose parameters are right.                               *)
LEMMA TopFits ==
    ASSUME Sound, Checked, stage = "check", index > Len(Top.args)
    PROVE  \A i \in 1 .. Len(Top.args) : Fits(Top.fn, i, Top.args)
BY TopCounted DEF Checked

(* How a call ends whose parameters have all been checked.                 *)
LEMMA Emission ==
    ASSUME Sound, Checked, Pointers, stage = "check", index > Len(Top.args),
           Outcome(Top.fn, Top.args) = "emitted"
    PROVE  \/ Documented(Top.fn, Top.args)
              /\ Value(Top.fn, Top.args) = DocumentedValue(Top.fn, Top.args)
              /\ ~ Oversized(Top.fn, Top.args) /\ ~ Broken(Top.fn, Top.args)
           \/ Unchecked(Top.fn, Top.args)
<1> DEFINE f == Top.fn
           a == Top.args
<1>1. /\ Counted(f, a) /\ Len(a) \in Nat /\ \A i \in 1 .. Len(a) : Fits(f, i, a)
      /\ \A i \in 1 .. Len(a) : a[i] \in DOMAIN byllvm
  BY TopCounted, TopFits
<1>2. f \in DOMAIN Externals => Exists(Externals[f].returns)
  BY DEF Checked, InExternal, Declared
<1>3. ~ WrongSize(f, a) /\ ~ Asserts(f, a) /\ ~ FromArgument(f, a)
  BY DEF Outcome
<1>4. TypesFound /\ NamesFound
  BY DEF Sound, Pointers
<1> HIDE DEF f, a
<1>5. CASE f \notin DOMAIN Library
  <2>1. ASSUME f \in Accessors PROVE a[1].lanes > Element[f]
    <3>1. Len(a) = 1
      BY <1>1, <2>1, Kind
         DEF Counted, Comparisons, Equalities, Arithmetics, Accessors, Element, Methods,
             OfVector
    <3>2. a[1].lanes \in Nat
      BY <1>1, <1>4, <3>1, Shape
    <3> QED  BY <1>3, <2>1, <3>2 DEF Asserts, Accessors, Element
  <2>2. ASSUME f = "[]", Len(a) = 3 PROVE Square(a[1].lanes)
    BY <1>3, <2>2 DEF WrongSize
  <2>3. Documented(f, a)
    BY <1>1, <1>2, <1>5, <2>1, <2>2, FitsDocumented
  <2>4. Value(f, a) = DocumentedValue(f, a)
    <3>1. f \in Callable
      BY <1>1 DEF Counted
    <3>2. f \in Methods => f \notin DOMAIN Externals
      BY Kinds
    <3> QED  BY <1>5, <3>1, <3>2, CallableAssumption
             DEF Value, DocumentedValue, Callable, Methods, Comparisons, Equalities,
                 Arithmetics, OfVector, Accessors, Element
  <2>5. ~ Oversized(f, a)
    BY <1>3 DEF Oversized, WrongSize
  <2>6. ~ Broken(f, a)
    <3>1. f = "[]" => Vector(a[1]) /\ \A i \in 2 .. Len(a) : a[i] = Real
      BY <1>1, FitVector
    <3>2. ~ (f = "w" /\ a[1].lanes < 4)
      <4> SUFFICES ASSUME f = "w", a[1].lanes < 4 PROVE FALSE
        OBVIOUS
      <4>1. f \in Accessors /\ Element[f] = 3
        BY DEF Accessors, Element
      <4>2. a[1].lanes > 3
        BY <2>1, <4>1
      <4>3. Len(a) = 1
        BY <1>1, <4>1, Kind, Kinds
           DEF Counted, Comparisons, Equalities, Arithmetics, Accessors, Element, Methods,
               OfVector
      <4>4. a[1].lanes \in Nat
        BY <1>1, <1>4, <4>3, Shape
      <4> QED  BY <4>2, <4>4
    <3>3. ASSUME f \in DOMAIN Externals, a # <<>> PROVE ~ Vector(DocumentedValue(f, a))
      <4>1. f \notin Methods
        BY <3>3, Kinds
      <4>2. DocumentedValue(f, a) = Named(Externals[f].returns)
        BY <3>3, <4>1 DEF DocumentedValue, Methods
      <4> QED  BY <1>3, <3>3, <4>2 DEF FromArgument, Vector
    <3> QED  BY <3>1, <3>2, <3>3 DEF Broken
  <2> QED  BY <2>3, <2>4, <2>5, <2>6 DEF f, a
<1>6. CASE f \in DOMAIN Library
  <2> SUFFICES ASSUME Documented(f, a)
               PROVE  /\ Value(f, a) = DocumentedValue(f, a)
                      /\ ~ Oversized(f, a) /\ ~ Broken(f, a)
    BY <1>6 DEF f, a, Unchecked
  <2>1. f \notin Methods /\ f \notin DOMAIN Externals
    BY <1>6, Kinds
  <2>2. a = [i \in 1 .. Library[f] |-> Real] /\ 1 \in 1 .. Library[f]
    BY <1>6, <2>1, CallableAssumption
       DEF Documented, Methods, Comparisons, Equalities, Arithmetics, OfVector, Accessors,
           Element
  <2>3. Value(f, a) = Real
    BY <1>6, <2>2 DEF Value
  <2> QED  BY <2>1, <2>3
           DEF DocumentedValue, Methods, Comparisons, Equalities, Arithmetics, OfVector,
               Accessors, Element, Oversized, Broken
<1> QED  BY <1>5, <1>6

LEMMA Rejection ==
    ASSUME Sound, Checked, Pointers, stage = "check", index > Len(Top.args),
           Outcome(Top.fn, Top.args) = "thrown"
    PROVE  \/ Oversized(Top.fn, Top.args)
           \/ /\ ~ Documented(Top.fn, Top.args)
              /\ ~ Unchecked(Top.fn, Top.args) /\ ~ Broken(Top.fn, Top.args)
<1> DEFINE f == Top.fn
           a == Top.args
<1>1. /\ Counted(f, a) /\ Len(a) \in Nat /\ \A i \in 1 .. Len(a) : Fits(f, i, a)
      /\ \A i \in 1 .. Len(a) : a[i] \in DOMAIN byllvm
  BY TopCounted, TopFits
<1>2. WrongSize(f, a)
  BY DEF Outcome
<1>3. TypesFound /\ NamesFound
  BY DEF Sound, Pointers
<1> HIDE DEF f, a
<1>4. CASE f \in Accessors /\ (a[1].lanes < MinElements[f] \/ a[1].lanes > 4)
  <2>0. f \in Methods
    BY <1>4 DEF Methods, OfVector
  <2>1. f \notin DOMAIN Library /\ f \notin DOMAIN Externals
    BY <2>0, Kinds
  <2>2. Len(a) = 1
    BY <1>1, <1>4, <2>1, Kind
       DEF Counted, Comparisons, Equalities, Arithmetics, Accessors, Element
  <2>3. a[1].lanes \in Nat /\ (a[1].lanes > 0 <=> Vector(a[1]))
    BY <1>1, <1>3, <2>2, Shape
  <2>4. Vector(a[1])
    <3>1. Fits(f, 1, a)
      BY <1>1, <2>2
    <3> QED  BY <1>4, <3>1
             DEF Fits, Comparisons, Equalities, Arithmetics, OfVector, Accessors, Element
  <2>5. CASE a[1].lanes < MinElements[f]
    <3>1. ~ (a[1].lanes > Element[f]) /\ f # "w"
      BY <1>4, <2>3, <2>4, <2>5 DEF Accessors, Element, MinElements
    <3>2. ~ Documented(f, a)
      BY <1>4, <2>1, <3>1
         DEF Documented, Comparisons, Equalities, Arithmetics, Accessors, Element
    <3>3. f # "[]"
      BY <1>4 DEF Accessors, Element
    <3> QED  BY <2>1, <3>1, <3>2, <3>3 DEF Unchecked, Broken, f, a
  <2>6. CASE a[1].lanes > 4
    BY <1>4, <2>4, <2>6 DEF Oversized, f, a
  <2> QED  BY <1>4, <2>5, <2>6
<1>5. CASE f = "[]" /\ Len(a) = 3 /\ ~ Square(a[1].lanes)
  <2>0. f \in Methods
    BY <1>5 DEF Methods
  <2>1. f \notin DOMAIN Library /\ f \notin DOMAIN Externals
    BY <2>0, Kinds
  <2>2. ~ Documented(f, a)
    BY <1>5, <2>1
       DEF Documented, Comparisons, Equalities, Arithmetics, Accessors, Element
  <2>3. Vector(a[1]) /\ \A i \in 2 .. Len(a) : a[i] = Real
    BY <1>1, <1>5, FitVector
  <2> QED  BY <1>5, <2>1, <2>2, <2>3 DEF Unchecked, Broken, f, a
<1> QED  BY <1>2, <1>4, <1>5 DEF WrongSize

LEMMA Failure ==
    ASSUME Sound, Checked, Pointers, stage = "check", index > Len(Top.args),
           Outcome(Top.fn, Top.args) \in {"aborted", "malformed", "misloaded"}
    PROVE  \/ Broken(Top.fn, Top.args)
           \/ /\ Top.fn \in Equalities \cup Arithmetics
              /\ Real \in {Top.args[1], Top.args[2]}
              /\ DOMAIN byname \cap Registry!External # {}
<1> DEFINE f == Top.fn
           a == Top.args
           strange == DOMAIN byname \cap Registry!External # {}
<1>1. /\ Counted(f, a) /\ Len(a) \in Nat /\ \A i \in 1 .. Len(a) : Fits(f, i, a)
      /\ \A i \in 1 .. Len(a) : a[i] \in DOMAIN byllvm
      /\ Registry!Ready
  BY TopCounted, TopFits
<1>2. TypesFound /\ NamesFound
  BY DEF Sound, Pointers
<1>3. /\ strange \/ byllvm[Real] = realType
      /\ byllvm[Boolean] = booleanType
  BY <1>1 DEF Pointers, RealFound, BooleanFound, Registry!Ready
<1>4. \/ Asserts(f, a)
      \/ IllTyped(f, a)
      \/ FromArgument(f, a)
  BY DEF Outcome
<1>5. ~ WrongSize(f, a)
  BY DEF Outcome
<1> HIDE DEF f, a, strange
<1>6. CASE f \in Equalities /\ Registry!EqualityOf(TypeOfValue(a[1])) # "compared"
  <2>1. Len(a) = 2
    <3>1. f \notin DOMAIN Library /\ f \notin DOMAIN Externals
      BY <1>6, Kinds
    <3> QED  BY <1>1, <1>6, <3>1, Kind
             DEF Counted, Comparisons, Equalities, Arithmetics, Accessors, Element
  <2>2. a[1] \in DOMAIN byllvm
    BY <1>1, <2>1
  <2>3. byllvm[a[1]] # realType /\ byllvm[a[1]] # booleanType /\ ~ IsVector(a[1])
    BY <1>6 DEF Registry!EqualityOf, TypeOfValue, IsVector
  <2>4. a[1] = Real
    BY <1>2, <1>3, <2>2, <2>3, Shape
  <2>5. strange
    BY <1>3, <2>3, <2>4
  <2> QED  BY <1>6, <2>4, <2>5 DEF f, a, strange
<1>7. CASE f \in Accessors /\ Element[f] >= a[1].lanes
  <2>0. f \in Methods
    BY <1>7 DEF Methods, OfVector
  <2>1. f \notin DOMAIN Library /\ f \notin DOMAIN Externals
    BY <2>0, Kinds
  <2>2. Len(a) = 1
    BY <1>1, <1>7, <2>1, Kind
       DEF Counted, Comparisons, Equalities, Arithmetics, Accessors, Element
  <2>3. a[1].lanes \in Nat /\ (a[1].lanes > 0 <=> Vector(a[1]))
    BY <1>1, <1>2, <2>2, Shape
  <2>4. a[1].lanes >= MinElements[f]
    BY <1>5, <1>7, <2>3 DEF WrongSize, Accessors, Element, MinElements
  <2>5. f = "w" /\ a[1].lanes < 4 /\ Vector(a[1])
    BY <1>7, <2>3, <2>4 DEF Accessors, Element, MinElements
  <2> QED  BY <2>5 DEF Broken, f, a
<1>8. CASE IllTyped(f, a)
  <2>1. f \in Arithmetics /\ Len(a) = 2
    BY <1>8 DEF IllTyped
  <2>2. a[1] \in DOMAIN byllvm /\ a[2] \in DOMAIN byllvm /\ Fits(f, 1, a) /\ Fits(f, 2, a)
    BY <1>1, <2>1
  <2>3. Registry!ConvertRHS(byllvm[a[1]], byllvm[a[2]]) # a[1]
    BY <1>8 DEF IllTyped, TypeOfValue
  <2>4. /\ Registry!LLVMOf(byllvm[a[1]]) = a[1] /\ Registry!LLVMOf(byllvm[a[2]]) = a[2]
        /\ IsVector(a[1]) <=> Vector(a[1])
    BY <1>2, <2>2, Shape DEF TypeOfValue
  <2>5. a[2] # a[1] /\ ~ (IsVector(a[1]) /\ byllvm[a[2]] = realType)
    BY <2>3, <2>4 DEF Registry!ConvertRHS, IsVector, TypeOfValue
  <2>6. a[2] = Real /\ Vector(a[1])
    BY <2>1, <2>2, <2>5 DEF Fits
  <2>7. strange
    BY <1>3, <2>4, <2>5, <2>6
  <2> QED  BY <2>1, <2>6, <2>7 DEF f, a, strange
<1>9. CASE FromArgument(f, a)
  <2>1. f \in DOMAIN Externals /\ a # <<>> /\ Named(Externals[f].returns).lanes > 0
    BY <1>9 DEF FromArgument
  <2>2. f \notin Methods
    BY <2>1, Kinds
  <2>3. DocumentedValue(f, a) = Named(Externals[f].returns)
    BY <2>1, <2>2 DEF DocumentedValue, Methods
  <2>4. Exists(Externals[f].returns)
    BY <2>1 DEF Checked, InExternal, Declared, f
  <2>5. Vector(DocumentedValue(f, a))
    BY <2>1, <2>3, <2>4, Shapes DEF Vector, Named, Exists
  <2>6. Documented(f, a)
    <3>1. f \notin DOMAIN Library /\ f \notin Accessors /\ f # "[]"
      BY <2>1, <2>2, Kinds DEF Methods, OfVector
    <3> QED  BY <1>1, <2>4, <3>1, FitsDocumented
  <2> QED  BY <2>1, <2>5, <2>6 DEF Broken, f, a
<1> QED  BY <1>4, <1>6, <1>7, <1>8, <1>9 DEF Asserts

-----------------------------------------------------------------------------
(* What is known of the last call stays true while it is the last.         *)
LEMMA EndedKeeps ==
    ASSUME Ended, last' = last, DOMAIN byname \subseteq DOMAIN byname'
    PROVE  Ended'
<1>1. EmittedAsDocumented'
  BY DEF Ended, EmittedAsDocumented
<1>2. RejectedOnlyIfWrong'
  BY DEF Ended, RejectedOnlyIfWrong
<1>3. KnownFailures'
  BY DEF Ended, KnownFailures, Registry!External
<1> QED  BY <1>1, <1>2, <1>3 DEF Ended

LEMMA Unended ==
    ASSUME \/ last'.how = "none"
           \/ /\ last'.how = "miscounted"
              /\ last'.fn \in Callable /\ last'.count \in Nat
              /\ ~ Accepts(last'.fn, last'.count)
    PROVE  Ended'
<1>1. ASSUME last'.how = "miscounted", NEW a \in [1 .. last'.count -> Registry!LLVMTypes]
      PROVE  ~ Documented(last'.fn, a)
  BY <1>1, DocumentedCounted
<1>2. RejectedOnlyIfWrong'
  BY <1>1 DEF RejectedOnlyIfWrong
<1> QED  BY <1>2 DEF Ended, EmittedAsDocumented, KnownFailures

(* A call that is rejected before all its parameters are checked.          *)
LEMMA RejectedEnds ==
    ASSUME NEW how, Fail(how), how \in {"unknown", "thrown", "aborted"},
           ~ Documented(Top.fn, Top.args), ~ Unchecked(Top.fn, Top.args),
           Broken(Top.fn, Top.args) <=> how = "aborted"
    PROVE  Ended' /\ Checked'
<1>1. /\ last'.how = how /\ last'.fn = Top.fn /\ last'.args = Top.args
      /\ stage' # "check"
  BY DEF Fail, Call
<1> QED  BY <1>1
         DEF Ended, EmittedAsDocumented, RejectedOnlyIfWrong, KnownFailures, Checked

LEMMA EmitMeans ==
    ASSUME Meaning, Emit
    PROVE  Ended' /\ Checked'
<1>1. calls # <<>> /\ stage = "script" /\ index = 1 /\ Len(Top.args) = Top.count
  BY DEF Emit, Meaning, Sound, Remembering, Checking
<1>2. DOMAIN byname \subseteq DOMAIN byname'
  BY FindSound DEF Emit, Meaning, Sound
<1>3. CASE ~ (InExternal => Exists(Declared.returns)) /\ Fail("unknown")
  <2>1. InExternal /\ ~ Exists(Declared.returns)
    BY <1>3
  <2>2. Top.fn \notin Methods /\ Top.fn \notin DOMAIN Library
    BY <2>1, Kinds DEF InExternal
  <2>3. Declared.returns \in Signed(Top.fn)
    BY <2>1 DEF Signed, Declared
  <2>4. ~ Documented(Top.fn, Top.args)
    BY <2>1, <2>2, <2>3
       DEF Documented, Methods, Comparisons, Equalities, Arithmetics, OfVector, Accessors,
           Element
  <2>5. ~ Unchecked(Top.fn, Top.args) /\ ~ Broken(Top.fn, Top.args)
    <3>1. Top.fn # "[]" /\ Top.fn # "w"
      BY <2>2 DEF Methods, OfVector, Accessors, Element
    <3> QED  BY <2>2, <2>4, <3>1 DEF Unchecked, Broken
  <2> QED  BY <1>3, <2>4, <2>5, RejectedEnds
<1>4. CASE (InExternal => Exists(Declared.returns)) /\ stage' = "check"
           /\ UNCHANGED <<calls, index, last>>
  <2>1. Top' = Top /\ (InExternal' <=> InExternal) /\ Declared' = Declared
    BY <1>4 DEF Top, InExternal, Declared
  <2>2. Ended'
    BY <1>2, <1>4, EndedKeeps DEF Meaning
  <2>3. index' <= Len(Top'.args) + 1
    <3>1. CallOK(Top, DOMAIN byllvm)
      <4>1. Len(calls) \in Nat \ {0}
        BY <1>1, SeqLength DEF Meaning, Sound, CallsSound
      <4> QED  BY <4>1 DEF Meaning, Sound, CallsSound, Top, Registry!ValueTypes
    <3>2. Len(Top.args) \in Nat
      BY <3>1, SeqLength DEF CallOK
    <3> QED  BY <1>1, <1>4, <2>1, <3>2
  <2>4. (InExternal => Exists(Declared.returns))'
    BY <1>4, <2>1 DEF Exists, Registry!Known, Registry!Scalars, Registry!Unaliased
  <2>5. Checked'
    BY <1>1, <1>4, <2>3, <2>4 DEF Checked
  <2> QED  BY <2>2, <2>5
<1> QED  BY <1>3, <1>4 DEF Emit

LEMMA CheckMeans ==
    ASSUME Meaning, CheckParameter
    PROVE  Ended' /\ Checked'
<1> DEFINE f == Top.fn
           a == Top.args
<1>1. /\ stage = "check" /\ index \in 1 .. Len(a) /\ Counted(f, a) /\ Len(a) \in Nat
  BY TopCounted DEF CheckParameter, Meaning
<1>2. DOMAIN byname \subseteq DOMAIN byname'
  BY FindSound DEF CheckParameter, Meaning, Sound
<1>3. CASE InExternal /\ ~ Exists(Declared.takes[index]) /\ Fail("unknown")
  <2>1. ~ Fits(f, index, a)
    BY <1>3 DEF Fits, InExternal, Declared
  <2>2. ~ Documented(f, a) /\ ~ Unchecked(f, a) /\ (Broken(f, a) <=> f = "[]")
    BY <1>1, <2>1, Unfit
  <2>3. f # "[]"
    BY <1>3, Kinds DEF InExternal, Methods
  <2> QED  BY <1>3, <2>2, <2>3, RejectedEnds
<1>4. CASE /\ InExternal => Exists(Declared.takes[index])
           /\ WrongType(f, index, a[index]) /\ TypeError
  <2>1. ~ Fits(f, index, a)
    BY <1>1, <1>4, WrongUnlessFits DEF Meaning
  <2>2. ~ Documented(f, a) /\ ~ Unchecked(f, a) /\ (Broken(f, a) <=> f = "[]")
    BY <1>1, <2>1, Unfit
  <2> QED  BY <1>4, <2>2, RejectedEnds DEF TypeError
<1>5. CASE /\ InExternal => Exists(Declared.takes[index])
           /\ ~ WrongType(f, index, a[index])
           /\ index' = index + 1 /\ UNCHANGED <<calls, stage, last>>
  <2>1. Top' = Top /\ (InExternal' <=> InExternal) /\ Declared' = Declared
    BY <1>5 DEF Top, InExternal, Declared
  <2>2. Fits(f, index, a)
    BY <1>1, <1>5, WrongUnlessFits DEF Meaning
  <2>3. \A i \in 1 .. index' - 1 : Fits(f, i, a)
    <3>1. \A i \in 1 .. index - 1 : Fits(f, i, a)
      BY <1>1 DEF Meaning, Checked
    <3> HIDE DEF f, a
    <3>2. index' - 1 = index
      BY <1>1, <1>5
    <3> QED  BY <1>1, <2>2, <3>1, <3>2
  <2>4. (InExternal => Exists(Declared.returns))'
    BY <1>1, <2>1 DEF Meaning, Checked, Exists, Registry!Known, Registry!Scalars,
                      Registry!Unaliased
  <2>5. index' <= Len(Top'.args) + 1
    BY <1>1, <1>5, <2>1
  <2>6. \A i \in 1 .. index' - 1 : Fits(Top'.fn, i, Top'.args)
    BY <2>1, <2>3
  <2>7. Checked'
    BY <2>4, <2>5, <2>6 DEF Checked
  <2>8. Ended'
    BY <1>2, <1>5, EndedKeeps DEF Meaning
  <2> QED  BY <2>7, <2>8
<1> QED  BY <1>3, <1>4, <1>5 DEF CheckParameter

LEMMA CompleteMeans ==
    ASSUME Meaning, Complete
    PROVE  Ended' /\ Checked'
<1> DEFINE how == Outcome(Top.fn, Top.args)
           value == Value(Top.fn, Top.args)
<1>1. /\ stage = "check" /\ index > Len(Top.args) /\ UNCHANGED byname
      /\ Sound /\ Pointers /\ Checked
  BY DEF Complete, Meaning
<1>2. /\ last'.how = how /\ last'.fn = Top.fn /\ last'.args = Top.args
      /\ how \in {"emitted", "misloaded"} => last'.result = value
      /\ stage' # "check"
  BY DEF Complete, Fail, Call, Outcome
<1>3. how \in {"emitted", "thrown", "aborted", "malformed", "misloaded"}
  BY DEF Outcome
<1>4. CASE how = "emitted"
  BY <1>1, <1>2, <1>4, Emission
     DEF Ended, EmittedAsDocumented, RejectedOnlyIfWrong, KnownFailures, Checked
<1>5. CASE how = "thrown"
  BY <1>1, <1>2, <1>5, Rejection
     DEF Ended, EmittedAsDocumented, RejectedOnlyIfWrong, KnownFailures, Checked
<1>6. CASE how \in {"aborted", "malformed", "misloaded"}
  <2>1. \/ Broken(Top.fn, Top.args)
        \/ /\ Top.fn \in Equalities \cup Arithmetics
           /\ Real \in {Top.args[1], Top.args[2]}
           /\ DOMAIN byname \cap Registry!External # {}
    BY <1>1, <1>6, Failure
  <2>2. KnownFailures'
    BY <1>1, <1>2, <2>1 DEF KnownFailures, Registry!External, Real, Registry!LLVM
  <2> QED  BY <1>2, <1>6, <2>2
           DEF Ended, EmittedAsDocumented, RejectedOnlyIfWrong, Checked
<1> QED  BY <1>3, <1>4, <1>5, <1>6

LEMMA InitMeans == Init => Meaning
<1> SUFFICES ASSUME Init PROVE Meaning
  OBVIOUS
<1>1. Pointers
  BY NothingSeq DEF Init, Registry!Init, Pointers, NamesFound, RealFound, BooleanFound,
                    Registry!None
<1>2. Checked /\ Ended
  BY DEF Init, Checked, Ended, EmittedAsDocumented, RejectedOnlyIfWrong, KnownFailures,
         NoCall
<1> QED  BY <1>1, <1>2, InitSound DEF Meaning

LEMMA StepMeans == Meaning /\ [Next]_vars => Meaning'
<1> SUFFICES ASSUME Meaning, [Next]_vars PROVE Meaning'
  OBVIOUS
<1>1. Sound' /\ Pointers'
  BY StepSound, StepPointers DEF Meaning
<1> SUFFICES Ended' /\ Checked'
  BY <1>1 DEF Meaning
<1>2. CASE Construct \/ Mention
  <2>1. /\ stage # "check" /\ UNCHANGED <<stage, last>>
    BY <1>2 DEF Construct, Mention, Registry!FindReal, Registry!FindBoolean,
                Registry!Ready, Meaning, Sound, CallsSound
  <2>2. DOMAIN byname \subseteq DOMAIN byname'
    BY <1>2, FindSound DEF Construct, Mention, Registry!FindReal, Registry!FindBoolean,
                           Meaning, Sound
  <2> QED  BY <2>1, <2>2, EndedKeeps DEF Meaning, Checked
<1>3. ASSUME NEW f \in Callable, NEW n \in 0..3, Begin(f, n) PROVE Ended' /\ Checked'
  <2>1. stage' # "check"
    BY <1>3 DEF Begin
  <2>2. CASE Accepts(f, n)
    BY <1>3, <2>1, <2>2, Unended DEF Begin, NoCall, Checked
  <2>3. CASE ~ Accepts(f, n)
    <3>1. /\ last'.how = "miscounted" /\ last'.fn = f /\ last'.count = n
      BY <1>3, <2>3 DEF Begin
    <3> QED  BY <1>3, <2>1, <2>3, <3>1, Unended DEF Checked
  <2> QED  BY <2>2, <2>3
<1>4. ASSUME NEW l \in Registry!ValueTypes, Argument(l) PROVE Ended' /\ Checked'
  <2>1. stage' # "check" /\ UNCHANGED <<last, byname>>
    BY <1>4 DEF Argument, registry
  <2> QED  BY <2>1, EndedKeeps DEF Meaning, Checked
<1>5. CASE Emit
  BY <1>5, EmitMeans
<1>6. CASE CheckParameter
  BY <1>6, CheckMeans
<1>7. CASE Complete
  BY <1>7, CompleteMeans
<1>8. CASE NextCompiler
  <2>1. last'.how = "none" /\ stage' # "check"
    BY <1>8 DEF NextCompiler, NoCall
  <2> QED  BY <2>1, Unended DEF Checked
<1>9. CASE UNCHANGED vars
  <2>1. UNCHANGED <<stage, last, byname, calls, index>>
    BY <1>9 DEF vars, registry
  <2>2. Top' = Top /\ (InExternal' <=> InExternal) /\ Declared' = Declared
    BY <2>1 DEF Top, InExternal, Declared
  <2>3. Checked'
    BY <2>1, <2>2 DEF Meaning, Checked, Exists, Registry!Known, Registry!Scalars,
                      Registry!Unaliased
  <2> QED  BY <2>1, <2>3, EndedKeeps DEF Meaning
<1> QED  BY <1>2, <1>3, <1>4, <1>5, <1>6, <1>7, <1>8, <1>9 DEF Next

-----------------------------------------------------------------------------
(* The calls that are open, and all else that the registry does not keep.  *)
(* A call within another leaves room for its value among the arguments.    *)
CallShaped(c, n) ==
    /\ c = [fn |-> c.fn, count |-> c.count, args |-> c.args, at |-> c.at]
    /\ c.count \in 0..3 /\ Len(c.args) <= c.count
    /\ c.at \in 1 .. n

OpenCalls ==
    /\ \A i \in 1 .. Len(calls) : CallShaped(calls[i], started)
    /\ \A i \in 1 .. Len(calls) - 1 : Len(calls[i].args) < calls[i].count

Counters ==
    /\ compiler \in 1 .. MaxCompilers /\ started \in 0 .. MaxCalls
    /\ position \in 0 .. started
    /\ stage \in {"script", "check", "thrown", "aborted", "malformed"}

Symbols ==
    \A f \in DOMAIN first :
        first[f].by \in 0 .. compiler /\ first[f].type \in Registry!LLVMTypes

Shaped == OpenCalls /\ Counters /\ Symbols

(* The types of values are types there are.                                *)
LEMMA ValuesAreTypes ==
    ASSUME TypesFound, NamesFound
    PROVE  DOMAIN byllvm \subseteq Registry!LLVMTypes
<1> SUFFICES ASSUME NEW l \in DOMAIN byllvm PROVE l \in Registry!LLVMTypes
  OBVIOUS
<1>1. /\ objects[byllvm[l]] \in Registry!Known
      /\ Registry!LLVM(objects[byllvm[l]]) = l
  BY DEF TypesFound, NamesFound
<1> QED  BY <1>1 DEF Registry!LLVMTypes

LEMMA RegistryTyped ==
    ASSUME Sound, Pointers
    PROVE  Registry!TypeOK
<1>1. TypesFound /\ NamesFound /\ RealFound /\ BooleanFound
  BY DEF Sound, Pointers
<1>2. DOMAIN objects = 1 .. Len(objects) /\ Len(objects) \in Nat
  BY <1>1, SeqLength DEF TypesFound
<1>3. objects \in Seq(Registry!Known)
  <2>1. PICK S : objects \in Seq(S)
    BY <1>1 DEF TypesFound, IsSeq
  <2>2. \A t \in 1 .. Len(objects) : objects[t] \in Registry!Known
    BY <1>1 DEF NamesFound
  <2> QED  BY <2>1, <2>2
<1>4. realType \in 1 .. Len(objects) \cup {Registry!None}
  <2>1. CASE realType # Registry!None
    BY <1>1, <2>1 DEF RealFound, TypesFound, NamesFound
  <2> QED  BY <2>1
<1>5. booleanType \in 1 .. Len(objects) \cup {Registry!None}
  <2>1. CASE booleanType # Registry!None
    BY <1>1, <2>1 DEF BooleanFound, TypesFound, NamesFound
  <2> QED  BY <2>1
<1>6. /\ DOMAIN byname \subseteq Registry!Known
      /\ \A n \in DOMAIN byname : byname[n] \in 1 .. Len(objects)
      /\ \A l \in DOMAIN byllvm : byllvm[l] \in 1 .. Len(objects)
  BY <1>1 DEF TypesFound, NamesFound
<1> QED  BY <1>1, <1>2, <1>3, <1>4, <1>5, <1>6, ValuesAreTypes
         DEF Registry!TypeOK, Registry!Objects

LEMMA MeaningTyped ==
    ASSUME Meaning, Shaped
    PROVE  TypeOK
<1>1. Registry!TypeOK
  BY RegistryTyped DEF Meaning
<1>2. ASSUME NEW i \in DOMAIN calls PROVE calls[i] \in CallRecords
  <2> DEFINE c == calls[i]
  <2>1. i \in 1 .. Len(calls)
    BY SeqLength DEF Meaning, Sound, CallsSound
  <2>2. CallShaped(c, started) /\ CallOK(c, DOMAIN byllvm)
    BY <2>1 DEF Shaped, OpenCalls, Meaning, Sound, CallsSound, Registry!ValueTypes
  <2>3. c.at \in 1 .. MaxCalls
    BY <2>2, BoundsAssumption DEF CallShaped, Shaped, Counters
  <2> HIDE DEF c
  <2>4. Len(c.args) \in 0..3
    <3>1. PICK k \in Nat : k = Len(c.args)
      BY <2>2, SeqLength DEF CallOK
    <3>2. c.count \in 0..3 /\ k <= c.count
      BY <2>2, <3>1 DEF CallShaped
    <3>3. k \in 0..3
      BY <3>2
    <3> QED  BY <3>1, <3>3
  <2>5. c.args \in [1 .. Len(c.args) -> Registry!LLVMTypes]
    <3>1. \A j \in 1 .. Len(c.args) : c.args[j] \in Registry!LLVMTypes
      BY <2>2, ValuesAreTypes DEF CallOK, Meaning, Sound, Pointers
    <3>2. PICK S : c.args \in Seq(S)
      BY <2>2 DEF CallOK, IsSeq
    <3> QED  BY <3>1, <3>2
  <2>6. c.args \in UNION {[1..n -> Registry!LLVMTypes] : n \in 0..3}
    BY <2>4, <2>5
  <2> QED  BY <2>2, <2>3, <2>6 DEF CallRecords, CallShaped, CallOK, c
<1>3. stage = "check" => calls # <<>> /\ index \in 1 .. Len(Top.args) + 1
  BY TopCounted DEF Meaning, Sound, CallsSound, Checked
<1> QED  BY <1>1, <1>2, <1>3 DEF TypeOK, Shaped, Counters, Symbols

(* The calls that are left when the innermost one is taken away, and a     *)
(* value given to the one around it.                                       *)
LEMMA WithShaped ==
    ASSUME NEW s, IsSeq(s), NEW n \in 0 .. Len(s) - 1, NEW m,
           \A i \in 1 .. Len(s) : CallShaped(s[i], m) /\ IsSeq(s[i].args),
           \A i \in 1 .. Len(s) - 1 : Len(s[i].args) < s[i].count,
           Len(s[n + 1].args) < s[n + 1].count, NEW l
    PROVE  LET r == Append(SubSeq(s, 1, n), With(s[n + 1], l)) IN
           /\ \A i \in 1 .. Len(r) : CallShaped(r[i], m)
           /\ \A i \in 1 .. Len(r) - 1 : Len(r[i].args) < r[i].count
<1> DEFINE p == SubSeq(s, 1, n)
           c == With(s[n + 1], l)
           r == Append(p, c)
<1>0. Len(s) \in Nat
  BY SeqLength
<1>1. IsSeq(p) /\ Len(p) = n /\ \A i \in 1 .. n : p[i] = s[i]
  BY <1>0, PrefixSeq
<1>2. CallShaped(c, m)
  <2> DEFINE d == s[n + 1]
  <2>1. CallShaped(d, m) /\ IsSeq(d.args) /\ Len(d.args) < d.count
    BY <1>0
  <2> HIDE DEF d
  <2>2. Len(d.args) \in Nat /\ Len(Append(d.args, l)) = Len(d.args) + 1
    BY <2>1, SeqLength, AppendSeq
  <2> QED  BY <2>1, <2>2 DEF CallShaped, With, d
<1> HIDE DEF p, c
<1>3. /\ Len(r) = n + 1 /\ r[n + 1] = c
      /\ \A i \in 1 .. n : r[i] = p[i]
  BY <1>1, AppendSeq
<1> HIDE DEF r
<1>4. ASSUME NEW i \in 1 .. Len(r) PROVE CallShaped(r[i], m)
  <2>1. CASE i = n + 1
    BY <1>2, <1>3, <2>1
  <2>2. CASE i # n + 1
    <3>1. i \in 1 .. n /\ i \in 1 .. Len(s)
      BY <1>0, <1>3, <2>2
    <3>2. r[i] = s[i]
      BY <1>1, <1>3, <3>1
    <3> QED  BY <3>1, <3>2
  <2> QED  BY <2>1, <2>2
<1>5. ASSUME NEW i \in 1 .. Len(r) - 1 PROVE Len(r[i].args) < r[i].count
  <2>1. i \in 1 .. n /\ i \in 1 .. Len(s) - 1 /\ r[i] = s[i]
    BY <1>0, <1>1, <1>3
  <2> QED  BY <2>1
<1> QED  BY <1>4, <1>5 DEF r, p, c

(* Calls that are as they were, or gone, still have their shape.           *)
LEMMA OpenKeep ==
    ASSUME OpenCalls, calls' = calls, started' = started
    PROVE  OpenCalls'
BY DEF OpenCalls

LEMMA NothingOpen ==
    ASSUME calls' = <<>>
    PROVE  OpenCalls'
BY NothingSeq DEF OpenCalls

LEMMA BeginShaped ==
    ASSUME Meaning, Shaped, NEW f \in Callable, NEW n \in 0..3, Begin(f, n)
    PROVE  Shaped'
<1>1. /\ started \in Nat /\ started' = started + 1 /\ started' \in 0 .. MaxCalls
      /\ UNCHANGED <<compiler, position, first>>
      /\ stage' \in {"script", "thrown"}
  BY BoundsAssumption DEF Begin, Shaped, Counters
<1>2. Counters' /\ Symbols'
  BY <1>1 DEF Shaped, Counters, Symbols, Registry!LLVMTypes, Registry!Known,
              Registry!Scalars
<1>3. CASE calls' = <<>>
  BY <1>2, <1>3, NothingOpen DEF Shaped
<1>4. CASE ~ (calls' = <<>>)
  <2> DEFINE c == [fn |-> f, count |-> n, args |-> <<>>, at |-> started']
  <2>1. calls' = Append(calls, c) /\ (calls # <<>> => Len(Top.args) < Top.count)
    BY <1>4 DEF Begin
  <2>2. PICK k \in Nat : k = Len(calls)
    BY SeqLength DEF Meaning, Sound, CallsSound
  <2>3. CallShaped(c, started')
    BY <1>1, NothingSeq DEF CallShaped
  <2> HIDE DEF c
  <2>4. /\ Len(calls') = k + 1 /\ calls'[k + 1] = c
        /\ \A i \in 1 .. k : calls'[i] = calls[i]
    BY <2>1, <2>2, AppendSeq DEF Meaning, Sound, CallsSound
  <2>5. ASSUME NEW i \in 1 .. k PROVE CallShaped(calls'[i], started')
    <3>1. CallShaped(calls[i], started)
      BY <2>2 DEF Shaped, OpenCalls
    <3> QED  BY <1>1, <2>4, <3>1 DEF CallShaped
  <2>6. ASSUME NEW i \in 1 .. k PROVE Len(calls'[i].args) < calls'[i].count
    <3>1. CASE i = k
      <4>1. calls # <<>> /\ Top = calls[k]
        BY <2>2, SeqLength DEF Meaning, Sound, CallsSound, Top
      <4> QED  BY <2>1, <2>4, <3>1, <4>1
    <3>2. CASE i # k
      BY <2>2, <2>4, <3>2 DEF Shaped, OpenCalls
    <3> QED  BY <3>1, <3>2
  <2>7. OpenCalls'
    <3>1. \A i \in 1 .. Len(calls') : CallShaped(calls'[i], started')
      BY <2>2, <2>3, <2>4, <2>5
    <3>2. \A i \in 1 .. Len(calls') - 1 : Len(calls'[i].args) < calls'[i].count
      BY <2>2, <2>4, <2>6
    <3> QED  BY <3>1, <3>2 DEF OpenCalls
  <2> QED  BY <1>2, <2>7 DEF Shaped
<1> QED  BY <1>3, <1>4

LEMMA ArgumentShaped ==
    ASSUME Meaning, Shaped, NEW l \in Registry!ValueTypes, Argument(l)
    PROVE  OpenCalls'
<1>1. PICK k \in Nat \ {0} : k = Len(calls)
  BY SeqLength DEF Argument, Meaning, Sound, CallsSound
<1>2. /\ calls' = Append(SubSeq(calls, 1, k - 1), With(calls[(k - 1) + 1], l))
      /\ Len(calls[(k - 1) + 1].args) < calls[(k - 1) + 1].count
  BY <1>1 DEF Argument, Below, Top
<1>3. /\ \A i \in 1 .. Len(calls) :
            CallShaped(calls[i], started) /\ IsSeq(calls[i].args)
      /\ \A i \in 1 .. Len(calls) - 1 : Len(calls[i].args) < calls[i].count
      /\ IsSeq(calls)
  BY DEF Shaped, OpenCalls, Meaning, Sound, CallsSound, CallOK
<1> DEFINE n == k - 1
<1>4. n \in 0 .. Len(calls) - 1
  BY <1>1
<1> HIDE DEF n
<1>5. /\ \A i \in 1 .. Len(calls') : CallShaped(calls'[i], started)
      /\ \A i \in 1 .. Len(calls') - 1 : Len(calls'[i].args) < calls'[i].count
  BY <1>2, <1>3, <1>4, WithShaped DEF n
<1>6. started' = started
  BY DEF Argument
<1> QED  BY <1>5, <1>6 DEF OpenCalls

LEMMA GiveShaped ==
    ASSUME Meaning, Shaped, calls # <<>>, NEW l, Give(l), started' = started
    PROVE  OpenCalls'
<1>1. PICK k \in Nat \ {0} : k = Len(calls)
  BY SeqLength DEF Meaning, Sound, CallsSound
<1>2. calls' = IF k = 1 THEN <<>>
               ELSE Append(SubSeq(calls, 1, k - 2), With(calls[k - 1], l))
  BY <1>1 DEF Give
<1>3. CASE k = 1
  BY <1>2, <1>3, NothingOpen
<1>4. CASE k > 1
  <2> DEFINE n == k - 2
  <2>1. n \in 0 .. Len(calls) - 1 /\ n + 1 = k - 1 /\ n + 1 \in 1 .. Len(calls) - 1
    BY <1>1, <1>4
  <2>2. calls' = Append(SubSeq(calls, 1, n), With(calls[n + 1], l))
    BY <1>2, <1>4, <2>1
  <2> HIDE DEF n
  <2>3. /\ \A i \in 1 .. Len(calls) :
              CallShaped(calls[i], started) /\ IsSeq(calls[i].args)
        /\ \A i \in 1 .. Len(calls) - 1 : Len(calls[i].args) < calls[i].count
        /\ IsSeq(calls)
    BY DEF Shaped, OpenCalls, Meaning, Sound, CallsSound, CallOK
  <2>4. Len(calls[n + 1].args) < calls[n + 1].count
    BY <2>1, <2>3
  <2>5. /\ \A i \in 1 .. Len(calls') : CallShaped(calls'[i], started)
        /\ \A i \in 1 .. Len(calls') - 1 : Len(calls'[i].args) < calls'[i].count
    BY <2>1, <2>2, <2>3, <2>4, WithShaped
  <2> QED  BY <2>5 DEF OpenCalls
<1> QED  BY <1>3, <1>4

LEMMA InitShaped == Init => Shaped
<1> SUFFICES ASSUME Init PROVE Shaped
  OBVIOUS
<1>1. Real \in Registry!LLVMTypes
  BY DEF Real, Registry!LLVMTypes, Registry!Known, Registry!Scalars
<1>2. Symbols
  BY <1>1 DEF Init, Symbols, Unset
<1> QED  BY <1>2, NothingSeq, BoundsAssumption DEF Init, Shaped, OpenCalls, Counters

LEMMA StepShaped ==
    ASSUME Meaning, Shaped, [Next]_vars
    PROVE  Shaped'
<1> USE DEF Shaped, Registry!LLVMTypes, Registry!Known, Registry!Scalars
<1>1. CASE Construct \/ Mention
  BY <1>1, OpenKeep DEF Construct, Mention, Counters, Symbols
<1>2. ASSUME NEW f \in Callable, NEW n \in 0..3, Begin(f, n) PROVE Shaped'
  BY <1>2, BeginShaped
<1>3. ASSUME NEW l \in Registry!ValueTypes, Argument(l) PROVE Shaped'
  BY <1>3, ArgumentShaped DEF Argument, Counters, Symbols
<1>4. CASE Emit
  <2>1. /\ UNCHANGED <<compiler, started, first>> /\ position' = Top.at
        /\ stage' \in {"check", "thrown"} /\ (calls' = calls \/ calls' = <<>>)
    BY <1>4 DEF Emit, Fail
  <2>2. Top.at \in 1 .. started
    <3>1. Len(calls) \in 1 .. Len(calls)
      BY <1>4, SeqLength DEF Emit, Meaning, Sound, CallsSound
    <3>2. CallShaped(Top, started)
      BY <3>1 DEF OpenCalls, Top
    <3> QED  BY <3>2 DEF CallShaped
  <2> QED  BY <2>1, <2>2, OpenKeep, NothingOpen DEF Counters, Symbols
<1>5. CASE CheckParameter
  <2>1. /\ UNCHANGED <<compiler, started, position>>
        /\ stage' \in {"check", "thrown", "aborted"} /\ (calls' = calls \/ calls' = <<>>)
        /\ first' = RememberFirst(Top.fn, Top.args[index])
        /\ Top.args[index] \in DOMAIN byllvm
    BY <1>5, TopCounted DEF CheckParameter, TypeError, Fail, Meaning
  <2>2. Top.args[index] \in Registry!LLVMTypes
    BY <2>1, ValuesAreTypes DEF Meaning, Sound, Pointers
  <2>3. Symbols'
    <3>1. ASSUME NEW g \in DOMAIN first'
          PROVE  first'[g].by \in 0 .. compiler /\ first'[g].type \in Registry!LLVMTypes
      <4>1. g \in DOMAIN first
        BY <2>1 DEF RememberFirst
      <4>2. \/ first'[g] = first[g]
            \/ first'[g] = [by |-> compiler, type |-> Top.args[index]]
        BY <2>1, <4>1 DEF RememberFirst
      <4>3. compiler \in 0 .. compiler
        BY DEF Counters
      <4> QED  BY <2>2, <4>1, <4>2, <4>3 DEF Symbols
    <3> QED  BY <2>1, <3>1 DEF Symbols
  <2> QED  BY <2>1, <2>3, OpenKeep, NothingOpen DEF Counters
<1>6. CASE Complete
  <2>1. /\ UNCHANGED <<compiler, started, position, first>>
        /\ stage' \in {"script", "thrown", "aborted", "malformed"}
        /\ calls # <<>>
    BY <1>6 DEF Complete, Fail, Outcome, Meaning, Sound, CallsSound
  <2>2. OpenCalls'
    <3>1. CASE Give(Value(Top.fn, Top.args))
      BY <2>1, <3>1, GiveShaped
    <3>2. CASE calls' = <<>>
      BY <3>2, NothingOpen
    <3> QED  BY <1>6, <3>1, <3>2 DEF Complete, Fail
  <2> QED  BY <2>1, <2>2 DEF Counters, Symbols
<1>7. CASE NextCompiler
  <2>1. /\ compiler' = compiler + 1 /\ compiler' <= MaxCompilers
        /\ calls' = <<>> /\ stage' = "script" /\ position' = 0
        /\ UNCHANGED <<started, first>>
    BY <1>7, BoundsAssumption DEF NextCompiler, Counters
  <2>2. Symbols'
    BY <2>1 DEF Symbols, Counters
  <2> QED  BY <2>1, <2>2, NothingOpen, BoundsAssumption DEF Counters
<1>8. CASE UNCHANGED vars
  BY <1>8, OpenKeep DEF vars, Counters, Symbols
<1> QED  BY <1>1, <1>2, <1>3, <1>4, <1>5, <1>6, <1>7, <1>8 DEF Next

-----------------------------------------------------------------------------
(* A call that is emitted has the arguments and the value that the         *)
(* documentation gives it, unless it is of the maths library, although     *)
(* emitCall() knows its arguments by their LLVM types only, whatever types *)
(* have been asked for before and however calls nest.                      *)
THEOREM EmissionDocumented == Spec => []EmittedAsDocumented
<1>1. Meaning => EmittedAsDocumented
  BY DEF Meaning, Ended
<1> QED  BY <1>1, InitMeans, StepMeans, PTL DEF Spec

(* No call is refused for the types of its arguments that the              *)
(* documentation allows, except that of an accessor on a vector of more    *)
(* than four elements; and none for the number of its arguments if it      *)
(* documents one with that number.                                         *)
THEOREM RejectionDocumented == Spec => []RejectedOnlyIfWrong
<1>1. Meaning => RejectedOnlyIfWrong
  BY DEF Meaning, Ended
<1> QED  BY <1>1, InitMeans, StepMeans, PTL DEF Spec

(* No call fails an assertion, yields a malformed instruction or reads its *)
(* value from the wrong place but those that KnownFailures describes, and  *)
(* the variables keep their types.                                         *)
THEOREM FailuresKnown == Spec => []FailsOnlyAsKnown
<1>1. Init => Meaning /\ Shaped
  BY InitMeans, InitShaped
<1>2. Meaning /\ Shaped /\ [Next]_vars => (Meaning /\ Shaped)'
  BY StepMeans, StepShaped
<1>3. Meaning /\ Shaped => FailsOnlyAsKnown
  BY MeaningTyped DEF FailsOnlyAsKnown, Meaning, Ended
<1> QED  BY <1>1, <1>2, <1>3, PTL DEF Spec
=============================================================================
