------------------------- MODULE TypeRegistryProofs -------------------------
(***************************************************************************)
(* Proofs about the type registry, for any set of requests, any aliases    *)
(* and any vector types.                                                   *)
(***************************************************************************)
EXTENDS TypeRegistry, TLAPS

(***************************************************************************)
(* The inductive invariant.  The two maps and the objects agree: the       *)
(* object of a name has that name and every object is the object of its    *)
(* name; every LLVM type in use leads to some object that has it.          *)
(***************************************************************************)
NamesAgree ==
    /\ \A n \in DOMAIN byname : objects[byname[n]] = n
    /\ \A t \in Objects : objects[t] \in DOMAIN byname /\ byname[objects[t]] = t

LLVMTypesAgree ==
    /\ \A l \in DOMAIN byllvm : LLVMOf(byllvm[l]) = l
    /\ \A t \in Objects : LLVMOf(t) \in DOMAIN byllvm

(* The types that the compiler caches.                                     *)
Cached ==
    /\ realType # None => objects[realType] = "real"
    /\ booleanType # None => objects[booleanType] = "boolean"

Consistent ==
    /\ TypeOK
    /\ NamesAgree
    /\ LLVMTypesAgree
    /\ Cached
    /\ OperatorsDefined

-----------------------------------------------------------------------------
(* The LLVM type of a scalar has no lanes, the one of a vector has some.   *)
LEMMA VectorLanes ==
    ASSUME NEW n \in Known
    PROVE  /\ LLVM(n) \in LLVMTypes
           /\ n \in DOMAIN Lanes => LLVM(n) # LLVM("real")
           /\ n = "boolean" => LLVM(n) # LLVM("real")
<1>1. LLVM(n) \in LLVMTypes
  BY DEF LLVMTypes
<1>2. \A s \in Scalars : s \notin DOMAIN Lanes
  BY LanesAssumption
<1>3. LLVM("real") = [of |-> "fp", lanes |-> 0]
  BY <1>2 DEF LLVM, Scalars
<1>4. n = "boolean" => LLVM(n) # LLVM("real")
  BY <1>3 DEF LLVM
<1>5. ASSUME n \in DOMAIN Lanes
      PROVE  LLVM(n) # LLVM("real")
  <2>1. n # "boolean" /\ Lanes[n] # 0
    BY <1>2, <1>5, LanesAssumption DEF Scalars
  <2>2. LLVM(n).lanes = Lanes[n]
    BY <1>5, <2>1 DEF LLVM
  <2>3. LLVM("real").lanes = 0
    BY <1>3
  <2> QED  BY <2>1, <2>2, <2>3
<1> QED  BY <1>1, <1>4, <1>5

(* What a new object leaves as it was.                                     *)
LEMMA CreateObject ==
    ASSUME Consistent, NEW n \in Known, n \notin DOMAIN byname, Create(n, n)
    PROVE  LET new == Len(objects) + 1 IN
           /\ objects' \in Seq(Known)
           /\ Objects' = Objects \cup {new} /\ new \notin Objects /\ new # None
           /\ objects'[new] = n
           /\ \A t \in Objects : objects'[t] = objects[t]
           /\ DOMAIN byname' = DOMAIN byname \cup {n}
           /\ byname'[n] = new
           /\ \A x \in DOMAIN byname : byname'[x] = byname[x]
           /\ DOMAIN byllvm' = DOMAIN byllvm \cup {LLVM(n)}
           /\ byllvm'[LLVM(n)] = new
           /\ \A l \in DOMAIN byllvm : l # LLVM(n) => byllvm'[l] = byllvm[l]
<1> DEFINE new == Len(objects) + 1
<1>1. objects \in Seq(Known) /\ objects' = Append(objects, n)
  BY DEF Consistent, TypeOK, Create
<1>2. /\ objects' \in Seq(Known) /\ Len(objects') = new
      /\ objects'[new] = n
      /\ \A t \in Objects : objects'[t] = objects[t]
  BY <1>1 DEF Objects
<1>3. Objects' = Objects \cup {new} /\ new \notin Objects /\ new # None
  BY <1>1, <1>2 DEF Objects, None
<1>4. byname' = Put(byname, n, new) /\ byllvm' = Put(byllvm, LLVM(n), new)
  BY <1>2 DEF Create
<1>5. /\ DOMAIN byname' = DOMAIN byname \cup {n}
      /\ byname'[n] = new
      /\ \A x \in DOMAIN byname : byname'[x] = byname[x]
  BY <1>4 DEF Put
<1>6. /\ DOMAIN byllvm' = DOMAIN byllvm \cup {LLVM(n)}
      /\ byllvm'[LLVM(n)] = new
      /\ \A l \in DOMAIN byllvm : l # LLVM(n) => byllvm'[l] = byllvm[l]
  BY <1>4 DEF Put
<1> QED  BY <1>2, <1>3, <1>5, <1>6

(* The caches and the last operation after a step that keeps all objects.  *)
LEMMA Rests ==
    ASSUME Consistent, Objects \subseteq Objects',
           \A t \in Objects : objects'[t] = objects[t],
           UNCHANGED <<realType, booleanType>>
    PROVE  /\ realType' \in Objects' \cup {None} /\ booleanType' \in Objects' \cup {None}
           /\ Cached'
BY DEF Consistent, TypeOK, Cached

-----------------------------------------------------------------------------
(* find() of a name keeps the maps consistent, whether it creates a type   *)
(* or not, and leaves every object and every name alone.                   *)
LEMMA FindKeeps ==
    ASSUME Consistent, NEW m, Find(m)
    PROVE  /\ objects' \in Seq(Known)
           /\ Objects \subseteq Objects'
           /\ \A t \in Objects : objects'[t] = objects[t]
           /\ DOMAIN byname \subseteq DOMAIN byname' /\ DOMAIN byname' \subseteq Known
           /\ \A n \in DOMAIN byname : byname'[n] = byname[n]
           /\ \A n \in DOMAIN byname' : byname'[n] \in Objects'
           /\ DOMAIN byllvm' \subseteq LLVMTypes
           /\ \A l \in DOMAIN byllvm' : byllvm'[l] \in Objects'
           /\ NamesAgree' /\ LLVMTypesAgree'
           /\ Unaliased(m) \in Known => Unaliased(m) \in DOMAIN byname'
<1> DEFINE n == Unaliased(m)
<1>1. CASE n \in DOMAIN byname \/ n \notin Known
  <2>1. UNCHANGED <<objects, byname, byllvm>>
    BY <1>1 DEF Find
  <2> QED  BY <1>1, <2>1 DEF Consistent, TypeOK, NamesAgree, LLVMTypesAgree, Objects, LLVMOf
<1>2. CASE n \in Known /\ n \notin DOMAIN byname
  <2> DEFINE new == Len(objects) + 1
  <2>1. Create(n, n)
    BY <1>2 DEF Find
  <2>2. /\ objects' \in Seq(Known)
        /\ Objects' = Objects \cup {new} /\ new \notin Objects
        /\ objects'[new] = n
        /\ \A t \in Objects : objects'[t] = objects[t]
    BY <1>2, <2>1, CreateObject
  <2>3. /\ DOMAIN byname' = DOMAIN byname \cup {n}
        /\ byname'[n] = new
        /\ \A x \in DOMAIN byname : byname'[x] = byname[x]
    BY <1>2, <2>1, CreateObject
  <2>4. /\ DOMAIN byllvm' = DOMAIN byllvm \cup {LLVM(n)}
        /\ byllvm'[LLVM(n)] = new
        /\ \A l \in DOMAIN byllvm : l # LLVM(n) => byllvm'[l] = byllvm[l]
    BY <1>2, <2>1, CreateObject
  <2>5. /\ \A x \in DOMAIN byname : byname[x] \in Objects
        /\ \A l \in DOMAIN byllvm : byllvm[l] \in Objects
        /\ DOMAIN byname \subseteq Known /\ DOMAIN byllvm \subseteq LLVMTypes
    BY DEF Consistent, TypeOK
  <2>6. NamesAgree'
    <3>1. \A x \in DOMAIN byname' : objects'[byname'[x]] = x
      BY <2>2, <2>3, <2>5 DEF Consistent, NamesAgree
    <3>2. \A t \in Objects' : objects'[t] \in DOMAIN byname' /\ byname'[objects'[t]] = t
      BY <2>2, <2>3 DEF Consistent, NamesAgree
    <3> QED  BY <3>1, <3>2 DEF NamesAgree
  <2>7. LLVMTypesAgree'
    <3>1. ASSUME NEW l \in DOMAIN byllvm'
          PROVE  LLVM(objects'[byllvm'[l]]) = l
      <4>1. CASE l = LLVM(n)
        BY <4>1, <2>2, <2>4
      <4>2. CASE l # LLVM(n)
        <5>1. l \in DOMAIN byllvm /\ LLVM(objects[byllvm[l]]) = l
          BY <3>1, <4>2, <2>4 DEF Consistent, LLVMTypesAgree, LLVMOf
        <5> QED  BY <5>1, <4>2, <2>2, <2>4, <2>5
      <4> QED  BY <4>1, <4>2
    <3>2. ASSUME NEW t \in Objects'
          PROVE  LLVM(objects'[t]) \in DOMAIN byllvm'
      <4>1. \A u \in Objects : LLVM(objects[u]) \in DOMAIN byllvm
        BY DEF Consistent, LLVMTypesAgree, LLVMOf
      <4> QED  BY <4>1, <2>2, <2>4
    <3> QED  BY <3>1, <3>2 DEF LLVMTypesAgree, LLVMOf
  <2>8. LLVM(n) \in LLVMTypes
    BY <1>2, VectorLanes
  <2> QED  BY <1>2, <2>2, <2>3, <2>4, <2>5, <2>6, <2>7, <2>8
<1> QED  BY <1>1, <1>2

(* A step of the registry that leaves the operators alone.                 *)
LEMMA FindStep ==
    ASSUME Consistent, NEW m, Find(m), UNCHANGED operation,
           realType' \in Objects' \cup {None}, booleanType' \in Objects' \cup {None},
           Cached'
    PROVE  Consistent'
<1>1. TypeOK' /\ NamesAgree' /\ LLVMTypesAgree'
  BY FindKeeps DEF TypeOK
<1>2. OperatorsDefined'
  BY FindKeeps DEF Consistent, OperatorsDefined
<1> QED  BY <1>1, <1>2 DEF Consistent

-----------------------------------------------------------------------------
(* What the operators find while no external type is in use.               *)
LEMMA FoundTypes ==
    ASSUME Consistent, Ready, DOMAIN byname \cap External = {},
           NEW l \in DOMAIN byllvm
    PROVE  LET t == byllvm[l] IN
           /\ LLVMOf(t) = l
           /\ t = realType \/ t = booleanType \/ IsVector(t)
           /\ Equals(t, realType) => t = realType
<1> DEFINE t == byllvm[l]
<1>1. /\ t \in Objects /\ objects[t] \in Known
      /\ objects[t] \in DOMAIN byname /\ byname[objects[t]] = t
      /\ LLVMOf(t) = l
  BY DEF Consistent, TypeOK, NamesAgree, LLVMTypesAgree, Objects
<1>2. objects[realType] = "real" /\ objects[booleanType] = "boolean"
  BY DEF Consistent, Cached, Ready
<1>3. byname["real"] = realType /\ byname["boolean"] = booleanType
  BY <1>2 DEF Consistent, TypeOK, NamesAgree, Ready
<1>4. objects[t] \in {"real", "boolean"} \cup DOMAIN Lanes
  BY <1>1 DEF Known, Scalars, External
<1>5. t = realType \/ t = booleanType \/ IsVector(t)
  BY <1>1, <1>3, <1>4 DEF IsVector
<1>6. Equals(t, realType) => t = realType
  BY <1>1, <1>2, <1>3, <1>4, VectorLanes DEF Equals, LLVMOf
<1> QED  BY <1>1, <1>5, <1>6

LEMMA CompareStep ==
    ASSUME Consistent, Compare PROVE Consistent'
<1>1. UNCHANGED <<objects, byname, byllvm, realType, booleanType>> /\ Ready
  BY DEF Compare
<1>2. TypeOK' /\ NamesAgree' /\ LLVMTypesAgree' /\ Cached'
  BY <1>1 DEF Consistent, TypeOK, NamesAgree, LLVMTypesAgree, Cached, Objects, LLVMOf
<1>3. OperatorsDefined'
  <2>1. PICK l \in DOMAIN byllvm :
            operation' = [op |-> "==", outcome |-> EqualityOf(byllvm[l])]
    BY DEF Compare, ValueTypes
  <2>2. DOMAIN byname \cap External = {} => EqualityOf(byllvm[l]) = "compared"
    BY <1>1, FoundTypes DEF EqualityOf
  <2> QED  BY <1>1, <2>1, <2>2 DEF OperatorsDefined
<1> QED  BY <1>2, <1>3 DEF Consistent

LEMMA ArithmeticStep ==
    ASSUME Consistent, Arithmetic PROVE Consistent'
<1>1. UNCHANGED <<objects, byname, byllvm, realType, booleanType>> /\ Ready
  BY DEF Arithmetic
<1>2. TypeOK' /\ NamesAgree' /\ LLVMTypesAgree' /\ Cached'
  BY <1>1 DEF Consistent, TypeOK, NamesAgree, LLVMTypesAgree, Cached, Objects, LLVMOf
<1>3. OperatorsDefined'
  <2>1. PICK l \in DOMAIN byllvm, r \in DOMAIN byllvm :
            /\ Accepted(byllvm[l], byllvm[r])
            /\ operation' = [op |-> "+", lhs |-> l,
                             rhs |-> ConvertRHS(byllvm[l], byllvm[r])]
    BY DEF Arithmetic, ValueTypes
  <2>2. ASSUME DOMAIN byname \cap External = {}
        PROVE  ConvertRHS(byllvm[l], byllvm[r]) = l
    <3> DEFINE t == byllvm[l]
               u == byllvm[r]
    <3>1. LLVMOf(t) = l /\ (Equals(u, realType) => u = realType)
      BY <1>1, <2>2, FoundTypes
    <3>2. CASE IsVector(t) /\ u = realType
      BY <3>1, <3>2 DEF ConvertRHS
    <3>3. CASE ~(IsVector(t) /\ u = realType)
      <4>1. LLVMOf(u) = LLVMOf(t)
        BY <2>1, <3>1, <3>3 DEF Accepted, Equals
      <4> QED  BY <3>1, <3>3, <4>1 DEF ConvertRHS
    <3> QED  BY <3>2, <3>3
  <2> QED  BY <1>1, <2>1, <2>2 DEF OperatorsDefined
<1> QED  BY <1>2, <1>3 DEF Consistent

-----------------------------------------------------------------------------
(* The caches are filled with the objects of their names.                  *)
LEMMA CachedName ==
    ASSUME Consistent, NEW n \in {"real", "boolean"}, Find(n)
    PROVE  byname'[n] \in Objects' /\ objects'[byname'[n]] = n
<1>1. Unaliased(n) = n /\ n \in Known
  BY AliasAssumption DEF Unaliased, Known, Scalars
<1>2. n \in DOMAIN byname'
  BY <1>1, FindKeeps
<1> QED  BY <1>2, FindKeeps DEF NamesAgree

LEMMA ConsistentInit == Init => Consistent
<1> SUFFICES ASSUME Init PROVE Consistent
  OBVIOUS
<1>1. objects = <<>> /\ Objects = {} /\ DOMAIN byname = {} /\ DOMAIN byllvm = {}
  BY DEF Init, Objects
<1> QED
  BY <1>1 DEF Init, Consistent, TypeOK, NamesAgree, LLVMTypesAgree, Cached,
              OperatorsDefined, NoOperation

LEMMA ConsistentStep == Consistent /\ [Next]_vars => Consistent'
<1> SUFFICES ASSUME Consistent, [Next]_vars PROVE Consistent'
  OBVIOUS
<1>1. CASE FindReal
  <2>1. Find("real") /\ realType' = byname'["real"] /\ UNCHANGED <<booleanType, operation>>
    BY <1>1 DEF FindReal
  <2>2. realType' \in Objects' /\ objects'[realType'] = "real"
    BY <2>1, CachedName
  <2>3. booleanType' \in Objects' \cup {None} /\
        (booleanType' # None => objects'[booleanType'] = "boolean")
    BY <2>1, FindKeeps DEF Consistent, TypeOK, Cached
  <2> QED  BY <2>1, <2>2, <2>3, FindStep DEF Cached
<1>2. CASE FindBoolean
  <2>1. /\ Find("boolean") /\ booleanType' = byname'["boolean"]
        /\ UNCHANGED <<realType, operation>>
    BY <1>2 DEF FindBoolean
  <2>2. booleanType' \in Objects' /\ objects'[booleanType'] = "boolean"
    BY <2>1, CachedName
  <2>3. realType' \in Objects' \cup {None} /\
        (realType' # None => objects'[realType'] = "real")
    BY <2>1, FindKeeps DEF Consistent, TypeOK, Cached
  <2> QED  BY <2>1, <2>2, <2>3, FindStep DEF Cached
<1>3. CASE FindNamed
  <2>1. PICK m \in Requests : Find(m)
    BY <1>3 DEF FindNamed
  <2>2. UNCHANGED <<realType, booleanType, operation>>
    BY <1>3 DEF FindNamed
  <2>3. Objects \subseteq Objects' /\ \A t \in Objects : objects'[t] = objects[t]
    BY <2>1, FindKeeps
  <2> QED  BY <2>1, <2>2, <2>3, Rests, FindStep
<1>4. CASE Compare
  BY <1>4, CompareStep
<1>5. CASE Arithmetic
  BY <1>5, ArithmeticStep
<1>6. CASE UNCHANGED vars
  BY <1>6 DEF vars, Consistent, TypeOK, NamesAgree, LLVMTypesAgree, Cached,
              OperatorsDefined, Objects, LLVMOf
<1> QED  BY <1>1, <1>2, <1>3, <1>4, <1>5, <1>6 DEF Next

-----------------------------------------------------------------------------
(* The maps of the registry agree with its objects and with the compiler's *)
(* cached types at all times (calculon_types.h, find() and addType()).     *)
THEOREM RegistryConsistent == Spec => []Consistent
BY ConsistentInit, ConsistentStep, PTL DEF Spec

(* The variables of the registry have their types.                         *)
THEOREM RegistryTypeCorrect == Spec => []TypeOK
<1>1. Consistent => TypeOK
  BY DEF Consistent
<1> QED  BY <1>1, RegistryConsistent, PTL

(* find() of an LLVM type answers, for every type in use, a Type that      *)
(* equals() it, although one LLVM type may have had several objects.       *)
THEOREM LookupsTotal == Spec => []ReverseLookupTotal
<1>1. Consistent => ReverseLookupTotal
  BY DEF Consistent, TypeOK, NamesAgree, LLVMTypesAgree, ReverseLookupTotal, Equals, LLVMOf
<1> QED  BY <1>1, RegistryConsistent, PTL

(* No name ever has two objects.                                           *)
THEOREM NamesUnique == Spec => []OneObjectPerName
<1>1. Consistent => OneObjectPerName
  BY DEF Consistent, NamesAgree, OneObjectPerName
<1> QED  BY <1>1, RegistryConsistent, PTL

(* While no external float or double is in use, == and the arithmetic      *)
(* operators recognise the type of every value.                            *)
THEOREM OperatorsWork == Spec => []OperatorsDefined
<1>1. Consistent => OperatorsDefined
  BY DEF Consistent
<1> QED  BY <1>1, RegistryConsistent, PTL

(* A Type* found by name stays the one that later lookups answer.          *)
THEOREM PointersStayValid == Spec => NamesKeepTypes
<1>1. ASSUME Consistent, [Next]_vars
      PROVE  [\A n \in DOMAIN byname : n \in DOMAIN byname' /\ byname'[n] = byname[n]]_vars
  <2>1. CASE \E m : Find(m)
    BY <1>1, <2>1, FindKeeps
  <2>2. CASE UNCHANGED byname
    BY <2>2
  <2> QED
    BY <1>1, <2>1, <2>2 DEF Next, vars, FindReal, FindBoolean, FindNamed, Compare, Arithmetic
<1> QED  BY <1>1, RegistryConsistent, PTL DEF Spec, NamesKeepTypes
=============================================================================
