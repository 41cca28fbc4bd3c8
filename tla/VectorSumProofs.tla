-------------------------- MODULE VectorSumProofs --------------------------
(***************************************************************************)
(* Proofs about the code of V.sum, for vectors of every size.              *)
(***************************************************************************)
EXTENDS VectorSum, TLAPS

-----------------------------------------------------------------------------
(* Powers of two, as find_power_of_2() builds them and sum_power_of_2()    *)
(* halves them.                                                            *)
LEMMA OneIsPower == IsPower(1)
BY DEF IsPower

LEMMA ParityOfProduct ==
    ASSUME NEW d \in Nat, NEW e \in Nat, NEW n \in Nat, d * e = 2 * n,
           d % 2 # 0
    PROVE  e % 2 = 0
<1>1. PICK p \in Nat : d = 2 * p + 1
  <2>1. d = 2 * (d \div 2) + 1 /\ d \div 2 \in Nat
    OBVIOUS
  <2> QED  BY <2>1
<1>2. d * e = 2 * (p * e) + e /\ p * e \in Nat
  BY <1>1
<1>3. e = 2 * (n - p * e)
  BY <1>2
<1>4. n - p * e \in Int
  BY <1>2
<1> DEFINE q == n - p * e
<1>5. e = 2 * q /\ q \in Int
  BY <1>3, <1>4
<1> HIDE DEF q
<1> QED  BY <1>5

LEMMA DoubleIsPower ==
    ASSUME NEW n \in Nat \ {0}, IsPower(n)
    PROVE  IsPower(2 * n)
<1> SUFFICES ASSUME NEW d \in 1..2 * n, NEW e \in 1..2 * n, d * e = 2 * n,
                    d % 2 # 0
             PROVE  d = 1
  BY DEF IsPower
<1>0. d \in Nat /\ e \in Nat
  OBVIOUS
<1>1. e % 2 = 0
  BY <1>0, ParityOfProduct
<1>2. PICK f \in Nat : e = 2 * f
  <2>1. e = 2 * (e \div 2) /\ e \div 2 \in Nat
    BY <1>1
  <2> QED  BY <2>1
<1>3. f >= 1 /\ d \in Nat /\ d >= 1
  BY <1>2
<1>4. d * f = n
  <2>1. d * e = 2 * (d * f) /\ d * f \in Nat
    BY <1>2, <1>3
  <2> QED  BY <2>1
<1>5. d <= n /\ f <= n
  BY <1>3, <1>4
<1> QED  BY <1>3, <1>4, <1>5 DEF IsPower

LEMMA HalfIsPower ==
    ASSUME NEW n \in Nat, n > 2, IsPower(n)
    PROVE  n = 2 * (n \div 2) /\ n \div 2 \in Nat \ {0} /\ IsPower(n \div 2)
<1>1. n % 2 = 0
  <2>1. n \in 1..n /\ 1 \in 1..n /\ n * 1 = n
    OBVIOUS
  <2> QED  BY <2>1 DEF IsPower
<1>2. n = 2 * (n \div 2) /\ n \div 2 \in Nat \ {0}
  BY <1>1
<1> DEFINE h == n \div 2
<1>3. n = 2 * h /\ h \in Nat \ {0}
  BY <1>2
<1>4. IsPower(h)
  <2> HIDE DEF h
  <2> SUFFICES ASSUME NEW d \in 1..h, NEW e \in 1..h, d * e = h
               PROVE  d = 1 \/ d % 2 = 0
    BY DEF IsPower
  <2>1. d * (2 * e) = n
    <3>1. d * (2 * e) = 2 * (d * e)
      OBVIOUS
    <3> QED  BY <1>3, <3>1
  <2>2. d \in 1..n /\ 2 * e \in 1..n
    BY <1>3
  <2> QED  BY <2>1, <2>2 DEF IsPower
<1> QED  BY <1>2, <1>4

LEMMA HalveRest ==
    ASSUME NEW m \in Nat, NEW p \in Nat, NEW r \in Nat, NEW l \in Nat,
           m + p * r <= l, r > 1
    PROVE  m + (2 * p) * (r \div 2) <= l /\ r \div 2 \in Nat \ {0}
<1> DEFINE h == r \div 2
<1>1. h \in Nat \ {0} /\ 2 * h <= r
  OBVIOUS
<1> HIDE DEF h
<1>2. (2 * p) * h = p * (2 * h) /\ p * (2 * h) <= p * r
  BY <1>1
<1>3. (2 * p) * h \in Nat /\ p * r \in Nat
  BY <1>1
<1>4. m + (2 * p) * h <= l
  BY <1>2, <1>3
<1> QED  BY <1>1, <1>4 DEF h

-----------------------------------------------------------------------------
(* The sum of two disjoint sums, and a lane that exists.                   *)
LEMMA AddDisjoint ==
    ASSUME NEW u, NEW v, u \cap v = {}
    PROVE  Add(u, v) = u \cup v
BY DEF Add

LEMMA LaneThere ==
    ASSUME NEW v \in Seq(Values), NEW i \in Nat, i < Len(v)
    PROVE  Lane(v, i) = v[i + 1] /\ v[i + 1] \in Values
<1>1. i + 1 \in 1..Len(v)
  OBVIOUS
<1>2. i + 1 \in DOMAIN v /\ v[i + 1] \in Values
  BY <1>1
<1> QED  BY <1>2 DEF Lane

-----------------------------------------------------------------------------
LEMMA InitInductive == Init => Inductive
<1> SUFFICES ASSUME Init PROVE Inductive
  OBVIOUS
<1>1. /\ size \in Nat \ {0} /\ size \in Sizes
      /\ source = [i \in 1..size |-> {i}]
      /\ min = 0 /\ results = <<>> /\ part = <<>> /\ stage = "cut"
      /\ rest = 0 /\ power = 1 /\ from = 0 /\ width = 0 /\ total = {}
  BY SizesAssumption DEF Init
<1>2. source \in Seq(Values) /\ Len(source) = size
  BY <1>1 DEF Values, Elements
<1>3. results \in Seq(Values) /\ part \in Seq(Values) /\ Len(results) = 0
  BY <1>1
<1>4. TypeOK
  BY <1>1, <1>2, <1>3 DEF TypeOK, Values
<1>5. PartsFit
  BY <1>1, <1>2 DEF PartsFit
<1>6. Pending = 1..size /\ Kept = {} /\ PartLanes = {}
  BY <1>1, <1>2 DEF Pending, Kept, PartLanes
<1>7. NothingLost
  BY <1>1, <1>6 DEF NothingLost, Elements
<1>8. NothingTwice
  BY <1>1, <1>6 DEF NothingTwice
<1> QED  BY <1>4, <1>5, <1>7, <1>8 DEF Inductive

(* Nothing is added up while a part is being chosen.                       *)
LEMMA SumsUntouched ==
    ASSUME Inductive,
           UNCHANGED <<size, source, results, total>>,
           Pending' = Pending, Kept' = Kept, PartLanes = {}, PartLanes' = {},
           stage # "done", stage' # "done"
    PROVE  NothingLost' /\ NothingTwice'
<1>1. NothingLost'
  BY DEF Inductive, NothingLost, Elements
<1>2. NothingTwice'
  BY DEF Inductive, NothingTwice
<1> QED  BY <1>1, <1>2

LEMMA CutInductive ==
    ASSUME Inductive, Cut
    PROVE  Inductive'
<1>1. /\ stage = "cut" /\ min # Len(source)
      /\ rest' = Len(source) - min /\ power' = 1 /\ stage' = "find"
      /\ UNCHANGED <<size, source, min, results, part, from, width, total>>
  BY DEF Cut
<1>2. Values' = Values
  BY <1>1 DEF Values, Elements
<1>3. min \in 0..Len(source) /\ Len(source) \in Nat
  BY DEF Inductive, TypeOK
<1>4. TypeOK'
  BY <1>1, <1>2, <1>3 DEF Inductive, TypeOK
<1>5. PartsFit'
  BY <1>1, <1>3, OneIsPower DEF Inductive, PartsFit
<1>6. Pending' = Pending /\ Kept' = Kept /\ PartLanes = {} /\ PartLanes' = {}
  BY <1>1 DEF Pending, Kept, PartLanes
<1>7. NothingLost' /\ NothingTwice'
  BY <1>1, <1>6, SumsUntouched
<1> QED  BY <1>4, <1>5, <1>7 DEF Inductive

LEMMA DoublePowerInductive ==
    ASSUME Inductive, DoublePower
    PROVE  Inductive'
<1>1. /\ stage = "find" /\ rest > 1
      /\ rest' = rest \div 2 /\ power' = 2 * power
      /\ UNCHANGED <<size, source, min, results, part, from, width, stage, total>>
  BY DEF DoublePower
<1>2. Values' = Values
  BY <1>1 DEF Values, Elements
<1>3. /\ min \in Nat /\ Len(source) \in Nat /\ rest \in Nat /\ power \in Nat
      /\ min + power * rest <= Len(source) /\ IsPower(power) /\ power > 0
  BY <1>1 DEF Inductive, TypeOK, PartsFit
<1>4. /\ rest' \in Nat \ {0} /\ power' \in Nat
      /\ min' + power' * rest' <= Len(source')
  BY <1>1, <1>3, HalveRest
<1>5. IsPower(power') /\ power' > 0
  BY <1>1, <1>3, DoubleIsPower
<1>6. TypeOK'
  BY <1>1, <1>2, <1>4 DEF Inductive, TypeOK
<1>7. PartsFit'
  BY <1>1, <1>4, <1>5 DEF Inductive, PartsFit
<1>8. Pending' = Pending /\ Kept' = Kept /\ PartLanes = {} /\ PartLanes' = {}
  BY <1>1 DEF Pending, Kept, PartLanes
<1>9. NothingLost' /\ NothingTwice'
  BY <1>1, <1>8, SumsUntouched
<1> QED  BY <1>6, <1>7, <1>9 DEF Inductive

(* The part that is taken is the front of what is pending.                 *)
LEMMA TakePartInductive ==
    ASSUME Inductive, TakePart
    PROVE  Inductive'
<1>1. /\ stage = "find" /\ rest <= 1 /\ stage' = "halve"
      /\ part' = source /\ from' = min /\ width' = power
      /\ UNCHANGED <<size, source, min, results, rest, power, total>>
  BY DEF TakePart
<1>2. Values' = Values
  BY <1>1 DEF Values, Elements
<1>3. /\ min \in Nat /\ Len(source) \in Nat /\ rest = 1 /\ power \in Nat \ {0}
      /\ min + power * rest <= Len(source) /\ IsPower(power)
  BY <1>1 DEF Inductive, TypeOK, PartsFit
<1>4. min + power <= Len(source)
  BY <1>3
<1>5. TypeOK'
  BY <1>1, <1>2 DEF Inductive, TypeOK
<1>6. PartsFit'
  BY <1>1, <1>3, <1>4 DEF Inductive, PartsFit
<1>7. /\ Pending = min + 1 .. Len(source) /\ PartLanes = {}
      /\ Pending' = min + power + 1 .. Len(source)
      /\ PartLanes' = min + 1 .. min + power
      /\ Kept' = Kept
  BY <1>1 DEF Pending, PartLanes, Kept
<1>8. /\ Pending = Pending' \cup PartLanes'
      /\ \A i \in Pending', j \in PartLanes' : i # j
  BY <1>3, <1>4, <1>7
<1>9. NothingLost'
  BY <1>1, <1>7, <1>8 DEF Inductive, NothingLost, Elements
<1>10. NothingTwice'
  BY <1>1, <1>7, <1>8 DEF Inductive, NothingTwice
<1> QED  BY <1>5, <1>6, <1>9, <1>10 DEF Inductive

(* Lane i of the half is the sum of two lanes of the part that no other    *)
(* lane of the half takes.                                                 *)
LEMMA HalveInductive ==
    ASSUME Inductive, Halve
    PROVE  Inductive'
<1> DEFINE half == width \div 2
<1>1. /\ stage = "halve" /\ width > 2 /\ stage' = stage
      /\ part' = [i \in 1..half |-> Add(Lane(part, from + i - 1),
                                       Lane(part, from + half + i - 1))]
      /\ from' = 0 /\ width' = half
      /\ UNCHANGED <<size, source, min, results, rest, power, total>>
  BY DEF Halve
<1>2. Values' = Values
  BY <1>1 DEF Values, Elements
<1>3. /\ from \in Nat /\ width \in Nat /\ from + width <= Len(part)
      /\ part \in Seq(Values) /\ Len(part) \in Nat /\ IsPower(width)
  BY <1>1 DEF Inductive, TypeOK, PartsFit
<1>4. width = 2 * half /\ half \in Nat \ {0} /\ IsPower(half)
  BY <1>1, <1>3, HalfIsPower
<1> HIDE DEF half
<1>5. PartLanes = from + 1 .. from + 2 * half /\ PartLanes' = 1..half
  BY <1>1, <1>4 DEF PartLanes
<1>6. ASSUME NEW i \in 1..half
      PROVE  /\ from + i \in PartLanes /\ from + half + i \in PartLanes
             /\ from + i # from + half + i
             /\ part'[i] = part[from + i] \cup part[from + half + i]
             /\ part[from + i] \in Values /\ part[from + half + i] \in Values
  <2>1. /\ from + i \in PartLanes /\ from + half + i \in PartLanes
        /\ from + i # from + half + i
    BY <1>3, <1>4, <1>5
  <2>2. part[from + i] \cap part[from + half + i] = {}
    BY <2>1 DEF Inductive, NothingTwice
  <2>3. /\ from + i - 1 \in Nat /\ from + half + i - 1 \in Nat
        /\ from + i - 1 < Len(part) /\ from + half + i - 1 < Len(part)
        /\ (from + i - 1) + 1 = from + i
        /\ (from + half + i - 1) + 1 = from + half + i
    BY <1>3, <1>4
  <2>4. /\ Lane(part, from + i - 1) = part[from + i]
        /\ Lane(part, from + half + i - 1) = part[from + half + i]
        /\ part[from + i] \in Values /\ part[from + half + i] \in Values
    BY <1>3, <2>3, LaneThere
  <2>5. part'[i] = Add(Lane(part, from + i - 1), Lane(part, from + half + i - 1))
    BY <1>1
  <2>6. Add(part[from + i], part[from + half + i])
            = part[from + i] \cup part[from + half + i]
    BY <2>2, AddDisjoint
  <2> QED  BY <2>1, <2>4, <2>5, <2>6
<1>7. part' \in Seq(Values) /\ Len(part') = half
  <2>1. \A i \in 1..half : part'[i] \in Values
    BY <1>6 DEF Values
  <2>2. part' = [i \in 1..half |-> part'[i]]
    BY <1>1
  <2> QED  BY <1>4, <2>1, <2>2
<1>8. TypeOK'
  BY <1>1, <1>2, <1>4, <1>7 DEF Inductive, TypeOK
<1>9. PartsFit'
  BY <1>1, <1>4, <1>7 DEF Inductive, PartsFit
<1>10. Pending' = Pending /\ Kept' = Kept
  BY <1>1 DEF Pending, Kept
<1>11. ASSUME NEW k \in PartLanes
       PROVE  \E i \in 1..half : k = from + i \/ k = from + half + i
  <2>1. CASE k <= from + half
    <3>1. k - from \in 1..half /\ k = from + (k - from)
      BY <1>3, <1>4, <1>5, <2>1
    <3> QED  BY <3>1
  <2>2. CASE k > from + half
    <3>1. k - from - half \in 1..half /\ k = from + half + (k - from - half)
      BY <1>3, <1>4, <1>5, <2>2
    <3> QED  BY <3>1
  <2> QED  BY <1>3, <1>4, <1>5, <2>1, <2>2
<1>12. NothingLost'
  <2> SUFFICES ASSUME NEW e \in Elements
               PROVE  \/ \E i \in Pending : e \in source[i]
                      \/ \E i \in Kept : e \in results[i]
                      \/ \E i \in PartLanes' : e \in part'[i]
    BY <1>1, <1>10 DEF NothingLost, Elements
  <2>1. CASE \E k \in PartLanes : e \in part[k]
    <3>1. PICK k \in PartLanes : e \in part[k]
      BY <2>1
    <3>2. PICK i \in 1..half : k = from + i \/ k = from + half + i
      BY <1>11
    <3>3. e \in part'[i]
      BY <1>6, <3>1, <3>2
    <3> QED  BY <1>5, <3>3
  <2> QED  BY <1>1, <2>1 DEF Inductive, NothingLost
<1>13. NothingTwice'
  <2>1. ASSUME NEW i \in 1..half, NEW j \in 1..half, i # j
        PROVE  part'[i] \cap part'[j] = {}
    <3>1. /\ from + i # from + j /\ from + half + i # from + half + j
          /\ from + i # from + half + j /\ from + half + i # from + j
      BY <1>3, <1>4, <2>1
    <3>2. /\ part[from + i] \cap part[from + j] = {}
          /\ part[from + half + i] \cap part[from + half + j] = {}
          /\ part[from + i] \cap part[from + half + j] = {}
          /\ part[from + half + i] \cap part[from + j] = {}
      BY <1>6, <3>1 DEF Inductive, NothingTwice
    <3> QED  BY <1>6, <3>2
  <2>2. ASSUME NEW i \in Pending, NEW j \in 1..half
        PROVE  source[i] \cap part'[j] = {}
    <3>1. /\ source[i] \cap part[from + j] = {}
          /\ source[i] \cap part[from + half + j] = {}
      BY <1>6 DEF Inductive, NothingTwice
    <3> QED  BY <1>6, <3>1
  <2>3. ASSUME NEW i \in Kept, NEW j \in 1..half
        PROVE  results[i] \cap part'[j] = {}
    <3>1. /\ results[i] \cap part[from + j] = {}
          /\ results[i] \cap part[from + half + j] = {}
      BY <1>6 DEF Inductive, NothingTwice
    <3> QED  BY <1>6, <3>1
  <2> QED
    BY <1>1, <1>5, <1>10, <2>1, <2>2, <2>3 DEF Inductive, NothingTwice
<1> QED  BY <1>8, <1>9, <1>12, <1>13 DEF Inductive

(* The sum of the part is one more result, and min passes the part.        *)
LEMMA AddScalarsInductive ==
    ASSUME Inductive, AddScalars
    PROVE  Inductive'
<1> DEFINE sum == IF width = 1 THEN Lane(part, from)
                  ELSE Add(Lane(part, from), Lane(part, from + 1))
<1>1. /\ stage = "halve" /\ width <= 2 /\ stage' = "cut"
      /\ results' = Append(results, sum) /\ min' = min + power
      /\ UNCHANGED <<size, source, rest, power, part, from, width, total>>
  BY DEF AddScalars
<1>2. Values' = Values
  BY <1>1 DEF Values, Elements
<1>3. /\ min \in Nat /\ Len(source) \in Nat /\ power \in Nat \ {0}
      /\ min + power <= Len(source)
      /\ from \in Nat /\ width \in {1, 2} /\ from + width <= Len(part)
      /\ part \in Seq(Values) /\ Len(part) \in Nat
      /\ results \in Seq(Values) /\ Len(results) \in Nat
  BY <1>1 DEF Inductive, TypeOK, PartsFit
<1>4. PartLanes = from + 1 .. from + width
  BY <1>1 DEF PartLanes
<1>5. /\ sum \in Values
      /\ \A e : e \in sum <=> \E k \in PartLanes : e \in part[k]
  <2>1. CASE width = 1
    <3>1. Lane(part, from) = part[from + 1] /\ part[from + 1] \in Values
      BY <1>3, <2>1, LaneThere
    <3>2. \A k : k \in PartLanes <=> k = from + 1
      BY <1>3, <1>4, <2>1
    <3> QED  BY <2>1, <3>1, <3>2
  <2>2. CASE width = 2
    <3>1. /\ Lane(part, from) = part[from + 1] /\ part[from + 1] \in Values
      BY <1>3, <2>2, LaneThere
    <3>2. /\ Lane(part, from + 1) = part[from + 2] /\ part[from + 2] \in Values
      <4>1. from + 1 \in Nat /\ from + 1 < Len(part) /\ (from + 1) + 1 = from + 2
        BY <1>3, <2>2
      <4> QED  BY <1>3, <4>1, LaneThere
    <3>3. \A k : k \in PartLanes <=> k = from + 1 \/ k = from + 2
      BY <1>3, <1>4, <2>2
    <3>4. part[from + 1] \cap part[from + 2] = {}
      <4>1. from + 1 # from + 2
        BY <1>3
      <4> QED  BY <3>3, <4>1 DEF Inductive, NothingTwice
    <3>5. sum = part[from + 1] \cup part[from + 2]
      BY <2>2, <3>1, <3>2, <3>4, AddDisjoint
    <3>6. sum \in Values
      BY <3>1, <3>2, <3>5 DEF Values
    <3> QED  BY <3>3, <3>5, <3>6
  <2> QED  BY <1>3, <2>1, <2>2
<1> HIDE DEF sum
<1> DEFINE n == Len(results) + 1
<1>6. /\ results' \in Seq(Values) /\ Len(results') = n /\ n \in Nat \ {0}
      /\ results'[n] = sum
      /\ \A i \in 1..Len(results) : results'[i] = results[i]
  BY <1>1, <1>3, <1>5
<1>7. TypeOK'
  BY <1>1, <1>2, <1>3, <1>6 DEF Inductive, TypeOK
<1>8. PartsFit'
  BY <1>1, <1>3, <1>6 DEF Inductive, PartsFit
<1>9. /\ Pending' = Pending /\ PartLanes' = {}
      /\ Kept = 1..Len(results) /\ Kept' = 1..n
  <2>1. DOMAIN results = 1..Len(results) /\ DOMAIN results' = 1..n
    BY <1>3, <1>6
  <2> QED  BY <1>1, <2>1 DEF Pending, PartLanes, Kept
<1>10. \A i : i \in Kept' <=> i \in Kept \/ i = n
  BY <1>3, <1>9
<1>11. /\ \A i \in Kept : i # n /\ results'[i] = results[i]
       /\ results'[n] = sum
  BY <1>3, <1>6, <1>9
<1> HIDE DEF n
<1>12. NothingLost'
  <2> SUFFICES ASSUME NEW e \in Elements
               PROVE  \/ \E i \in Pending : e \in source[i]
                      \/ \E i \in Kept' : e \in results'[i]
    BY <1>1, <1>9 DEF NothingLost, Elements
  <2>1. \/ \E i \in Pending : e \in source[i]
        \/ \E i \in Kept : e \in results[i]
        \/ \E i \in PartLanes : e \in part[i]
    BY <1>1 DEF Inductive, NothingLost
  <2> QED  BY <1>5, <1>10, <1>11, <2>1
<1>13. NothingTwice'
  <2>1. ASSUME NEW i \in Kept', NEW j \in Kept', i # j
        PROVE  results'[i] \cap results'[j] = {}
    <3>1. CASE i \in Kept /\ j \in Kept
      BY <1>11, <2>1, <3>1 DEF Inductive, NothingTwice
    <3>2. CASE i \in Kept /\ j = n
      BY <1>5, <1>11, <3>2 DEF Inductive, NothingTwice
    <3>3. CASE i = n /\ j \in Kept
      BY <1>5, <1>11, <3>3 DEF Inductive, NothingTwice
    <3> QED  BY <1>10, <2>1, <3>1, <3>2, <3>3
  <2>2. ASSUME NEW i \in Pending, NEW j \in Kept'
        PROVE  source[i] \cap results'[j] = {}
    <3>1. CASE j \in Kept
      BY <1>11, <3>1 DEF Inductive, NothingTwice
    <3>2. CASE j = n
      BY <1>5, <1>11, <3>2 DEF Inductive, NothingTwice
    <3> QED  BY <1>10, <3>1, <3>2
  <2> QED  BY <1>1, <1>9, <2>1, <2>2 DEF Inductive, NothingTwice
<1> QED  BY <1>7, <1>8, <1>12, <1>13 DEF Inductive

(* One or two results are the sum; more of them are summed as the vector   *)
(* was.                                                                    *)
LEMMA SumResultsInductive ==
    ASSUME Inductive, SumResults
    PROVE  Inductive'
<1>1. /\ stage = "cut" /\ min = Len(source)
      /\ UNCHANGED <<size, rest, power, part, from, width>>
  BY DEF SumResults
<1>2. Values' = Values
  BY <1>1 DEF Values, Elements
<1>3. /\ results \in Seq(Values) /\ Len(results) \in Nat \ {0}
      /\ DOMAIN results = 1..Len(results) /\ Len(source) \in Nat \ {0}
      /\ source \in Seq(Values)
  BY <1>1 DEF Inductive, TypeOK, PartsFit
<1>4. Pending = {} /\ PartLanes = {} /\ Kept = 1..Len(results)
  <2>1. min + 1 .. Len(source) = {}
    BY <1>1, <1>3
  <2> QED  BY <1>1, <1>3, <2>1 DEF Pending, PartLanes, Kept
<1>5. \A e \in Elements : \E i \in 1..Len(results) : e \in results[i]
  BY <1>1, <1>4 DEF Inductive, NothingLost
<1>6. CASE Len(results) <= 2
  <2>1. /\ total' = IF Len(results) = 1 THEN results[1]
                    ELSE Add(results[1], results[2])
        /\ stage' = "done" /\ UNCHANGED <<source, min, results>>
    BY <1>6 DEF SumResults
  <2>2. /\ total' \in Values
        /\ \A i \in 1..Len(results) : \A e \in results[i] : e \in total'
    <3>1. CASE Len(results) = 1
      <4>1. 1 \in 1..Len(results)
        BY <3>1
      <4>2. results[1] \in Values
        BY <1>3, <4>1
      <4>3. \A i \in 1..Len(results) : i = 1
        BY <3>1
      <4> QED  BY <2>1, <3>1, <4>2, <4>3
    <3>2. CASE Len(results) = 2
      <4>1. 1 \in 1..Len(results) /\ 2 \in 1..Len(results) /\ 1 # 2
        BY <3>2
      <4>2. results[1] \in Values /\ results[2] \in Values
        BY <1>3, <4>1
      <4>3. results[1] \cap results[2] = {}
        BY <1>4, <4>1 DEF Inductive, NothingTwice
      <4>4. total' = results[1] \cup results[2]
        BY <2>1, <3>2, <4>3, AddDisjoint
      <4>5. \A i \in 1..Len(results) : i = 1 \/ i = 2
        BY <3>2
      <4>6. total' \in Values
        BY <4>2, <4>4 DEF Values
      <4> QED  BY <4>4, <4>5, <4>6
    <3> QED  BY <1>3, <1>6, <3>1, <3>2
  <2>3. TypeOK'
    BY <1>1, <1>2, <2>1, <2>2 DEF Inductive, TypeOK
  <2>4. PartsFit'
    BY <1>1, <2>1 DEF Inductive, PartsFit
  <2>5. Pending' = {} /\ PartLanes' = {} /\ Kept' = {}
    BY <2>1 DEF Pending, PartLanes, Kept
  <2>6. NothingLost'
    BY <1>1, <1>5, <2>1, <2>2 DEF NothingLost, Elements
  <2>7. NothingTwice'
    BY <2>5 DEF NothingTwice
  <2> QED  BY <2>3, <2>4, <2>6, <2>7 DEF Inductive
<1>7. CASE Len(results) > 2
  <2>1. /\ source' = results /\ min' = 0 /\ results' = <<>>
        /\ UNCHANGED <<total, stage>>
    BY <1>3, <1>7 DEF SumResults
  <2>2. results' \in Seq(Values) /\ Len(results') = 0
    BY <2>1
  <2>3. TypeOK'
    BY <1>1, <1>2, <1>3, <2>1, <2>2 DEF Inductive, TypeOK
  <2>4. PartsFit'
    BY <1>1, <1>3, <2>1, <2>2 DEF Inductive, PartsFit
  <2>5. Pending' = 1..Len(results) /\ PartLanes' = {} /\ Kept' = {}
    BY <1>1, <2>1 DEF Pending, PartLanes, Kept
  <2>6. NothingLost'
    BY <1>1, <1>5, <2>1, <2>5 DEF NothingLost, Elements
  <2>7. NothingTwice'
    BY <1>4, <2>1, <2>5 DEF Inductive, NothingTwice
  <2> QED  BY <2>3, <2>4, <2>6, <2>7 DEF Inductive
<1> QED  BY <1>3, <1>6, <1>7

LEMMA StepInductive == Inductive /\ [Next]_vars => Inductive'
<1> SUFFICES ASSUME Inductive, [Next]_vars PROVE Inductive'
  OBVIOUS
<1>1. CASE Cut
  BY <1>1, CutInductive
<1>2. CASE DoublePower
  BY <1>2, DoublePowerInductive
<1>3. CASE TakePart
  BY <1>3, TakePartInductive
<1>4. CASE Halve
  BY <1>4, HalveInductive
<1>5. CASE AddScalars
  BY <1>5, AddScalarsInductive
<1>6. CASE SumResults
  BY <1>6, SumResultsInductive
<1>7. CASE UNCHANGED vars
  <2>1. TypeOK' /\ PartsFit'
    BY <1>7 DEF vars, Inductive, TypeOK, PartsFit, Values, Elements
  <2>2. Pending' = Pending /\ PartLanes' = PartLanes /\ Kept' = Kept
    BY <1>7 DEF vars, Pending, PartLanes, Kept
  <2>3. NothingLost' /\ NothingTwice'
    BY <1>7, <2>2 DEF vars, Inductive, NothingLost, NothingTwice, Elements
  <2> QED  BY <2>1, <2>3 DEF Inductive
<1> QED  BY <1>1, <1>2, <1>3, <1>4, <1>5, <1>6, <1>7 DEF Next

-----------------------------------------------------------------------------
(* Of the code of V.sum, at every step of its generation: what has been    *)
(* cut, halved and added holds every element of V exactly once, and no     *)
(* lane is read that its vector does not have.                             *)
THEOREM SumsAccounted == Spec => []Inductive
<1> QED  BY InitInductive, StepInductive, PTL DEF Spec

(* V.sum is the sum of all elements of V, each taken once, for vectors of  *)
(* every size: powers of two or not (sum_non_power_of_2()).                *)
THEOREM SumOfEachOnce == Spec => []EachOnce
<1>1. Inductive => EachOnce
  <2> SUFFICES ASSUME Inductive, stage = "done" PROVE total = Elements
    BY DEF EachOnce
  <2>1. Pending = {} /\ PartLanes = {} /\ Kept = {}
    BY DEF Pending, PartLanes, Kept
  <2>2. \A e \in Elements : e \in total
    BY <2>1 DEF Inductive, NothingLost
  <2>3. \A e \in total : e \in Elements
    BY DEF Inductive, TypeOK, Values
  <2> QED  BY <2>2, <2>3
<1> QED  BY <1>1, SumsAccounted, PTL
=============================================================================
