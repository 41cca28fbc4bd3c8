--------------------------- MODULE CodegenProofs ---------------------------
(***************************************************************************)
(* Proofs about the second pass, for every tree: the builder always        *)
(* inserts into the function whose body is being generated; what is used   *)
(* there is of that function and has a value; calls agree with the         *)
(* functions they call; and what can make it fail without an exception.    *)
(*                                                                         *)
(* The first section proves where code is inserted.  The others compare    *)
(* the second pass with what ResolverProofs shows of the first: lemmas on  *)
(* the parts of the invariant (operands, definitions still to be made,     *)
(* values and functions), one of the form So... for each way in which a    *)
(* stack changes, and one of the form ...Generated for each action.        *)
(***************************************************************************)
EXTENDS CodegenInvariant, CodegenScope, ResolverProofs

-----------------------------------------------------------------------------
(* A frame whose first item, not the end of a function, gives way to w.    *)
LEMMA FrameAfter ==
    ASSUME NEW fr, FrameShape(fr), fr.todo # <<>>, fr.todo[1].do # "ret",
           NEW w, IsSeq(w), \A j \in 1 .. Len(w) : w[j].do # "ret"
    PROVE  LET g == Frame(fr.chain, fr.table, w \o Tail(fr.todo)) IN
           /\ FrameShape(g) /\ FunctionOn(g) = FunctionOn(fr)
           /\ EndsFunction(g) <=> EndsFunction(fr)
           /\ EndsFunction(fr) => LastItem(g) = LastItem(fr)
<1> DEFINE t == fr.todo
           r == w \o Tail(t)
           g == Frame(fr.chain, fr.table, r)
<1>1. /\ Len(t) \in Nat \ {0} /\ Len(w) \in Nat
  BY SeqLength DEF FrameShape
<1>2. /\ IsSeq(r) /\ Len(r) = Len(w) + Len(t) - 1
      /\ \A i \in 1 .. Len(w) : r[i] = w[i]
      /\ \A i \in 2 .. Len(t) : r[Len(w) + i - 1] = t[i]
  BY ReplaceFirst DEF FrameShape
<1>3. g.todo = r /\ g.chain = fr.chain
  BY DEF Frame
<1>4. \A j \in 1 .. Len(t) : t[j].do = "ret" => j = Len(t)
  BY DEF FrameShape
<1>5. IsSeq(fr.chain) /\ t # <<>> /\ t[1].do # "ret"
  BY DEF FrameShape
<1> HIDE DEF t, r
<1>6. ASSUME NEW j \in 1 .. Len(r), r[j].do = "ret"
      PROVE  j = Len(r)
  <2>1. j > Len(w)
    BY <1>1, <1>2, <1>6
  <2> DEFINE k == j - Len(w) + 1
  <2>2. k \in 2 .. Len(t) /\ k \in 1 .. Len(t) /\ Len(w) + k - 1 = j
    BY <1>1, <1>2, <2>1
  <2> HIDE DEF k
  <2>3. r[j] = t[k]
    BY <1>2, <2>2
  <2>4. k = Len(t)
    BY <1>4, <1>6, <2>2, <2>3
  <2> QED  BY <1>1, <1>2, <2>2, <2>4
<1>7. CASE Len(t) = 1
  <2>1. ~ EndsFunction(fr)
    BY <1>5, <1>7 DEF EndsFunction, LastItem, t
  <2>2. Len(r) = Len(w)
    BY <1>1, <1>2, <1>7
  <2>3. ~ EndsFunction(g)
    <3>1. CASE Len(w) = 0
      BY <1>2, <1>3, <2>2, <3>1, SeqLength DEF EndsFunction
    <3>2. CASE Len(w) # 0
      <4>1. Len(w) \in 1 .. Len(w)
        BY <1>1, <3>2
      <4> QED  BY <1>2, <1>3, <2>2, <4>1 DEF EndsFunction, LastItem
    <3> QED  BY <3>1, <3>2
  <2> QED  BY <1>2, <1>3, <1>5, <1>6, <2>1, <2>3 DEF FrameShape, FunctionOn, r, t
<1>8. CASE Len(t) # 1
  <2>1. Len(t) \in 2 .. Len(t) /\ Len(w) + Len(t) - 1 = Len(r) /\ Len(r) # 0
    <3> DEFINE m == Len(t)  k == Len(w)  l == Len(r)
    <3>1. l = k + m - 1 /\ m \in Nat \ {0} /\ k \in Nat /\ m # 1
      BY <1>1, <1>2, <1>8
    <3> HIDE DEF m, k, l
    <3>2. m \in 2 .. m /\ k + m - 1 = l /\ l # 0
      BY <3>1
    <3> QED  BY <3>2 DEF m, k, l
  <2>2. r[Len(r)] = t[Len(t)]
    BY <1>2, <2>1
  <2>3. r # <<>>
    BY <1>2, <2>1, SeqLength
  <2>4. LastItem(g) = LastItem(fr)
    BY <1>3, <2>2 DEF LastItem, t
  <2>5. EndsFunction(g) <=> EndsFunction(fr)
    BY <1>3, <1>5, <2>3, <2>4 DEF EndsFunction, t
  <2> QED  BY <1>2, <1>3, <1>5, <1>6, <2>4, <2>5 DEF FrameShape, FunctionOn, r, t
<1> QED  BY <1>7, <1>8

(* The innermost frame works off an item that is not the end of a function.*)
LEMMA WorkOff ==
    ASSUME NEW st, NEW ins, InsertionOK(st, ins),
           st[Len(st)].todo # <<>>, st[Len(st)].todo[1].do # "ret",
           NEW w, IsSeq(w), \A j \in 1 .. Len(w) : w[j].do # "ret"
    PROVE  LET u == Instead(st, w) IN
           /\ InsertionOK(u, ins) /\ Len(u) = Len(st)
           /\ FunctionOn(u[Len(u)]) = ins
           /\ Len(u) > 1 => Anchored(u[Len(u)], u[Len(u) - 1])
<1> DEFINE n == Len(st)
           g == Frame(st[n].chain, st[n].table, w \o Tail(st[n].todo))
           u == [st EXCEPT ![n] = g]
<1>1. n \in Nat /\ n >= 1 /\ n \in 1 .. n /\ IsSeq(st)
  BY SeqLength DEF InsertionOK
<1>2. /\ FrameShape(g) /\ FunctionOn(g) = FunctionOn(st[n])
      /\ EndsFunction(g) <=> EndsFunction(st[n])
      /\ EndsFunction(st[n]) => LastItem(g) = LastItem(st[n])
  <2>1. FrameShape(st[n])
    BY <1>1 DEF InsertionOK
  <2> QED  BY <2>1, FrameAfter
<1>3. /\ IsSeq(u) /\ Len(u) = n /\ u[n] = g
      /\ \A i \in 1 .. n : i # n => u[i] = st[i]
  <2> HIDE DEF g
  <2>1. n \in 1 .. Len(st) /\ IsSeq(st)
    BY <1>1
  <2> HIDE DEF n
  <2> QED  BY <2>1, ReplacedSeq DEF n
<1>4. u = Instead(st, w)
  BY DEF Instead
<1> HIDE DEF g, u
<1>5. ins = FunctionOn(g)
  BY <1>2 DEF InsertionOK
<1>6. \A i \in 1 .. n : FrameShape(u[i])
  BY <1>2, <1>3 DEF InsertionOK
<1>7. ~ EndsFunction(u[1])
  <2>1. 1 \in 1 .. n
    BY <1>1
  <2>2. CASE n = 1
    BY <1>2, <1>3, <2>2 DEF InsertionOK
  <2>3. CASE n # 1
    BY <1>3, <2>1, <2>3 DEF InsertionOK
  <2> QED  BY <2>2, <2>3
<1>8. ASSUME n > 1
      PROVE  Anchored(u[n], u[n - 1])
  <2>1. n \in 2 .. n /\ n - 1 \in 1 .. n /\ n - 1 # n
    BY <1>1, <1>8
  <2>2. Anchored(st[n], st[n - 1])
    BY <2>1 DEF InsertionOK
  <2> QED  BY <1>2, <1>3, <2>1, <2>2 DEF Anchored
<1>9. ASSUME NEW i \in 2 .. n
      PROVE  Anchored(u[i], u[i - 1])
  <2>1. CASE i = n
    BY <1>1, <1>8, <2>1
  <2>2. CASE i # n
    <3>1. i \in 1 .. n /\ i - 1 \in 1 .. n /\ i - 1 # n
      BY <1>1
    <3>2. u[i] = st[i] /\ u[i - 1] = st[i - 1]
      BY <1>3, <2>2, <3>1
    <3> QED  BY <2>2, <3>2 DEF InsertionOK
  <2> QED  BY <2>1, <2>2
<1>10. ins = IF u[n].todo # <<>> \/ n = 1 THEN FunctionOn(u[n])
             ELSE FunctionOn(u[n - 1])
  <2>1. CASE u[n].todo # <<>> \/ n = 1
    BY <1>3, <1>5, <2>1
  <2>2. CASE ~ (u[n].todo # <<>> \/ n = 1)
    <3>1. ~ EndsFunction(u[n])
      BY <2>2 DEF EndsFunction
    <3>2. n > 1
      <4>1. n \in Nat /\ n >= 1
        BY <1>1
      <4>2. n # 1
        BY <2>2
      <4> HIDE DEF n
      <4> QED  BY <4>1, <4>2
    <3> QED  BY <1>3, <1>5, <1>8, <2>2, <3>1, <3>2 DEF Anchored
  <2> QED  BY <2>1, <2>2
<1>11. InsertionOK(u, ins)
  BY <1>1, <1>3, <1>6, <1>7, <1>9, <1>10 DEF InsertionOK
<1> QED  BY <1>1, <1>3, <1>4, <1>5, <1>8, <1>11

(* A frame for the body of a `let', of a function, or for what follows it. *)
LEMMA Push ==
    ASSUME NEW st, NEW ins, InsertionOK(st, ins), FunctionOn(st[Len(st)]) = ins,
           Len(st) > 1 => Anchored(st[Len(st)], st[Len(st) - 1]),
           NEW fr, FrameShape(fr), fr.todo # <<>>,
           IF EndsFunction(fr) THEN LastItem(fr).resume = ins
           ELSE FunctionOn(fr) = ins
    PROVE  InsertionOK(Append(st, fr), FunctionOn(fr))
<1> DEFINE n == Len(st)
           u == Append(st, fr)
<1>1. n \in Nat /\ n >= 1 /\ IsSeq(st)
  BY SeqLength DEF InsertionOK
<1>2. /\ IsSeq(u) /\ Len(u) = n + 1 /\ u[n + 1] = fr
      /\ \A i \in 1 .. n : u[i] = st[i]
  BY <1>1, AppendSeq
<1>3. /\ \A i \in 1 .. n : FrameShape(st[i])
      /\ ~ EndsFunction(st[1])
      /\ \A i \in 2 .. n : i # n => Anchored(st[i], st[i - 1])
      /\ n > 1 => Anchored(st[n], st[n - 1])
      /\ FunctionOn(st[n]) = ins
  BY DEF InsertionOK
<1> HIDE DEF n, u
<1>4. ASSUME NEW i \in 1 .. n + 1
      PROVE  FrameShape(u[i])
  <2>1. CASE i = n + 1
    BY <1>2, <2>1
  <2>2. CASE i # n + 1
    <3>1. i \in 1 .. n
      BY <1>1, <2>2
    <3> QED  BY <1>2, <1>3, <3>1
  <2> QED  BY <2>1, <2>2
<1>5. ~ EndsFunction(u[1])
  <2>1. 1 \in 1 .. n
    BY <1>1
  <2> QED  BY <1>2, <1>3, <2>1
<1>6. ASSUME NEW i \in 2 .. n + 1
      PROVE  Anchored(u[i], u[i - 1])
  <2>1. CASE i = n + 1
    <3>1. i - 1 = n /\ n \in 1 .. n
      BY <1>1, <2>1
    <3>2. u[i] = fr /\ u[i - 1] = st[n]
      BY <1>2, <2>1, <3>1
    <3> QED  BY <1>3, <3>2 DEF Anchored
  <2>2. CASE i # n + 1
    <3>1. i \in 2 .. n /\ i \in 1 .. n /\ i - 1 \in 1 .. n
      BY <1>1, <2>2
    <3>2. u[i] = st[i] /\ u[i - 1] = st[i - 1]
      BY <1>2, <3>1
    <3>3. Anchored(st[i], st[i - 1])
      <4>1. CASE i = n
        <5>1. n > 1
          BY <1>1, <3>1, <4>1
        <5> QED  BY <1>3, <4>1, <5>1
      <4>2. CASE i # n
        BY <1>3, <3>1, <4>2
      <4> QED  BY <4>1, <4>2
    <3> QED  BY <3>2, <3>3
  <2> QED  BY <2>1, <2>2
<1>7. n + 1 >= 1
  BY <1>1
<1>8. InsertionOK(u, FunctionOn(fr))
  BY <1>2, <1>4, <1>5, <1>6, <1>7 DEF InsertionOK
<1> QED  BY <1>8 DEF u

(* The function ends: its frame has nothing left to do, and the builder is *)
(* back in the function of the frame below.                                *)
LEMMA EndOfFunction ==
    ASSUME NEW st, NEW ins, InsertionOK(st, ins),
           st[Len(st)].todo # <<>>, st[Len(st)].todo[1].do = "ret"
    PROVE  InsertionOK(Instead(st, <<>>), st[Len(st)].todo[1].resume)
<1> DEFINE n == Len(st)
           t == st[n].todo
           g == Frame(st[n].chain, st[n].table, <<>> \o Tail(t))
           u == [st EXCEPT ![n] = g]
<1>1. n \in Nat /\ n >= 1 /\ n \in 1 .. n /\ IsSeq(st) /\ FrameShape(st[n])
  BY SeqLength DEF InsertionOK
<1>2. IsSeq(t) /\ Len(t) \in Nat /\ Len(t) # 0
  BY <1>1, SeqLength DEF FrameShape
<1>3. Len(t) = 1
  <2>1. 1 \in 1 .. Len(t)
    BY <1>2
  <2> QED  BY <1>1, <2>1 DEF FrameShape
<1>4. EndsFunction(st[n]) /\ LastItem(st[n]) = t[1]
  BY <1>3 DEF EndsFunction, LastItem
<1>5. n # 1
  BY <1>4 DEF InsertionOK
<1>6. g.todo = <<>> /\ FrameShape(g)
  <2>1. IsSeq(<<>>) /\ Len(<<>>) = 0
    BY NothingSeq
  <2>2. IsSeq(<<>> \o Tail(t)) /\ Len(<<>> \o Tail(t)) = 0
    <3>1. t # <<>>
      OBVIOUS
    <3> HIDE DEF t
    <3>2. /\ IsSeq(<<>> \o Tail(t))
          /\ Len(<<>> \o Tail(t)) = Len(<<>>) + Len(t) - 1
      BY <1>2, <2>1, <3>1, ReplaceFirst
    <3> QED  BY <1>3, <2>1, <3>2
  <2>3. g.todo = <<>>
    BY <2>2, SeqLength DEF Frame
  <2>4. g.chain = st[n].chain
    BY DEF Frame
  <2> QED  BY <1>1, <2>1, <2>3, <2>4 DEF FrameShape
<1>7. /\ IsSeq(u) /\ Len(u) = n /\ u[n] = g
      /\ \A i \in 1 .. n : i # n => u[i] = st[i]
  <2> HIDE DEF g, t
  <2>1. n \in 1 .. Len(st) /\ IsSeq(st)
    BY <1>1
  <2> HIDE DEF n
  <2> QED  BY <2>1, ReplacedSeq DEF n
<1>8. u = Instead(st, <<>>)
  BY DEF Instead
<1>9. /\ \A i \in 1 .. n : FrameShape(st[i])
      /\ ~ EndsFunction(st[1])
      /\ \A i \in 2 .. n : i # n => Anchored(st[i], st[i - 1])
      /\ n \in 2 .. n => Anchored(st[n], st[n - 1])
  BY DEF InsertionOK
<1>10. st[n].todo[1] = t[1]
  OBVIOUS
<1> HIDE DEF n, t, g, u
<1>11. n \in 2 .. n /\ n - 1 \in 1 .. n /\ n - 1 # n /\ 1 \in 1 .. n
  BY <1>1, <1>5
<1>12. t[1].resume = FunctionOn(st[n - 1])
  BY <1>4, <1>9, <1>11 DEF Anchored
<1>13. \A i \in 1 .. n : FrameShape(u[i])
  BY <1>6, <1>7, <1>9
<1>14. ~ EndsFunction(u[1])
  BY <1>5, <1>7, <1>9, <1>11
<1>15. ASSUME NEW i \in 2 .. n
       PROVE  Anchored(u[i], u[i - 1]) \/ (i = n /\ u[i].todo = <<>>)
  <2>1. CASE i = n
    BY <1>6, <1>7, <2>1
  <2>2. CASE i # n
    <3>1. i \in 1 .. n /\ i - 1 \in 1 .. n /\ i - 1 # n
      BY <1>1
    <3>2. u[i] = st[i] /\ u[i - 1] = st[i - 1]
      BY <1>7, <2>2, <3>1
    <3> QED  BY <1>9, <2>2, <3>2
  <2> QED  BY <2>1, <2>2
<1>16. t[1].resume = FunctionOn(u[n - 1]) /\ u[n].todo = <<>>
  BY <1>6, <1>7, <1>11, <1>12
<1>17. InsertionOK(u, t[1].resume)
  BY <1>1, <1>5, <1>7, <1>13, <1>14, <1>15, <1>16 DEF InsertionOK
<1> QED  BY <1>8, <1>10, <1>17 DEF n

(* A finished frame is left.                                               *)
LEMMA Pop ==
    ASSUME NEW st, NEW ins, InsertionOK(st, ins), Len(st) > 1,
           st[Len(st)].todo = <<>>
    PROVE  InsertionOK(SubSeq(st, 1, Len(st) - 1), ins)
<1> DEFINE n == Len(st)
           m == n - 1
           u == SubSeq(st, 1, n - 1)
<1>1. n \in Nat /\ n > 1 /\ IsSeq(st)
  BY SeqLength DEF InsertionOK
<1>2. IsSeq(u) /\ Len(u) = n - 1 /\ \A i \in 1 .. n - 1 : u[i] = st[i]
  BY <1>1, FrontSeq
<1>3. /\ \A i \in 1 .. n : FrameShape(st[i])
      /\ ~ EndsFunction(st[1])
      /\ \A i \in 2 .. n : i # n => Anchored(st[i], st[i - 1])
      /\ ins = FunctionOn(st[n - 1])
  BY <1>1 DEF InsertionOK
<1> HIDE DEF n, u
<1>4. /\ m \in 1 .. m /\ 1 \in 1 .. m /\ m >= 1
      /\ \A i \in 1 .. m : i \in 1 .. n /\ i # n
      /\ \A i \in 2 .. m : i \in 1 .. m /\ i - 1 \in 1 .. m /\ i \in 2 .. n
  BY <1>1
<1>5. Len(u) = m /\ ins = FunctionOn(st[m]) /\ \A i \in 1 .. m : u[i] = st[i]
  BY <1>2, <1>3
<1> HIDE DEF m
<1>6. /\ \A i \in 1 .. m : FrameShape(u[i])
      /\ ~ EndsFunction(u[1])
      /\ \A i \in 2 .. m : Anchored(u[i], u[i - 1])
  BY <1>3, <1>4, <1>5
<1>7. ins = IF u[m].todo # <<>> \/ m = 1 THEN FunctionOn(u[m])
            ELSE FunctionOn(u[m - 1])
  <2>1. ins = FunctionOn(u[m])
    BY <1>4, <1>5
  <2>2. ASSUME u[m].todo = <<>>, m # 1
        PROVE  FunctionOn(u[m]) = FunctionOn(u[m - 1])
    <3>1. m \in 2 .. m
      BY <1>4, <2>2
    <3>2. ~ EndsFunction(u[m])
      BY <2>2 DEF EndsFunction
    <3> QED  BY <1>6, <3>1, <3>2 DEF Anchored
  <2> QED  BY <2>1, <2>2
<1>8. InsertionOK(u, ins)
  BY <1>2, <1>4, <1>5, <1>6, <1>7 DEF InsertionOK
<1> QED  BY <1>8 DEF u, n

-----------------------------------------------------------------------------
(* The steps of the second pass, by what they do to the frames.            *)
LEMMA Stopped ==
    ASSUME Inserting, gpos' \in Nat, script' = script, status' # "generating"
    PROVE  Inserting'
BY DEF Inserting, Generating

LEMMA ItemWorked ==
    ASSUME Inserting, Generating, GTodo # <<>>, Head(GTodo).do # "ret",
           NEW w, IsSeq(w), \A j \in 1 .. Len(w) : w[j].do # "ret",
           gstack' = GRest(w), insert' = insert,
           gpos' \in Nat, script' = script
    PROVE  Inserting'
<1>1. InsertionOK(gstack, insert)
  BY DEF Inserting
<1>2. gstack' = Instead(gstack, w)
  BY DEF GRest, Instead, GTop, GTable, GTodo
<1>3. /\ gstack[Len(gstack)].todo # <<>>
      /\ gstack[Len(gstack)].todo[1].do # "ret"
  BY DEF GTodo, GTop
<1>4. InsertionOK(Instead(gstack, w), insert)
  BY <1>1, <1>3, WorkOff
<1> QED  BY <1>2, <1>4 DEF Inserting

(* The item is done and a frame fr for what comes next is opened.          *)
LEMMA Opened ==
    ASSUME Inserting, Generating, GTodo # <<>>, Head(GTodo).do # "ret",
           NEW fr, FrameShape(fr), fr.todo # <<>>,
           IF EndsFunction(fr) THEN LastItem(fr).resume = insert
           ELSE FunctionOn(fr) = insert,
           gstack' = Append(GRest(<<>>), fr), insert' = FunctionOn(fr),
           gpos' \in Nat, script' = script
    PROVE  Inserting'
<1> DEFINE u == Instead(gstack, <<>>)
<1>1. InsertionOK(gstack, insert)
  BY DEF Inserting
<1>2. gstack' = Append(u, fr)
  BY DEF GRest, Instead, GTop, GTable, GTodo
<1>3. /\ gstack[Len(gstack)].todo # <<>>
      /\ gstack[Len(gstack)].todo[1].do # "ret"
  BY DEF GTodo, GTop
<1>4. IsSeq(<<>>) /\ \A j \in 1 .. Len(<<>>) : <<>>[j].do # "ret"
  BY NothingSeq
<1>5. /\ InsertionOK(u, insert) /\ FunctionOn(u[Len(u)]) = insert
      /\ Len(u) > 1 => Anchored(u[Len(u)], u[Len(u) - 1])
  BY <1>1, <1>3, <1>4, WorkOff
<1> HIDE DEF u
<1>6. InsertionOK(Append(u, fr), FunctionOn(fr))
  BY <1>5, Push
<1> QED  BY <1>2, <1>6 DEF Inserting

(* The function whose body a frame belongs to.                             *)
LEMMA InsertsHere ==
    ASSUME Inserting, Generating, GTodo # <<>>
    PROVE  insert = GFunction /\ insert = FunctionOn(GTop) /\ FrameShape(GTop)
<1>1. InsertionOK(gstack, insert)
  BY DEF Inserting
<1>2. Len(gstack) \in 1 .. Len(gstack)
  BY <1>1, SeqLength DEF InsertionOK
<1> QED
  BY <1>1, <1>2 DEF InsertionOK, GTodo, GTop, GFunction, FunctionOn

(* Lists of items none of which ends a function.                           *)
NoReturn(w) == IsSeq(w) /\ \A j \in 1 .. Len(w) : w[j].do # "ret"

LEMMA NoReturnNothing == NoReturn(<<>>)
BY NothingSeq DEF NoReturn

LEMMA NoReturnPair ==
    ASSUME NEW d, NEW e, d.do # "ret", e.do # "ret"
    PROVE  NoReturn(<<d, e>>)
<1>1. \A j \in 1 .. 2 : j = 1 \/ j = 2
  OBVIOUS
<1> QED  BY <1>1, PairSeq DEF NoReturn

LEMMA NoReturnAnd ==
    ASSUME NEW v, NoReturn(v), NEW e, e.do # "ret"
    PROVE  NoReturn(v \o <<e>>)
<1>1. PICK S : v \in Seq(S)
  BY DEF NoReturn, IsSeq
<1> DEFINE T == S \cup {e}
           w == v \o <<e>>
           n == Len(v)
<1>2. v \in Seq(T) /\ e \in T
  BY <1>1
<1> HIDE DEF T
<1>3. /\ w \in Seq(T) /\ Len(w) = n + 1 /\ n \in Nat
      /\ \A i \in 1 .. n : w[i] = v[i]
      /\ w[n + 1] = e
  BY <1>2
<1>4. \A i \in 1 .. n : v[i].do # "ret"
  BY DEF NoReturn
<1> HIDE DEF w, n
<1>5. \A j \in 1 .. n + 1 : j \in 1 .. n \/ j = n + 1
  BY <1>3
<1>6. \A j \in 1 .. Len(w) : w[j].do # "ret"
  BY <1>3, <1>4, <1>5
<1> QED  BY <1>3, <1>6 DEF IsSeq, NoReturn, w

LEMMA NoReturnExprs ==
    ASSUME NEW n \in Nat
    PROVE  NoReturn(Exprs(n))
<1>1. Exprs(n) \in Seq({Expr}) /\ Len(Exprs(n)) = n
  BY DEF Exprs
<1>2. \A j \in 1 .. n : Exprs(n)[j].do = "expr"
  BY DEF Exprs, Expr
<1> QED  BY <1>1, <1>2 DEF NoReturn, IsSeq

-----------------------------------------------------------------------------
(* What a step of the second pass knows of the node it is at.              *)
LEMMA AtNode ==
    ASSUME Inserting, NEW ops, Generate(ops)
    PROVE  /\ Generating /\ GTodo # <<>> /\ Head(GTodo).do = "expr"
           /\ gpos' \in Nat /\ script[GHere] \in Nodes /\ script[GHere].op \in ops
<1>1. GHere \in 1 .. Len(script)
  BY DEF Generate, GHere, Inserting
<1>2. script[GHere] \in Nodes
  BY <1>1 DEF Inserting
<1> QED  BY <1>2 DEF Generate, Expr, GHere, Inserting

LEMMA AtItem ==
    ASSUME Inserting, NEW whats, Finish(whats)
    PROVE  /\ Generating /\ GTodo # <<>> /\ Head(GTodo).do \in whats
           /\ gpos' \in Nat
BY DEF Finish, Inserting

LEMMA GeneratePreserves ==
    ASSUME Inserting, script' = script,
           \/ GenerateConstant \/ GenerateVariable \/ GenerateLet
           \/ GenerateReturn
    PROVE  Inserting'
<1>1. ASSUME NEW ops, Generate(ops), NEW w, NoReturn(w), gstack' = GRest(w),
             insert' = insert
      PROVE  Inserting'
  <2>1. /\ Generating /\ GTodo # <<>> /\ Head(GTodo).do # "ret" /\ gpos' \in Nat
    BY <1>1, AtNode
  <2> QED  BY <1>1, <2>1, ItemWorked DEF NoReturn
<1>2. CASE GenerateConstant
  BY <1>1, <1>2, NoReturnNothing DEF GenerateConstant, Continue
<1>3. CASE GenerateVariable
  BY <1>1, <1>3, NoReturnNothing DEF GenerateVariable, Continue
<1>4. CASE GenerateLet
  <2>1. NoReturn(<<Expr, Work("bind", GHere)>>)
    BY NoReturnPair DEF Expr, Work
  <2> QED  BY <1>1, <1>4, <2>1, ZenonT(60) DEF GenerateLet, Continue
<1>5. CASE GenerateReturn
  <2>1. Generate({"return"})
    BY <1>5 DEF GenerateReturn
  <2>2. \/ gstack' = GRest(<<>>) /\ insert' = insert
        \/ status' \in {"output not set", "crashed"}
    BY <1>5, Zenon DEF GenerateReturn, Continue, Stop
  <2>3. gpos' \in Nat
    BY <2>1, AtNode
  <2> QED  BY <1>1, <2>1, <2>2, <2>3, Stopped, NoReturnNothing, Zenon
<1> QED  BY <1>2, <1>3, <1>4, <1>5

LEMMA OperandsPreserve ==
    ASSUME Inserting, script' = script, GenerateOperands
    PROVE  Inserting'
<1> DEFINE p == GHere
           n == Arity(script[p])
           v == [i \in 1 .. 2 * n |-> IF i % 2 = 1 THEN Expr ELSE Work("real", p)]
<1>1. Generate({"vector", "splat", "if"})
  BY DEF GenerateOperands
<1>2. /\ Generating /\ GTodo # <<>> /\ Head(GTodo).do # "ret" /\ gpos' \in Nat
      /\ n \in Nat
  BY <1>1, AtNode, NodeFields
<1>3. PICK w : /\ gstack' = GRest(w) /\ insert' = insert
               /\ \/ w = <<Expr, Work("boolean", p), Expr, Expr, Work("merge", p)>>
                  \/ w = v \o <<Work("build", p)>>
  BY DEF GenerateOperands, Continue
<1>4. NoReturn(w)
  <2>1. CASE w = <<Expr, Work("boolean", p), Expr, Expr, Work("merge", p)>>
    <3>1. w \in Seq({Expr, Work("boolean", p), Work("merge", p)}) /\ Len(w) = 5
      BY <2>1
    <3>2. /\ w[1].do # "ret" /\ w[2].do # "ret" /\ w[3].do # "ret"
          /\ w[4].do # "ret" /\ w[5].do # "ret"
      BY <2>1 DEF Expr, Work
    <3>3. \A j \in 1 .. 5 : j = 1 \/ j = 2 \/ j = 3 \/ j = 4 \/ j = 5
      OBVIOUS
    <3> QED  BY <3>1, <3>2, <3>3 DEF NoReturn, IsSeq
  <2>2. CASE w = v \o <<Work("build", p)>>
    <3>1. v \in Seq({Expr, Work("real", p)}) /\ Len(v) = 2 * n
      <4> HIDE DEF n, p
      <4> QED  BY <1>2
    <3>2. \A j \in 1 .. Len(v) : v[j] \in {Expr, Work("real", p)}
      <4> HIDE DEF v
      <4> QED  BY <3>1
    <3> HIDE DEF v
    <3>3. NoReturn(v)
      BY <3>1, <3>2 DEF NoReturn, IsSeq, Expr, Work
    <3>4. Work("build", p).do # "ret"
      BY DEF Work
    <3> QED  BY <2>2, <3>3, <3>4, NoReturnAnd
  <2> QED  BY <1>3, <2>1, <2>2
<1> QED  BY <1>2, <1>3, <1>4, ItemWorked DEF NoReturn

(* A call of an intrinsic is emitted, or it ends the pass.                 *)
LEMMA IntrinsicSplit ==
    ASSUME EmitIntrinsicCall, NEW s, s = refs[GNode],
           NEW args, args = Taken(script[GNode].argc)
    PROVE  /\ Finish({"emit"}) /\ s.kind = "callable"
           /\ \/ \E ret : Emit(s, args, <<>>, ret)
              \/ \E why \in {"crashed", "refused", "failed", "type mismatch"} : Stop(why)
<1>1. Finish({"emit"}) /\ s.kind = "callable"
  BY DEF EmitIntrinsicCall
<1>2. PICK sig : sig = Signature[s.name]
  OBVIOUS
<1>3. PICK types : types = Formals(s)
  OBVIOUS
<1>4. \/ EmitUnchecked(s, args)
      \/ \E error \in {"type mismatch", "failed"} :
            CheckArguments(args, types, error, Emit(s, args, <<>>, sig.ret))
      \/ Stop("refused") \/ Stop("failed")
  BY <1>2, <1>3 DEF EmitIntrinsicCall
<1>5. ASSUME EmitUnchecked(s, args)
      PROVE  Stop("crashed") \/ Emit(s, args, <<>>, args[1].type)
  BY <1>5 DEF EmitUnchecked
<1>6. ASSUME NEW error \in {"type mismatch", "failed"},
             CheckArguments(args, types, error, Emit(s, args, <<>>, sig.ret))
      PROVE  Stop("crashed") \/ Stop(error) \/ Emit(s, args, <<>>, sig.ret)
  BY <1>6 DEF CheckArguments
<1> QED  BY <1>1, <1>4, <1>5, <1>6

(* An item that takes operands from the stack, or fails.                   *)
LEMMA FinishPreserves ==
    ASSUME Inserting, script' = script,
           \/ ExpectType \/ BuildVector \/ MergeBranches
           \/ EmitFunctionCall \/ EmitIntrinsicCall
    PROVE  Inserting'
<1>1. PICK whats \in {{"real", "boolean"}, {"build"}, {"merge"}, {"emit"}} :
          Finish(whats)
  BY DEF ExpectType, BuildVector, MergeBranches, EmitFunctionCall,
         EmitIntrinsicCall
<1>2. /\ Generating /\ GTodo # <<>> /\ Head(GTodo).do # "ret" /\ gpos' \in Nat
  BY <1>1, AtItem
<1>3. \/ gstack' = GRest(<<>>) /\ insert' = insert
      \/ status' # "generating"
  <2>1. CASE ExpectType
    BY <2>1 DEF ExpectType, Continue, Stop
  <2>2. CASE BuildVector
    BY <2>2 DEF BuildVector, Continue
  <2>3. CASE MergeBranches
    BY <2>3 DEF MergeBranches, Continue, Stop
  <2>4. CASE EmitFunctionCall
    BY <2>4 DEF EmitFunctionCall, CheckArguments, Emit, Continue, Stop
  <2>5. CASE EmitIntrinsicCall
    <3>1. PICK s : s = refs[GNode]
      OBVIOUS
    <3>2. PICK args : args = Taken(script[GNode].argc)
      OBVIOUS
    <3>3. \/ \E ret : Emit(s, args, <<>>, ret)
          \/ \E why \in {"crashed", "refused", "failed", "type mismatch"} : Stop(why)
      BY <2>5, <3>1, <3>2, IntrinsicSplit
    <3> QED  BY <3>3 DEF Emit, Continue, Stop
  <2> QED  BY <2>1, <2>2, <2>3, <2>4, <2>5
<1> QED  BY <1>2, <1>3, ItemWorked, Stopped, NoReturnNothing DEF NoReturn

LEMMA CallPreserves ==
    ASSUME Inserting, script' = script, GenerateCall
    PROVE  Inserting'
<1> DEFINE n == script[GHere].argc
           w == Exprs(n) \o <<Work("emit", GHere)>>
<1>1. Generate({"call"})
  BY DEF GenerateCall
<1>2. /\ Generating /\ GTodo # <<>> /\ Head(GTodo).do # "ret" /\ gpos' \in Nat
      /\ n \in Nat
  BY <1>1, AtNode, NodeFields
<1>3. \/ gstack' = GRest(w) /\ insert' = insert
      \/ status' # "generating"
  BY DEF GenerateCall, Continue, Stop
<1>4. NoReturn(w)
  <2>1. Work("emit", GHere).do # "ret"
    BY DEF Work
  <2> QED  BY <1>2, <2>1, NoReturnExprs, NoReturnAnd
<1> HIDE DEF w
<1> QED  BY <1>2, <1>3, <1>4, ItemWorked, Stopped DEF NoReturn

(* The body of a `let', and what follows the definition of a function, are *)
(* generated in frames of the same function.                               *)
LEMMA SameFunction ==
    ASSUME Inserting, Generating, GTodo # <<>>, NEW t, NEW w, NoReturn(w),
           w # <<>>
    PROVE  LET fr == Frame(GTop.chain, t, w) IN
           /\ FrameShape(fr) /\ fr.todo # <<>> /\ ~ EndsFunction(fr)
           /\ FunctionOn(fr) = insert
<1> DEFINE fr == Frame(GTop.chain, t, w)
<1>1. fr.chain = GTop.chain /\ fr.todo = w
  BY DEF Frame
<1>2. Len(w) \in 1 .. Len(w)
  <2> DEFINE n == Len(w)
  <2>1. n \in Nat /\ n # 0
    BY SeqLength DEF NoReturn
  <2> HIDE DEF n
  <2>2. n \in 1 .. n
    BY <2>1
  <2> QED  BY <2>2 DEF n
<1>3. insert = FunctionOn(GTop) /\ FrameShape(GTop)
  BY InsertsHere
<1>4. ~ EndsFunction(fr)
  BY <1>1, <1>2 DEF EndsFunction, LastItem, NoReturn
<1>5. FrameShape(fr)
  BY <1>1, <1>3 DEF FrameShape, NoReturn
<1> QED  BY <1>1, <1>3, <1>4, <1>5 DEF FunctionOn

LEMMA BindPreserves ==
    ASSUME Inserting, script' = script, BindVariable
    PROVE  Inserting'
<1>1. Finish({"bind"})
  BY DEF BindVariable
<1>2. /\ Generating /\ GTodo # <<>> /\ Head(GTodo).do # "ret" /\ gpos' \in Nat
  BY <1>1, AtItem
<1>3. CASE status' \in {"return assigned", "type mismatch"}
  BY <1>2, <1>3, Stopped
<1>4. CASE status' \notin {"return assigned", "type mismatch"}
  <2> DEFINE s == Variable(GFunction, GNode, script[GNode].name)
             fr == Frame(GTop.chain, WithSymbol(GTable, s), <<Expr>>)
  <2>1. gstack' = Append(GRest(<<>>), fr) /\ insert' = insert
    BY <1>4 DEF BindVariable, Stop
  <2>2. NoReturn(<<Expr>>) /\ <<Expr>> # <<>>
    <3>1. \A j \in 1 .. 1 : j = 1
      OBVIOUS
    <3> QED  BY <3>1, SingletonSeq DEF NoReturn, Expr
  <2>3. /\ FrameShape(fr) /\ fr.todo # <<>> /\ ~ EndsFunction(fr)
        /\ FunctionOn(fr) = insert
    BY <1>2, <2>2, SameFunction
  <2> HIDE DEF fr
  <2> QED  BY <1>2, <2>1, <2>3, Opened
<1> QED  BY <1>3, <1>4

LEMMA FunctionPreserves ==
    ASSUME Inserting, script' = script, GenerateFunction
    PROVE  Inserting'
<1>1. Generate({"fun"})
  BY DEF GenerateFunction
<1>2. /\ Generating /\ GTodo # <<>> /\ Head(GTodo).do # "ret" /\ gpos' \in Nat
  BY <1>1, AtNode
<1> DEFINE s == Function(GFunction, GHere, script[GHere].name)
           fr == Frame(GTop.chain, WithSymbol(GTable, s),
                       <<Work("define", GHere), Expr>>)
<1>3. gstack' = Append(GRest(<<>>), fr) /\ insert' = insert
  BY DEF GenerateFunction
<1>4. /\ NoReturn(<<Work("define", GHere), Expr>>)
      /\ <<Work("define", GHere), Expr>> # <<>>
  BY NoReturnPair DEF Work, Expr
<1>5. /\ FrameShape(fr) /\ fr.todo # <<>> /\ ~ EndsFunction(fr)
      /\ FunctionOn(fr) = insert
  BY <1>2, <1>4, SameFunction
<1> HIDE DEF fr
<1> QED  BY <1>2, <1>3, <1>5, Opened

(* The body of a function: the frame remembers where to resume.            *)
LEMMA DefinePreserves ==
    ASSUME Inserting, script' = script, DefineFunction
    PROVE  Inserting'
<1> DEFINE p == GNode
           return == [do |-> "ret", node |-> p, resume |-> insert]
           chain == Append(GTop.chain, p)
           fr == Frame(chain, WithArguments(GTable, p, script[p].params),
                       <<Expr, return>>)
<1>1. Finish({"define"})
  BY DEF DefineFunction
<1>2. /\ Generating /\ GTodo # <<>> /\ Head(GTodo).do # "ret" /\ gpos' \in Nat
  BY <1>1, AtItem
<1>3. gstack' = Append(GRest(<<>>), fr) /\ insert' = p
  BY DEF DefineFunction
<1>4. fr.chain = chain /\ fr.todo = <<Expr, return>>
  BY DEF Frame
<1>5. return.do = "ret" /\ return.resume = insert /\ Expr.do = "expr"
  BY DEF Expr
<1>6. /\ IsSeq(chain) /\ chain[Len(chain)] = p
  <2>1. IsSeq(GTop.chain)
    BY <1>2, InsertsHere DEF FrameShape
  <2> QED  BY <2>1, AppendSeq
<1> HIDE DEF return, chain, fr, p
<1>7. /\ IsSeq(fr.todo) /\ Len(fr.todo) = 2 /\ fr.todo # <<>>
      /\ fr.todo[1] = Expr /\ fr.todo[2] = return
  BY <1>4, PairSeq
<1>8. EndsFunction(fr) /\ LastItem(fr).resume = insert
  BY <1>5, <1>7 DEF EndsFunction, LastItem
<1>9. FrameShape(fr)
  <2>1. \A j \in 1 .. 2 : j = 1 \/ j = 2
    OBVIOUS
  <2> QED  BY <1>4, <1>5, <1>6, <1>7, <2>1 DEF FrameShape
<1>10. FunctionOn(fr) = p
  BY <1>4, <1>6 DEF FunctionOn
<1> QED  BY <1>2, <1>3, <1>7, <1>8, <1>9, <1>10, Opened

LEMMA ReturnPreserves ==
    ASSUME Inserting, script' = script, ReturnValue
    PROVE  Inserting'
<1>1. Finish({"ret"})
  BY DEF ReturnValue
<1>2. /\ Generating /\ GTodo # <<>> /\ Head(GTodo).do = "ret" /\ gpos' \in Nat
  BY <1>1, AtItem
<1>3. CASE status' \in {"crashed", "type mismatch"}
  BY <1>2, <1>3, Stopped
<1>4. CASE status' \notin {"crashed", "type mismatch"}
  <2>0. gstack' = GRest(<<>>) /\ insert' = Head(GTodo).resume
    BY <1>4 DEF ReturnValue, Continue, Stop
  <2>1. gstack' = Instead(gstack, <<>>) /\ insert' = GTodo[1].resume
    BY <2>0 DEF GRest, Instead, GTop, GTable, GTodo
  <2>2. InsertionOK(gstack, insert)
    BY <1>2 DEF Inserting
  <2>3. gstack[Len(gstack)].todo # <<>> /\ gstack[Len(gstack)].todo[1].do = "ret"
    BY <1>2 DEF GTodo, GTop
  <2>4. InsertionOK(Instead(gstack, <<>>), gstack[Len(gstack)].todo[1].resume)
    BY <2>2, <2>3, EndOfFunction
  <2> QED  BY <1>2, <2>1, <2>4 DEF Inserting, GTodo, GTop
<1> QED  BY <1>3, <1>4

LEMMA ClosePreserves ==
    ASSUME Inserting, script' = script, CloseGeneratedFrame
    PROVE  Inserting'
<1>1. Generating /\ GTodo = <<>> /\ gpos' \in Nat
  BY DEF CloseGeneratedFrame, Inserting
<1>2. CASE Len(gstack) > 1
  <2>1. gstack' = SubSeq(gstack, 1, Len(gstack) - 1) /\ insert' = insert
    BY <1>2 DEF CloseGeneratedFrame
  <2>2. InsertionOK(gstack, insert) /\ gstack[Len(gstack)].todo = <<>>
    BY <1>1 DEF Inserting, GTodo, GTop
  <2>3. InsertionOK(SubSeq(gstack, 1, Len(gstack) - 1), insert)
    BY <1>2, <2>2, Pop
  <2> QED  BY <1>1, <2>1, <2>3 DEF Inserting
<1>3. CASE ~ (Len(gstack) > 1)
  <2>1. status' \in {"compiled", "no return"}
    BY <1>3 DEF CloseGeneratedFrame, Stop
  <2> QED  BY <1>1, <2>1, Stopped
<1> QED  BY <1>2, <1>3

-----------------------------------------------------------------------------
LEMMA BeginPreserves ==
    ASSUME Inserting, script' = script, BeginCodegen
    PROVE  Inserting'
<1> DEFINE fr == Frame(<<0>>, ToplevelTable, <<Expr>>)
<1>1. gstack' = <<fr>> /\ insert' = 0 /\ gpos' = gpos
  BY DEF BeginCodegen
<1>2. fr.chain = <<0>> /\ fr.todo = <<Expr>>
  BY DEF Frame
<1> HIDE DEF fr
<1>3. /\ IsSeq(fr.chain) /\ Len(fr.chain) = 1 /\ fr.chain[1] = 0
      /\ IsSeq(fr.todo) /\ Len(fr.todo) = 1 /\ fr.todo[1].do = "expr"
      /\ fr.todo # <<>>
  BY <1>2, SingletonSeq DEF Expr
<1>4. FrameShape(fr) /\ ~ EndsFunction(fr) /\ FunctionOn(fr) = 0
  BY <1>3 DEF FrameShape, EndsFunction, LastItem, FunctionOn
<1>5. IsSeq(gstack') /\ Len(gstack') = 1 /\ gstack'[1] = fr
  BY <1>1, SingletonSeq
<1>6. InsertionOK(gstack', insert')
  <2>1. \A i \in 1 .. 1 : i = 1
    OBVIOUS
  <2>2. 2 .. 1 = {}
    OBVIOUS
  <2> QED  BY <1>1, <1>3, <1>4, <1>5, <2>1, <2>2 DEF InsertionOK
<1> QED  BY <1>1, <1>6 DEF Inserting

(* While names are resolved no code is generated.                          *)
LEMMA ResolvingPreserves ==
    ASSUME Next
    PROVE  script' = script /\ status = "resolving" /\ status' # "generating"
<1>1. CASE ResolveOperands \/ ResolveLet \/ EnterLet \/ ResolveFunction \/ EnterBody
  BY <1>1 DEF ResolveOperands, ResolveLet, EnterLet, ResolveFunction, EnterBody,
              Visiting, Working, Resolving
<1>2. CASE ResolveVariable
  BY <1>2 DEF ResolveVariable, Visiting, Resolving, Throw
<1>3. CASE ResolveCall
  BY <1>3 DEF ResolveCall, Visiting, Resolving, Throw
<1>4. CASE ResolveReturn
  BY <1>4 DEF ResolveReturn, Visiting, Resolving, Throw
<1>5. CASE ImportUpvalues
  BY <1>5 DEF ImportUpvalues, Working, Resolving
<1>6. CASE CloseFrame
  BY <1>6 DEF CloseFrame, Resolving
<1>7. CASE ImportFound \/ ImportFromParent
  BY <1>7 DEF ImportFound, ImportFromParent, Importing
<1> QED  BY <1>1, <1>2, <1>3, <1>4, <1>5, <1>6, <1>7 DEF Next

LEMMA StepPreserves ==
    Inserting /\ [Compile]_vars => Inserting'
<1> SUFFICES ASSUME Inserting, [Compile]_vars PROVE Inserting'
  OBVIOUS
<1>1. CASE Next /\ UNCHANGED gvars
  <2>1. script' = script /\ status' # "generating" /\ gpos' = gpos
    BY <1>1, ResolvingPreserves DEF gvars
  <2> QED  BY <2>1, Stopped DEF Inserting
<1>2. CASE Codegen /\ UNCHANGED <<script, pos, stack, parent, locals, refs, climb>>
  <2>1. script' = script
    BY <1>2
  <2>2. CASE BeginCodegen
    BY <2>1, <2>2, BeginPreserves
  <2>3. CASE GenerateConstant \/ GenerateVariable \/ GenerateLet \/ GenerateReturn
    BY <2>1, <2>3, GeneratePreserves
  <2>4. CASE GenerateOperands
    BY <2>1, <2>4, OperandsPreserve
  <2>5. CASE \/ ExpectType \/ BuildVector \/ MergeBranches
             \/ EmitFunctionCall \/ EmitIntrinsicCall
    BY <2>1, <2>5, FinishPreserves
  <2>6. CASE GenerateCall
    BY <2>1, <2>6, CallPreserves
  <2>7. CASE BindVariable
    BY <2>1, <2>7, BindPreserves
  <2>8. CASE GenerateFunction
    BY <2>1, <2>8, FunctionPreserves
  <2>9. CASE DefineFunction
    BY <2>1, <2>9, DefinePreserves
  <2>10. CASE ReturnValue
    BY <2>1, <2>10, ReturnPreserves
  <2>11. CASE CloseGeneratedFrame
    BY <2>1, <2>11, ClosePreserves
  <2> QED
    BY <1>2, <2>2, <2>3, <2>4, <2>5, <2>6, <2>7, <2>8, <2>9, <2>10, <2>11
    DEF Codegen
<1>3. CASE UNCHANGED vars
  BY <1>3 DEF vars, rvars, gvars, Inserting, Generating
<1> QED  BY <1>1, <1>2, <1>3 DEF Compile

(* Every frame of codegen() inserts into its own function and leaves the   *)
(* builder where the frame around it left it.                              *)
THEOREM FramesInsert == CompileSpec => []Inserting
<1>1. CompileInit => Inserting
  BY ProgramsAssumption
  DEF CompileInit, Init, CodegenInit, Inserting, Generating
<1> QED  BY <1>1, StepPreserves, PTL DEF CompileSpec

(* While code is generated, the builder inserts into the function that     *)
(* getFunction() answers, for every tree: ASTFunctionBody::codegen() saves *)
(* and restores the insertion point at the right moments, however deep     *)
(* functions are nested.                                                   *)
THEOREM InsertionPoint == CompileSpec => []InsertionPointAgrees
<1>1. Inserting => InsertionPointAgrees
  BY InsertsHere DEF InsertionPointAgrees
<1> QED  BY <1>1, FramesInsert, PTL

-----------------------------------------------------------------------------
(* The operands of the frames.                                             *)
LEMMA EffectsIn ==
    ASSUME NEW c, NEW d, NEW x, NEW y
    PROVE  <<d, x, y>> \in Effects(c) <=>
              /\ d \in Tasks /\ x \in Nat /\ y \in Nat
              /\ x >= c + Takes(d) /\ y = x - Takes(d) + Leaves(d)
BY DEF Effects

(* What is held when the first item of the innermost frame is worked off.  *)
HoldsFrom(st, ops, e, h, m) ==
    LET n == Len(st) IN
    /\ Under(st, ops, e, h)
    /\ e[n] <= Len(ops)
    /\ <<st[n].todo[1], Len(ops), m>> \in Effects(e[n])
    /\ Threads(Effects(e[n]), Tail(st[n].todo), m, h[n])
    /\ \A k \in e[n] + 1 .. Len(ops) : Local(ops[k], st[n])

LEMMA HeldOf ==
    ASSUME NEW st \in Stacks, NEW ops, Holding(st, ops), st[Len(st)].todo # <<>>
    PROVE  \E e, h, m : HoldsFrom(st, ops, e, h, m)
<1>1. PICK n \in Nat : n = Len(st) /\ n >= 1 /\ n \in 1 .. n
  BY StackType
<1>2. PICK t : t = st[n].todo
  OBVIOUS
<1>3. IsSeq(t) /\ t # <<>>
  BY <1>1, <1>2, StackType
<1>4. PICK e, h :
        /\ Under(st, ops, e, h)
        /\ e[n] <= Len(ops)
        /\ Threads(Effects(e[n]), t, Len(ops), h[n])
        /\ \A k \in e[n] + 1 .. Len(ops) : Local(ops[k], st[n])
  BY <1>1, <1>2 DEF Holding
<1>5. PICK R : R = Effects(e[n])
  OBVIOUS
<1>6. PICK l : l = Len(ops)
  OBVIOUS
<1>7. \E m \in Nat : <<t[1], l, m>> \in R /\ Threads(R, Tail(t), m, h[n])
  BY <1>3, <1>4, <1>5, <1>6, ThreadFirst
<1>8. PICK m : <<t[1], l, m>> \in R /\ Threads(R, Tail(t), m, h[n])
  BY <1>7
<1>9. HoldsFrom(st, ops, e, h, m)
  BY <1>1, <1>2, <1>4, <1>5, <1>6, <1>8 DEF HoldsFrom
<1> QED  BY <1>9

LEMMA UnderSame ==
    ASSUME NEW st, NEW r, NEW n \in Nat, n = Len(st), Len(r) = n, n >= 1,
           \A i \in 1 .. n : r[i].chain = st[i].chain,
           \A i \in 1 .. n - 1 : r[i] = st[i],
           NEW ops, NEW e, NEW h, Under(st, ops, e, h),
           NEW new, \A k \in 1 .. e[n] : new[k] = ops[k]
    PROVE  Under(r, new, e, h)
<1>1. /\ e \in [1 .. n -> Nat] /\ h \in [1 .. n -> Nat] /\ e[1] = 0
      /\ \A i, j \in 1 .. n : i <= j => e[i] <= e[j]
      /\ \A i \in 1 .. n : h[i] \in {e[i], e[i] + 1}
  BY DEF Under
<1>2. ASSUME NEW i \in 2 .. n
      PROVE  /\ Threads(Effects(e[i - 1]), r[i - 1].todo, h[i], h[i - 1])
             /\ \A k \in e[i - 1] + 1 .. e[i] : Local(new[k], r[i - 1])
             /\ h[i] # e[i] => FunctionOn(r[i]) = FunctionOn(r[i - 1])
  <2>1. i - 1 \in 1 .. n - 1 /\ i \in 1 .. n /\ n \in 1 .. n /\ i <= n
        /\ i - 1 \in 1 .. n
    OBVIOUS
  <2>2. r[i - 1] = st[i - 1] /\ r[i].chain = st[i].chain
    BY <2>1
  <2>3. /\ Threads(Effects(e[i - 1]), st[i - 1].todo, h[i], h[i - 1])
        /\ \A k \in e[i - 1] + 1 .. e[i] : Local(ops[k], st[i - 1])
        /\ h[i] # e[i] => FunctionOn(st[i]) = FunctionOn(st[i - 1])
    BY DEF Under
  <2>4. e[i] <= e[n] /\ e[i] \in Nat /\ e[n] \in Nat /\ e[i - 1] \in Nat
    BY <1>1, <2>1
  <2>5. ASSUME NEW k \in e[i - 1] + 1 .. e[i] PROVE Local(new[k], r[i - 1])
    <3>1. k \in 1 .. e[n]
      BY <2>4
    <3> QED  BY <2>2, <2>3, <3>1
  <2> QED  BY <2>2, <2>3, <2>5 DEF FunctionOn
<1> QED  BY <1>1, <1>2 DEF Under

(* A list of items that leaves some operands more, and takes none that     *)
(* were there.                                                             *)
Lifts(u, a) ==
    /\ u \in Seq(Tasks)
    /\ \A c, m \in Nat : c <= m => Threads(Effects(c), u, m, m + a)

LEMMA HoldingList ==
    ASSUME NEW st \in Stacks, NEW ops \in Seq(Values), Holding(st, ops),
           st[Len(st)].todo # <<>>, st[Len(st)].todo[1] = Expr,
           NEW u, Lifts(u, 1)
    PROVE  Holding(Instead(st, u), ops)
<1>1. PICK n \in Nat : n = Len(st) /\ n >= 1 /\ n \in 1 .. n
  BY StackType
<1>2. PICK r : r = Instead(st, u)
  OBVIOUS
<1>3. u \in Seq(Tasks)
  BY DEF Lifts
<1>4. /\ Len(r) = n
      /\ \A i \in 1 .. n - 1 : r[i] = st[i]
      /\ r[n].todo = u \o Tail(st[n].todo)
      /\ \A i \in 1 .. n : r[i].chain = st[i].chain
  BY <1>1, <1>2, <1>3, InsteadType
<1>5. PICK e, h, m : HoldsFrom(st, ops, e, h, m)
  BY HeldOf
<1>6. PICK l : l = Len(ops) /\ l \in Nat
  OBVIOUS
<1>7. /\ Under(st, ops, e, h) /\ e[n] <= l
      /\ <<Expr, l, m>> \in Effects(e[n])
      /\ Threads(Effects(e[n]), Tail(st[n].todo), m, h[n])
      /\ \A k \in e[n] + 1 .. l : Local(ops[k], st[n])
  BY <1>1, <1>5, <1>6 DEF HoldsFrom
<1>8. Takes(Expr) = 0 /\ Leaves(Expr) = 1
  BY DEF Takes, Leaves, Expr
<1>9. m = l + 1
  BY <1>6, <1>7, <1>8, EffectsIn
<1>10. e[n] \in Nat
  BY <1>1, <1>7 DEF Under
<1>11. Threads(Effects(e[n]), u, l, m)
  BY <1>6, <1>7, <1>9, <1>10 DEF Lifts
<1>12. Threads(Effects(e[n]), r[n].todo, l, h[n])
  <2>1. IsSeq(u) /\ IsSeq(Tail(st[n].todo))
    <3>1. st[n].todo \in Seq(Tasks) /\ st[n].todo # <<>>
      BY <1>1, StackType
    <3>2. Tail(st[n].todo) \in Seq(Tasks)
      BY <3>1
    <3> QED  BY <1>3, <3>2 DEF IsSeq
  <2>2. PICK R, t : R = Effects(e[n]) /\ t = Tail(st[n].todo)
    OBVIOUS
  <2>3. Threads(R, u \o t, l, h[n])
    BY <1>7, <1>11, <2>1, <2>2, ThreadConcat
  <2> QED  BY <1>4, <2>2, <2>3
<1>13. Under(r, ops, e, h)
  BY <1>1, <1>4, <1>7, UnderSame
<1>14. ASSUME NEW k \in e[n] + 1 .. l PROVE Local(ops[k], r[n])
  BY <1>1, <1>4, <1>7 DEF Local, FunctionOn
<1>15. Holding(r, ops)
  BY <1>4, <1>6, <1>7, <1>12, <1>13, <1>14 DEF Holding
<1> QED  BY <1>2, <1>15

(* An item that is done has taken its operands, which were of the function *)
(* of its frame, and left what it made.                                    *)
LEMMA TakenLocal ==
    ASSUME NEW st \in Stacks, NEW ops \in Seq(Values), Holding(st, ops),
           st[Len(st)].todo # <<>>, Takes(st[Len(st)].todo[1]) \in Nat
    PROVE  /\ Takes(st[Len(st)].todo[1]) <= Len(ops)
           /\ \A k \in Len(ops) - Takes(st[Len(st)].todo[1]) + 1 .. Len(ops) :
                 Local(ops[k], st[Len(st)])
<1>1. PICK n \in Nat : n = Len(st) /\ n >= 1 /\ n \in 1 .. n
  BY StackType
<1>2. PICK e, h, m : HoldsFrom(st, ops, e, h, m)
  BY HeldOf
<1>3. PICK l, d, t : l = Len(ops) /\ l \in Nat /\ d = st[n].todo[1] /\ t = Takes(d)
  OBVIOUS
<1>4. /\ Under(st, ops, e, h) /\ <<d, l, m>> \in Effects(e[n])
      /\ \A k \in e[n] + 1 .. l : Local(ops[k], st[n])
  BY <1>1, <1>2, <1>3 DEF HoldsFrom
<1>5. e[n] \in Nat
  BY <1>1, <1>4 DEF Under
<1>6. l >= e[n] + t /\ t \in Nat
  BY <1>1, <1>3, <1>4, EffectsIn
<1>7. ASSUME NEW k \in l - t + 1 .. l PROVE k \in e[n] + 1 .. l
  BY <1>3, <1>5, <1>6
<1>8. t <= l
  BY <1>3, <1>5, <1>6
<1> QED  BY <1>1, <1>3, <1>4, <1>7, <1>8

LEMMA HoldingDone ==
    ASSUME NEW st \in Stacks, NEW ops \in Seq(Values), Holding(st, ops),
           st[Len(st)].todo # <<>>,
           NEW a \in Nat, Takes(st[Len(st)].todo[1]) = a,
           NEW new \in Seq(Values),
           Len(new) = Len(ops) - a + Leaves(st[Len(st)].todo[1]),
           \A k \in 1 .. Len(ops) - a : new[k] = ops[k],
           \A k \in Len(ops) - a + 1 .. Len(new) : Local(new[k], st[Len(st)])
    PROVE  Holding(Instead(st, <<>>), new)
<1>1. PICK n \in Nat : n = Len(st) /\ n >= 1 /\ n \in 1 .. n
  BY StackType
<1>2. PICK r : r = Instead(st, <<>>)
  OBVIOUS
<1>3. <<>> \in Seq(Tasks)
  OBVIOUS
<1>4. /\ Len(r) = n
      /\ \A i \in 1 .. n - 1 : r[i] = st[i]
      /\ r[n].todo = <<>> \o Tail(st[n].todo)
      /\ \A i \in 1 .. n : r[i].chain = st[i].chain
  BY <1>1, <1>2, <1>3, InsteadType
<1>5. r[n].todo = Tail(st[n].todo)
  <2>1. st[n].todo \in Seq(Tasks) /\ st[n].todo # <<>>
    BY <1>1, StackType
  <2>2. Tail(st[n].todo) \in Seq(Tasks)
    BY <2>1
  <2> QED  BY <1>4, <2>2
<1>6. PICK e, h, m : HoldsFrom(st, ops, e, h, m)
  BY HeldOf
<1>7. PICK l, d, L : l = Len(ops) /\ l \in Nat /\ d = st[n].todo[1] /\ L = Len(new)
  OBVIOUS
<1>8. /\ Under(st, ops, e, h) /\ <<d, l, m>> \in Effects(e[n])
      /\ Threads(Effects(e[n]), Tail(st[n].todo), m, h[n])
      /\ \A k \in e[n] + 1 .. l : Local(ops[k], st[n])
  BY <1>1, <1>6, <1>7 DEF HoldsFrom
<1>9. e[n] \in Nat
  BY <1>1, <1>8 DEF Under
<1>10. m = l - a + Leaves(d) /\ l >= e[n] + a /\ m \in Nat
  <2>1. Takes(d) = a
    BY <1>1, <1>7
  <2>2. m = l - Takes(d) + Leaves(d) /\ l >= e[n] + Takes(d) /\ m \in Nat
    BY <1>8, EffectsIn
  <2> QED  BY <2>1, <2>2
<1>11. L = m
  BY <1>1, <1>7, <1>10
<1>12. Leaves(d) \in {0, 1}
  BY DEF Leaves
<1>13. e[n] <= L
  BY <1>7, <1>9, <1>10, <1>11, <1>12
<1>14. \A k \in 1 .. e[n] : new[k] = ops[k]
  <2>1. \A k \in 1 .. e[n] : k \in 1 .. l - a
    BY <1>7, <1>9, <1>10
  <2> QED  BY <1>7, <2>1
<1>15. Under(r, new, e, h)
  <2>1. /\ n \in Nat /\ n = Len(st) /\ Len(r) = n /\ n >= 1
        /\ \A i \in 1 .. n : r[i].chain = st[i].chain
        /\ \A i \in 1 .. n - 1 : r[i] = st[i]
    BY <1>1, <1>4
  <2>2. Under(st, ops, e, h)
    BY <1>8
  <2> QED  BY ONLY <1>14, <2>1, <2>2, UnderSame
<1>16. ASSUME NEW k \in e[n] + 1 .. L PROVE Local(new[k], r[n])
  <2>1. Local(new[k], st[n])
    <3>1. CASE k <= l - a
      <4>1. k \in 1 .. l - a /\ k \in e[n] + 1 .. l
        BY <1>7, <1>9, <3>1
      <4> QED  BY <1>7, <1>8, <4>1
    <3>2. CASE ~ (k <= l - a)
      <4>1. k \in l - a + 1 .. L
        BY <1>7, <1>9, <3>2
      <4> QED  BY <1>1, <1>7, <4>1
    <3> QED  BY <3>1, <3>2
  <2> QED  BY <1>1, <1>4, <2>1 DEF Local, FunctionOn
<1>17. Holding(r, new)
  BY <1>4, <1>5, <1>7, <1>8, <1>11, <1>13, <1>15, <1>16 DEF Holding
<1> QED  BY <1>2, <1>17

(* A function on 1..n, and one value more.                                  *)
LEMMA OneMore ==
    ASSUME NEW n \in Nat, NEW h \in [1 .. n -> Nat], NEW m \in Nat,
           NEW g, g = [i \in 1 .. n + 1 |-> IF i = n + 1 THEN m ELSE h[i]]
    PROVE  /\ g \in [1 .. n + 1 -> Nat] /\ g[n + 1] = m
           /\ \A i \in 1 .. n : g[i] = h[i]
<1>1. \A i \in 1 .. n + 1 : i = n + 1 \/ (i \in 1 .. n /\ i # n + 1)
  OBVIOUS
<1>2. ASSUME NEW i \in 1 .. n + 1 PROVE g[i] \in Nat
  <2>1. CASE i = n + 1
    BY <2>1
  <2>2. CASE i \in 1 .. n /\ i # n + 1
    BY <2>2
  <2> QED  BY <1>1, <2>1, <2>2
<1>3. g = [i \in 1 .. n + 1 |-> g[i]]
  OBVIOUS
<1>4. n + 1 \in 1 .. n + 1 /\ \A i \in 1 .. n : i \in 1 .. n + 1 /\ i # n + 1
  OBVIOUS
<1>5. g[n + 1] = m /\ \A i \in 1 .. n : g[i] = h[i]
  BY <1>4
<1> QED  BY <1>2, <1>3, <1>5

(* A frame that is opened holds nothing of its own yet.                    *)
LEMMA HoldingOpen ==
    ASSUME NEW st \in Stacks, NEW ops \in Seq(Values), Holding(st, ops),
           st[Len(st)].todo # <<>>,
           NEW a \in Nat, Takes(st[Len(st)].todo[1]) = a,
           NEW new \in Seq(Values), Len(new) = Len(ops) - a,
           \A k \in 1 .. Len(new) : new[k] = ops[k],
           NEW fr \in AnyFrames, NEW x, x = Leaves(st[Len(st)].todo[1]),
           Threads(Effects(Len(new)), fr.todo, Len(new), Len(new) + x),
           x = 1 => FunctionOn(fr) = FunctionOn(st[Len(st)])
    PROVE  Holding(Append(Instead(st, <<>>), fr), new)
<1>1. PICK n \in Nat : n = Len(st) /\ n >= 1 /\ n \in 1 .. n
  BY StackType
<1>2. PICK q : q = Instead(st, <<>>)
  OBVIOUS
<1>3. <<>> \in Seq(Tasks)
  OBVIOUS
<1>4. /\ Len(q) = n /\ q \in Stacks
      /\ \A i \in 1 .. n - 1 : q[i] = st[i]
      /\ q[n].todo = <<>> \o Tail(st[n].todo)
      /\ \A i \in 1 .. n : q[i].chain = st[i].chain
  BY <1>1, <1>2, <1>3, InsteadType
<1>5. q[n].todo = Tail(st[n].todo)
  <2>1. st[n].todo \in Seq(Tasks) /\ st[n].todo # <<>>
    BY <1>1, StackType
  <2>2. Tail(st[n].todo) \in Seq(Tasks)
    BY <2>1
  <2> QED  BY <1>4, <2>2
<1>6. PICK e, h, m : HoldsFrom(st, ops, e, h, m)
  BY HeldOf
<1>7. PICK l, d, L : l = Len(ops) /\ l \in Nat /\ d = st[n].todo[1]
                     /\ L = Len(new) /\ L \in Nat
  OBVIOUS
<1>8. /\ Under(st, ops, e, h) /\ <<d, l, m>> \in Effects(e[n])
      /\ Threads(Effects(e[n]), Tail(st[n].todo), m, h[n])
      /\ \A k \in e[n] + 1 .. l : Local(ops[k], st[n])
  BY <1>1, <1>6, <1>7 DEF HoldsFrom
<1>9. /\ e \in [1 .. n -> Nat] /\ h \in [1 .. n -> Nat] /\ e[1] = 0
      /\ \A i, j \in 1 .. n : i <= j => e[i] <= e[j]
      /\ \A i \in 1 .. n : h[i] \in {e[i], e[i] + 1}
  BY <1>1, <1>8 DEF Under
<1>10. L = l - a /\ l >= e[n] + a /\ m = L + x /\ m \in Nat /\ x \in {0, 1}
  <2>1. Takes(d) = a /\ Leaves(d) = x
    BY <1>1, <1>7
  <2>2. m = l - Takes(d) + Leaves(d) /\ l >= e[n] + Takes(d) /\ m \in Nat
    BY <1>8, EffectsIn
  <2>3. x \in {0, 1}
    BY <2>1 DEF Leaves
  <2> QED  BY <1>7, <2>1, <2>2, <2>3
<1>11. e[n] <= L /\ e[n] \in Nat
  BY <1>1, <1>7, <1>9, <1>10
<1>12. PICK r : r = Append(q, fr)
  OBVIOUS
<1>13. /\ Len(r) = n + 1
       /\ \A i \in 1 .. n : r[i] = q[i]
       /\ r[n + 1] = fr
  <2>1. /\ Len(Append(q, fr)) = Len(q) + 1
        /\ \A i \in 1 .. Len(q) : Append(q, fr)[i] = q[i]
        /\ Append(q, fr)[Len(q) + 1] = fr
    BY <1>4, PushType
  <2> QED  BY <1>4, <1>12, <2>1
<1>14. PICK b : b = [i \in 1 .. n + 1 |-> IF i = n + 1 THEN L ELSE e[i]]
  OBVIOUS
<1>15. PICK g : g = [i \in 1 .. n + 1 |-> IF i = n + 1 THEN m ELSE h[i]]
  OBVIOUS
<1>16. /\ b \in [1 .. n + 1 -> Nat] /\ b[n + 1] = L
       /\ \A i \in 1 .. n : b[i] = e[i]
  <2>1. n \in Nat /\ L \in Nat /\ e \in [1 .. n -> Nat]
    BY <1>1, <1>7, <1>9
  <2> QED  BY ONLY <1>14, <2>1, OneMore
<1>17. /\ g \in [1 .. n + 1 -> Nat] /\ g[n + 1] = m
       /\ \A i \in 1 .. n : g[i] = h[i]
  <2>1. n \in Nat /\ m \in Nat /\ h \in [1 .. n -> Nat]
    BY <1>1, <1>9, <1>10
  <2> QED  BY ONLY <1>15, <2>1, OneMore
<1>18. ASSUME NEW i \in 1 .. n + 1, NEW j \in 1 .. n + 1, i <= j PROVE b[i] <= b[j]
  <2>1. CASE j \in 1 .. n
    <3>1. i \in 1 .. n
      BY <1>18, <2>1
    <3> QED  BY <1>9, <1>16, <1>18, <2>1, <3>1
  <2>2. CASE j = n + 1 /\ i \in 1 .. n
    <3>0. i \in 1 .. n /\ n \in 1 .. n /\ i <= n
      BY <1>1, <2>2
    <3>1. e[i] <= e[n] /\ e[i] \in Nat
      BY <1>9, <3>0
    <3> QED  BY <1>11, <1>16, <2>2, <3>1, <1>7
  <2>3. CASE j = n + 1 /\ i = n + 1
    BY <1>7, <1>16, <2>3
  <2>4. \/ j \in 1 .. n \/ (j = n + 1 /\ i \in 1 .. n) \/ (j = n + 1 /\ i = n + 1)
    BY <1>1, <1>18
  <2> QED  BY <2>1, <2>2, <2>3, <2>4
<1>19. ASSUME NEW i \in 1 .. n + 1 PROVE g[i] \in {b[i], b[i] + 1}
  <2>1. CASE i \in 1 .. n
    BY <1>9, <1>16, <1>17, <2>1
  <2>2. CASE i = n + 1
    BY <1>7, <1>10, <1>16, <1>17, <2>2
  <2>3. i \in 1 .. n \/ i = n + 1
    BY <1>1
  <2> QED  BY <2>1, <2>2, <2>3
<1>20. ASSUME NEW i \in 2 .. n + 1
       PROVE  /\ Threads(Effects(b[i - 1]), r[i - 1].todo, g[i], g[i - 1])
              /\ \A k \in b[i - 1] + 1 .. b[i] : Local(new[k], r[i - 1])
              /\ g[i] # b[i] => FunctionOn(r[i]) = FunctionOn(r[i - 1])
  <2>1. CASE i \in 2 .. n
    <3>1. i - 1 \in 1 .. n - 1 /\ i \in 1 .. n /\ i - 1 \in 1 .. n /\ i <= n
      BY <1>1, <2>1
    <3>2. r[i - 1] = st[i - 1] /\ r[i].chain = st[i].chain
          /\ r[i - 1].chain = st[i - 1].chain
      BY <1>4, <1>13, <3>1
    <3>3. /\ Threads(Effects(e[i - 1]), st[i - 1].todo, h[i], h[i - 1])
          /\ \A k \in e[i - 1] + 1 .. e[i] : Local(ops[k], st[i - 1])
          /\ h[i] # e[i] => FunctionOn(st[i]) = FunctionOn(st[i - 1])
      BY <1>1, <1>8, <2>1 DEF Under
    <3>4. b[i] = e[i] /\ b[i - 1] = e[i - 1] /\ g[i] = h[i] /\ g[i - 1] = h[i - 1]
      BY <1>16, <1>17, <3>1
    <3>5. ASSUME NEW k \in b[i - 1] + 1 .. b[i] PROVE Local(new[k], r[i - 1])
      <4>1. e[i] <= e[n] /\ e[i] \in Nat /\ e[i - 1] \in Nat
        BY <1>1, <1>9, <3>1
      <4>2. PICK y : y = e[i]
        OBVIOUS
      <4>3. PICK x0 : x0 = e[i - 1]
        OBVIOUS
      <4>4. PICK z : z = e[n]
        OBVIOUS
      <4>5. k \in x0 + 1 .. y
        BY <3>4, <3>5, <4>2, <4>3
      <4>6. y <= z /\ y \in Nat /\ x0 \in Nat
        BY <4>1, <4>2, <4>3, <4>4
      <4>7. z <= L /\ z \in Nat /\ L \in Nat
        BY <1>7, <1>11, <4>4
      <4>8. k \in 1 .. L
        BY ONLY <4>5, <4>6, <4>7
      <4> QED  BY <1>7, <3>2, <3>3, <3>4, <4>2, <4>3, <4>5, <4>8
    <3> QED  BY <3>2, <3>3, <3>4, <3>5 DEF FunctionOn
  <2>2. CASE i = n + 1
    <3>1. i - 1 = n
      BY <1>1, <2>2
    <3>2. r[n].todo = Tail(st[n].todo) /\ r[n].chain = st[n].chain /\ r[n + 1] = fr
      BY <1>1, <1>4, <1>5, <1>13
    <3>3. b[i] = L /\ b[n] = e[n] /\ g[i] = m /\ g[n] = h[n]
      BY <1>1, <1>16, <1>17, <2>2
    <3>4. Threads(Effects(b[n]), r[n].todo, g[i], g[n])
      BY <1>8, <3>2, <3>3
    <3>5. ASSUME NEW k \in b[n] + 1 .. b[i] PROVE Local(new[k], r[n])
      <4>1. k \in 1 .. L /\ k \in e[n] + 1 .. l
        BY <1>7, <1>10, <1>11, <3>3
      <4>2. Local(ops[k], st[n])
        BY <1>8, <4>1
      <4> QED  BY <1>7, <3>2, <4>1, <4>2 DEF Local, FunctionOn
    <3>6. ASSUME g[i] # b[i] PROVE FunctionOn(r[i]) = FunctionOn(r[n])
      <4>1. x = 1
        BY <1>7, <1>10, <3>3, <3>6
      <4>2. FunctionOn(fr) = FunctionOn(st[n])
        BY <1>1, <4>1
      <4> QED  BY <2>2, <3>2, <4>2 DEF FunctionOn
    <3> QED  BY <3>1, <3>4, <3>5, <3>6
  <2>3. i \in 2 .. n \/ i = n + 1
    BY <1>1
  <2> QED  BY <2>1, <2>2, <2>3
<1>21. b[1] = 0
  BY <1>1, <1>9, <1>16
<1>22. Under(r, new, b, g)
  BY <1>13, <1>16, <1>17, <1>18, <1>19, <1>20, <1>21 DEF Under
<1>23. Threads(Effects(L), fr.todo, L, m)
  BY <1>7, <1>10
<1>24. b[n + 1] <= L
  BY <1>7, <1>16
<1>25. \A k \in L + 1 .. L : FALSE
  BY <1>7
<1>26. Holding(r, new)
  BY <1>7, <1>13, <1>16, <1>17, <1>22, <1>23, <1>24, <1>25 DEF Holding
<1> QED  BY <1>2, <1>12, <1>26

(* A frame that is closed leaves what it has to the frame below.           *)
LEMMA HoldingPop ==
    ASSUME NEW st \in Stacks, NEW ops \in Seq(Values), Holding(st, ops),
           Len(st) > 1, st[Len(st)].todo = <<>>
    PROVE  Holding(SubSeq(st, 1, Len(st) - 1), ops)
<1>1. PICK n \in Nat : n = Len(st) /\ n >= 2 /\ n \in 1 .. n /\ n \in 2 .. n
  BY StackType
<1>2. PICK r : r = SubSeq(st, 1, n - 1)
  OBVIOUS
<1>3. Len(r) = n - 1 /\ \A i \in 1 .. n - 1 : r[i] = st[i]
  BY <1>1, <1>2, PopType
<1>4. PICK l : l = Len(ops) /\ l \in Nat
  OBVIOUS
<1>5. PICK e, h :
        /\ Under(st, ops, e, h)
        /\ e[n] <= l
        /\ Threads(Effects(e[n]), <<>>, l, h[n])
        /\ \A k \in e[n] + 1 .. l : Local(ops[k], st[n])
  BY <1>1, <1>4 DEF Holding
<1>6. /\ e \in [1 .. n -> Nat] /\ h \in [1 .. n -> Nat] /\ e[1] = 0
      /\ \A i, j \in 1 .. n : i <= j => e[i] <= e[j]
      /\ \A i \in 1 .. n : h[i] \in {e[i], e[i] + 1}
      /\ \A i \in 2 .. n :
            /\ Threads(Effects(e[i - 1]), st[i - 1].todo, h[i], h[i - 1])
            /\ \A k \in e[i - 1] + 1 .. e[i] : Local(ops[k], st[i - 1])
            /\ h[i] # e[i] => FunctionOn(st[i]) = FunctionOn(st[i - 1])
  BY <1>1, <1>5 DEF Under
<1>7. h[n] = l
  <2>1. PICK g \in [1 .. Len(<<>>) + 1 -> Nat] : g[1] = l /\ g[Len(<<>>) + 1] = h[n]
    BY <1>5 DEF Threads
  <2>2. Len(<<>>) + 1 = 1
    OBVIOUS
  <2> QED  BY <2>1, <2>2
<1>8. PICK b, g : b = [i \in 1 .. n - 1 |-> e[i]] /\ g = [i \in 1 .. n - 1 |-> h[i]]
  OBVIOUS
<1>9. \A i \in 1 .. n - 1 : i \in 1 .. n /\ b[i] = e[i] /\ g[i] = h[i]
  BY <1>1, <1>8
<1>10. b \in [1 .. n - 1 -> Nat] /\ g \in [1 .. n - 1 -> Nat]
  BY <1>6, <1>8, <1>9
<1>11. Under(r, ops, b, g)
  <2>1. 1 \in 1 .. n - 1
    BY <1>1
  <2>2. \A i, j \in 1 .. n - 1 : i <= j => b[i] <= b[j]
    BY <1>6, <1>9
  <2>3. \A i \in 1 .. n - 1 : g[i] \in {b[i], b[i] + 1}
    BY <1>6, <1>9
  <2>4. ASSUME NEW i \in 2 .. n - 1
        PROVE  /\ Threads(Effects(b[i - 1]), r[i - 1].todo, g[i], g[i - 1])
               /\ \A k \in b[i - 1] + 1 .. b[i] : Local(ops[k], r[i - 1])
               /\ g[i] # b[i] => FunctionOn(r[i]) = FunctionOn(r[i - 1])
    <3>1. i \in 2 .. n /\ i - 1 \in 1 .. n - 1 /\ i \in 1 .. n - 1
      BY <1>1
    <3> QED  BY <1>3, <1>6, <1>9, <3>1
  <2> QED  BY <1>3, <1>6, <1>9, <1>10, <2>1, <2>2, <2>3, <2>4 DEF Under
<1>12. n - 1 \in 1 .. n - 1 /\ n - 1 \in 1 .. n /\ n - 1 <= n
  BY <1>1
<1>13. e[n - 1] \in Nat /\ e[n] \in Nat /\ e[n - 1] <= e[n]
  BY <1>1, <1>6, <1>12
<1>14. b[n - 1] <= l
  BY <1>4, <1>5, <1>9, <1>12, <1>13
<1>15. Threads(Effects(b[n - 1]), r[n - 1].todo, l, g[n - 1])
  BY <1>1, <1>3, <1>6, <1>7, <1>9, <1>12
<1>16. ASSUME NEW k \in b[n - 1] + 1 .. l PROVE Local(ops[k], r[n - 1])
  <2>1. b[n - 1] = e[n - 1] /\ r[n - 1] = st[n - 1]
    BY <1>3, <1>9, <1>12
  <2>2. CASE k <= e[n]
    <3>1. k \in e[n - 1] + 1 .. e[n]
      BY <1>13, <2>1, <2>2
    <3> QED  BY <1>1, <1>6, <2>1, <3>1
  <2>3. CASE ~ (k <= e[n])
    <3>1. k \in e[n] + 1 .. l
      BY <1>4, <1>13, <2>1, <2>3
    <3>2. h[n] # e[n]
      BY <1>4, <1>7, <1>13, <3>1
    <3>3. FunctionOn(st[n]) = FunctionOn(st[n - 1]) /\ Local(ops[k], st[n])
      BY <1>1, <1>5, <1>6, <3>1, <3>2
    <3> QED  BY <2>1, <3>3 DEF Local
  <2> QED  BY <2>2, <2>3
<1>17. Holding(r, ops)
  BY <1>3, <1>4, <1>11, <1>14, <1>15, <1>16 DEF Holding
<1> QED  BY <1>1, <1>2, <1>17

-----------------------------------------------------------------------------
(* Lists of items of the second pass.                                      *)
LEMMA WorkTask ==
    ASSUME NEW p \in Nat, NEW d \in Doings
    PROVE  /\ Work(d, p) \in Tasks /\ Work(d, p).do = d /\ Work(d, p).node = p
BY DEF Work, Tasks

LEMMA ReturnTask ==
    ASSUME NEW p \in Nat, NEW i \in Nat
    PROVE  LET e == [do |-> "ret", node |-> p, resume |-> i] IN
           e \in Tasks /\ ~ Waits(e) /\ e.do = "ret" /\ e.node = p
BY DEF Tasks, Doings, Waits

LEMMA LiftsExprs ==
    ASSUME NEW n \in Nat
    PROVE  Lifts(Exprs(n), n)
<1>1. Exprs(n) \in Seq({Expr}) /\ Len(Exprs(n)) = n /\ \A j \in 1 .. n : Exprs(n)[j] = Expr
  BY DEF Exprs
<1>2. Exprs(n) \in Seq(Tasks)
  <2>1. {Expr} \subseteq Tasks
    BY ExprTask
  <2> QED  BY <1>1, <2>1, SubsetSeq
<1>3. ASSUME NEW c \in Nat, NEW m \in Nat, c <= m
      PROVE  Threads(Effects(c), Exprs(n), m, m + n)
  <2>1. PICK g : g = [j \in 1 .. n + 1 |-> m + j - 1]
    OBVIOUS
  <2>2. g \in [1 .. n + 1 -> Nat] /\ g[1] = m /\ g[n + 1] = m + n
        /\ \A j \in 1 .. n : g[j] = m + j - 1 /\ g[j + 1] = m + j
    BY <2>1
  <2>3. Takes(Expr) = 0 /\ Leaves(Expr) = 1
    BY DEF Takes, Leaves, Expr
  <2>4. ASSUME NEW j \in 1 .. n
        PROVE  <<Exprs(n)[j], g[j], g[j + 1]>> \in Effects(c)
    <3>1. /\ Expr \in Tasks /\ g[j] \in Nat /\ g[j + 1] \in Nat
          /\ g[j] >= c + 0 /\ g[j + 1] = g[j] - 0 + 1
      BY <1>3, <2>2, ExprTask
    <3>2. <<Expr, g[j], g[j + 1]>> \in Effects(c)
      BY <2>3, <3>1, EffectsIn
    <3> QED  BY <1>1, <3>2
  <2> QED  BY <1>1, <2>2, <2>4 DEF Threads
<1> QED  BY <1>2, <1>3 DEF Lifts

LEMMA LiftsThen ==
    ASSUME NEW u, NEW a \in Nat, Lifts(u, a), NEW e \in Tasks,
           Takes(e) \in Nat, Takes(e) <= a
    PROVE  Lifts(u \o <<e>>, a - Takes(e) + Leaves(e))
<1>1. u \in Seq(Tasks) /\ <<e>> \in Seq(Tasks)
  BY DEF Lifts
<1>2. PICK b : b = Takes(e) /\ b \in Nat /\ b <= a
  OBVIOUS
<1>3. PICK l : l = Leaves(e) /\ l \in {0, 1}
  BY DEF Leaves
<1>4. ASSUME NEW c \in Nat, NEW m \in Nat, c <= m
      PROVE  Threads(Effects(c), u \o <<e>>, m, m + (a - b + l))
  <2>1. Threads(Effects(c), u, m, m + a)
    BY <1>4 DEF Lifts
  <2>2. PICK x, y : x = m + a /\ y = m + (a - b + l)
    OBVIOUS
  <2>3. x \in Nat /\ y \in Nat /\ x >= c + b /\ y = x - b + l
    BY <1>2, <1>3, <1>4, <2>2
  <2>4. <<e, x, y>> \in Effects(c)
    BY <1>2, <1>3, <2>3, EffectsIn
  <2>5. Threads(Effects(c), <<e>>, x, y)
    BY <2>3, <2>4, ThreadOne
  <2>6. IsSeq(u) /\ IsSeq(<<e>>)
    BY <1>1 DEF IsSeq
  <2>7. PICK R : R = Effects(c)
    OBVIOUS
  <2> QED  BY <2>1, <2>2, <2>5, <2>6, <2>7, ThreadConcat
<1>5. u \o <<e>> \in Seq(Tasks)
  BY <1>1
<1> QED  BY <1>2, <1>3, <1>4, <1>5 DEF Lifts

LEMMA LiftsOne == Lifts(<<Expr>>, 1)
<1>1. <<Expr>> \in Seq(Tasks)
  BY ExprTask
<1>2. Takes(Expr) = 0 /\ Leaves(Expr) = 1
  BY DEF Takes, Leaves, Expr
<1>3. ASSUME NEW c \in Nat, NEW m \in Nat, c <= m
      PROVE  Threads(Effects(c), <<Expr>>, m, m + 1)
  <2>1. <<Expr, m, m + 1>> \in Effects(c)
    BY <1>2, <1>3, ExprTask, EffectsIn
  <2>2. m + 1 \in Nat
    OBVIOUS
  <2> QED  BY <2>1, <2>2, ThreadOne
<1> QED  BY <1>1, <1>3 DEF Lifts

LEMMA ExprThen ==
    ASSUME NEW e
    PROVE  <<Expr>> \o <<e>> = <<Expr, e>>
<1> DEFINE S == {Expr, e}  s == <<Expr>> \o <<e>>  t == <<Expr, e>>
<1>1. <<Expr>> \in Seq(S) /\ <<e>> \in Seq(S) /\ Len(<<Expr>>) = 1 /\ Len(<<e>>) = 1
      /\ <<Expr>>[1] = Expr /\ <<e>>[1] = e
  OBVIOUS
<1>2. s \in Seq(S) /\ Len(s) = 2 /\ s[1] = Expr /\ s[2] = e
  BY <1>1
<1>3. t \in Seq(S) /\ Len(t) = 2 /\ t[1] = Expr /\ t[2] = e
  OBVIOUS
<1>4. \A i \in 1 .. 2 : i = 1 \/ i = 2
  OBVIOUS
<1> HIDE DEF s, t, S
<1>5. \A i \in 1 .. Len(s) : s[i] = t[i]
  BY <1>2, <1>3, <1>4
<1>6. s = t
  BY <1>2, <1>3, <1>5, SeqEqual
<1> QED  BY <1>6 DEF s, t

(* The value of a variable, the definition of a function and what follows  *)
(* it, and the body of a function.                                         *)
LEMMA LiftsBind ==
    ASSUME NEW e \in Tasks, e.do = "bind"
    PROVE  Lifts(<<Expr, e>>, 1)
<1>1. Takes(e) = 1 /\ Leaves(e) = 1 /\ 1 - 1 + 1 = 1
  BY DEF Takes, Leaves
<1>2. Lifts(<<Expr>> \o <<e>>, 1 - 1 + 1)
  BY <1>1, LiftsOne, LiftsThen
<1> QED  BY <1>1, <1>2, ExprThen

LEMMA LiftsDefine ==
    ASSUME NEW e \in Tasks, e.do = "define"
    PROVE  Lifts(<<e, Expr>>, 1)
<1>1. <<e, Expr>> \in Seq(Tasks)
  BY ExprTask
<1>2. Takes(Expr) = 0 /\ Leaves(Expr) = 1 /\ Takes(e) = 0 /\ Leaves(e) = 0
  BY DEF Takes, Leaves, Expr
<1>3. ASSUME NEW c \in Nat, NEW m \in Nat, c <= m
      PROVE  Threads(Effects(c), <<e, Expr>>, m, m + 1)
  <2>1. <<e, m, m>> \in Effects(c) /\ <<Expr, m, m + 1>> \in Effects(c)
    BY <1>2, <1>3, ExprTask, EffectsIn
  <2>2. m + 1 \in Nat
    OBVIOUS
  <2> QED  BY <2>1, <2>2, ThreadTwo
<1> QED  BY <1>1, <1>3 DEF Lifts

LEMMA LevelReturn ==
    ASSUME NEW e \in Tasks, e.do = "ret", NEW c \in Nat
    PROVE  Threads(Effects(c), <<Expr, e>>, c, c)
<1>1. Takes(Expr) = 0 /\ Leaves(Expr) = 1 /\ Takes(e) = 1 /\ Leaves(e) = 0
  BY DEF Takes, Leaves, Expr
<1>2. c + 1 \in Nat
  OBVIOUS
<1>3. <<Expr, c, c + 1>> \in Effects(c) /\ <<e, c + 1, c>> \in Effects(c)
  BY <1>1, <1>2, ExprTask, EffectsIn
<1> QED  BY <1>2, <1>3, ThreadTwo

(* The three operands of a conditional.                                    *)
Conditional(d, e) == <<Expr, d, Expr, Expr, e>>

LEMMA ConditionalItems ==
    ASSUME NEW d \in Tasks, NEW e \in Tasks
    PROVE  /\ Conditional(d, e) \in Seq(Tasks) /\ Len(Conditional(d, e)) = 5
           /\ Conditional(d, e)[1] = Expr /\ Conditional(d, e)[2] = d
           /\ Conditional(d, e)[3] = Expr /\ Conditional(d, e)[4] = Expr
           /\ Conditional(d, e)[5] = e
BY ExprTask DEF Conditional

LEMMA FiveItems == \A j \in 1 .. 5 : j = 1 \/ j = 2 \/ j = 3 \/ j = 4 \/ j = 5
OBVIOUS

LEMMA LiftsConditional ==
    ASSUME NEW d \in Tasks, d.do = "boolean", NEW e \in Tasks, e.do = "merge"
    PROVE  Lifts(Conditional(d, e), 1)
<1> DEFINE t == Conditional(d, e)
<1>1. t \in Seq(Tasks) /\ Len(t) = 5 /\ t[1] = Expr /\ t[2] = d /\ t[3] = Expr
      /\ t[4] = Expr /\ t[5] = e
  BY ConditionalItems
<1>2. /\ Takes(Expr) = 0 /\ Leaves(Expr) = 1 /\ Takes(d) = 1 /\ Leaves(d) = 1
      /\ Takes(e) = 3 /\ Leaves(e) = 1
  BY DEF Takes, Leaves, Expr
<1> HIDE DEF t
<1>3. ASSUME NEW c \in Nat, NEW m \in Nat, c <= m
      PROVE  Threads(Effects(c), t, m, m + 1)
  <2>1. PICK g : g = [j \in 1 .. 6 |-> IF j = 1 THEN m ELSE IF j \in {2, 3, 6} THEN m + 1
                                       ELSE IF j = 4 THEN m + 2 ELSE m + 3]
    OBVIOUS
  <2>2. /\ g \in [1 .. 5 + 1 -> Nat] /\ g[1] = m /\ g[2] = m + 1 /\ g[3] = m + 1
        /\ g[4] = m + 2 /\ g[5] = m + 3 /\ g[6] = m + 1
    BY <2>1
  <2>3. <<t[1], g[1], g[2]>> \in Effects(c)
    <3>1. m + 1 \in Nat /\ m >= c + 0 /\ m + 1 = m - 0 + 1
      BY <1>3
    <3> QED  BY <1>1, <1>2, <2>2, <3>1, ExprTask, EffectsIn
  <2>4. <<t[2], g[2], g[3]>> \in Effects(c)
    <3>1. m + 1 \in Nat /\ m + 1 >= c + 1 /\ m + 1 = (m + 1) - 1 + 1
      BY <1>3
    <3> QED  BY <1>1, <1>2, <2>2, <3>1, EffectsIn
  <2>5. <<t[3], g[3], g[4]>> \in Effects(c)
    <3>1. m + 1 \in Nat /\ m + 2 \in Nat /\ m + 1 >= c + 0 /\ m + 2 = (m + 1) - 0 + 1
      BY <1>3
    <3> QED  BY <1>1, <1>2, <2>2, <3>1, ExprTask, EffectsIn
  <2>6. <<t[4], g[4], g[5]>> \in Effects(c)
    <3>1. m + 2 \in Nat /\ m + 3 \in Nat /\ m + 2 >= c + 0 /\ m + 3 = (m + 2) - 0 + 1
      BY <1>3
    <3> QED  BY <1>1, <1>2, <2>2, <3>1, ExprTask, EffectsIn
  <2>7. <<t[5], g[5], g[6]>> \in Effects(c)
    <3>1. m + 3 \in Nat /\ m + 1 \in Nat /\ m + 3 >= c + 3 /\ m + 1 = (m + 3) - 3 + 1
      BY <1>3
    <3> QED  BY <1>1, <1>2, <2>2, <3>1, EffectsIn
  <2>8. ASSUME NEW j \in 1 .. 5 PROVE <<t[j], g[j], g[j + 1]>> \in Effects(c)
    <3>1. 1 + 1 = 2 /\ 2 + 1 = 3 /\ 3 + 1 = 4 /\ 4 + 1 = 5 /\ 5 + 1 = 6
      OBVIOUS
    <3> QED  BY <2>3, <2>4, <2>5, <2>6, <2>7, <3>1, FiveItems
  <2>9. 5 + 1 = 6
    OBVIOUS
  <2> QED  BY <1>1, <2>2, <2>8, <2>9 DEF Threads
<1>4. Lifts(t, 1)
  BY <1>1, <1>3 DEF Lifts
<1> QED  BY <1>4 DEF t

LEMMA SuitConditional ==
    ASSUME NEW d \in Tasks, NEW e \in Tasks, ~ Waits(d), ~ Waits(e), NEW sc
    PROVE  Suits(Conditional(d, e), sc, 3)
<1> DEFINE t == Conditional(d, e)
<1>1. t \in Seq(Tasks) /\ Len(t) = 5 /\ t[1] = Expr /\ t[2] = d /\ t[3] = Expr
      /\ t[4] = Expr /\ t[5] = e
  BY ConditionalItems
<1> HIDE DEF t
<1>2. ASSUME NEW v, NEW m, m \in Nat, \A i \in 1 .. 3 : v[m + 3 + 1 - i] = sc
      PROVE  Threads(Positions(v, sc), t, m + 3, m)
  <2>1. PICK g : g = [j \in 1 .. 6 |-> IF j = 1 THEN m + 3 ELSE IF j \in {2, 3} THEN m + 2
                                       ELSE IF j = 4 THEN m + 1 ELSE m]
    OBVIOUS
  <2>2. /\ g \in [1 .. 5 + 1 -> Nat] /\ g[1] = m + 3 /\ g[2] = m + 2 /\ g[3] = m + 2
        /\ g[4] = m + 1 /\ g[5] = m /\ g[6] = m
    BY <1>2, <2>1
  <2>3. v[m + 3] = sc /\ v[m + 2] = sc /\ v[m + 1] = sc
    <3>1. /\ m + 3 + 1 - 1 = m + 3 /\ m + 3 + 1 - 2 = m + 2 /\ m + 3 + 1 - 3 = m + 1
          /\ 1 \in 1 .. 3 /\ 2 \in 1 .. 3 /\ 3 \in 1 .. 3
      BY <1>2
    <3> QED  BY <1>2, <3>1
  <2>4. /\ m + 1 \in Nat /\ m + 2 \in Nat /\ m + 3 \in Nat
        /\ m + 3 = (m + 2) + 1 /\ m + 2 = (m + 1) + 1
    BY <1>2
  <2>5. <<t[1], g[1], g[2]>> \in Positions(v, sc)
    BY <1>1, <2>2, <2>3, <2>4, ExprTask, PositionsIn
  <2>6. <<t[2], g[2], g[3]>> \in Positions(v, sc)
    BY <1>1, <2>2, <2>4, PositionsIn
  <2>7. <<t[3], g[3], g[4]>> \in Positions(v, sc)
    BY <1>1, <2>2, <2>3, <2>4, ExprTask, PositionsIn
  <2>8. <<t[4], g[4], g[5]>> \in Positions(v, sc)
    BY <1>1, <1>2, <2>2, <2>3, <2>4, ExprTask, PositionsIn
  <2>9. <<t[5], g[5], g[6]>> \in Positions(v, sc)
    BY <1>1, <1>2, <2>2, PositionsIn
  <2>10. ASSUME NEW j \in 1 .. 5 PROVE <<t[j], g[j], g[j + 1]>> \in Positions(v, sc)
    <3>1. 1 + 1 = 2 /\ 2 + 1 = 3 /\ 3 + 1 = 4 /\ 4 + 1 = 5 /\ 5 + 1 = 6
      OBVIOUS
    <3> QED  BY <2>5, <2>6, <2>7, <2>8, <2>9, <3>1, FiveItems
  <2>11. 5 + 1 = 6
    OBVIOUS
  <2> QED  BY <1>1, <2>2, <2>10, <2>11 DEF Threads
<1>3. Suits(t, sc, 3)
  BY <1>1, <1>2 DEF Suits
<1> QED  BY <1>3 DEF t

(* Elements of a vector, each checked as soon as its code is generated.    *)
Checked(n, e) == [i \in 1 .. 2 * n |-> IF i % 2 = 1 THEN Expr ELSE e]

LEMMA CheckedItems ==
    ASSUME NEW n \in Nat, NEW e \in Tasks
    PROVE  /\ Checked(n, e) \in Seq(Tasks) /\ Len(Checked(n, e)) = 2 * n
           /\ \A j \in 1 .. 2 * n :
                 /\ j % 2 = 1 => Checked(n, e)[j] = Expr
                                 /\ (j + 1) \div 2 = (j \div 2) + 1
                                 /\ j \div 2 \in 0 .. n - 1
                 /\ j % 2 # 1 => Checked(n, e)[j] = e
                                 /\ (j + 1) \div 2 = j \div 2
                                 /\ j \div 2 \in 1 .. n
           /\ \A j \in 1 .. 2 * n + 1 : j \div 2 \in 0 .. n
           /\ 1 \div 2 = 0 /\ (2 * n + 1) \div 2 = n
<1>1. Checked(n, e) \in Seq(Tasks) /\ Len(Checked(n, e)) = 2 * n
  <2>1. \A i \in 1 .. 2 * n : (IF i % 2 = 1 THEN Expr ELSE e) \in Tasks
    BY ExprTask
  <2>2. 2 * n \in Nat
    OBVIOUS
  <2>3. Checked(n, e) \in [1 .. 2 * n -> Tasks]
    BY <2>1 DEF Checked
  <2> QED  BY <2>2, <2>3
<1>2. ASSUME NEW j \in 1 .. 2 * n
      PROVE  /\ j % 2 = 1 => (j + 1) \div 2 = (j \div 2) + 1 /\ j \div 2 \in 0 .. n - 1
             /\ j % 2 # 1 => (j + 1) \div 2 = j \div 2 /\ j \div 2 \in 1 .. n
  OBVIOUS
<1>3. \A j \in 1 .. 2 * n : /\ j % 2 = 1 => Checked(n, e)[j] = Expr
                            /\ j % 2 # 1 => Checked(n, e)[j] = e
  BY DEF Checked
<1>4. \A j \in 1 .. 2 * n + 1 : j \div 2 \in 0 .. n
  OBVIOUS
<1>5. 1 \div 2 = 0 /\ (2 * n + 1) \div 2 = n
  OBVIOUS
<1> QED  BY <1>1, <1>2, <1>3, <1>4, <1>5

LEMMA LiftsChecked ==
    ASSUME NEW n \in Nat, NEW e \in Tasks, e.do = "real"
    PROVE  Lifts(Checked(n, e), n)
<1>1. ASSUME NEW c \in Nat, NEW m \in Nat, c <= m
      PROVE  Threads(Effects(c), Checked(n, e), m, m + n)
  <2>1. PICK g : g = [j \in 1 .. 2 * n + 1 |-> m + (j \div 2)]
    OBVIOUS
  <2>2. ASSUME NEW j \in 1 .. 2 * n + 1 PROVE g[j] = m + (j \div 2) /\ g[j] \in Nat
    <3>1. j \div 2 \in 0 .. n
      BY CheckedItems
    <3> QED  BY <2>1, <3>1
  <2>3. g \in [1 .. 2 * n + 1 -> Nat] /\ g[1] = m /\ g[2 * n + 1] = m + n
    <3>1. 1 \in 1 .. 2 * n + 1 /\ 2 * n + 1 \in 1 .. 2 * n + 1
      OBVIOUS
    <3>2. PICK x, y : x = 1 \div 2 /\ y = (2 * n + 1) \div 2
      OBVIOUS
    <3>3. g[1] = m + x /\ g[2 * n + 1] = m + y
      BY <2>2, <3>1, <3>2
    <3>4. x = 0 /\ y = n
      BY <3>2, CheckedItems
    <3>5. g[1] = m /\ g[2 * n + 1] = m + n
      BY <3>3, <3>4
    <3> QED  BY <2>1, <2>2, <3>5
  <2>4. /\ Takes(Expr) = 0 /\ Leaves(Expr) = 1 /\ Takes(e) = 1 /\ Leaves(e) = 1
    BY DEF Takes, Leaves, Expr
  <2>5. ASSUME NEW j \in 1 .. 2 * n
        PROVE  <<Checked(n, e)[j], g[j], g[j + 1]>> \in Effects(c)
    <3>1. /\ j \in 1 .. 2 * n + 1 /\ j + 1 \in 1 .. 2 * n + 1
      OBVIOUS
    <3>2. PICK x, y : x = j \div 2 /\ y = (j + 1) \div 2
      OBVIOUS
    <3>3. g[j] = m + x /\ g[j] \in Nat /\ g[j + 1] = m + y /\ g[j + 1] \in Nat
      BY <2>2, <3>1, <3>2
    <3>4. CASE j % 2 = 1
      <4>1. Checked(n, e)[j] = Expr /\ y = x + 1 /\ x \in 0 .. n - 1
        BY <3>2, <3>4, CheckedItems
      <4>2. g[j] >= c + 0 /\ g[j + 1] = g[j] - 0 + 1
        BY <1>1, <3>3, <4>1
      <4>3. <<Expr, g[j], g[j + 1]>> \in Effects(c)
        BY <2>4, <3>3, <4>2, ExprTask, EffectsIn
      <4> QED  BY <4>1, <4>3
    <3>5. CASE j % 2 # 1
      <4>1. Checked(n, e)[j] = e /\ y = x /\ x \in 1 .. n
        BY <3>2, <3>5, CheckedItems
      <4>2. g[j] >= c + 1 /\ g[j + 1] = g[j] - 1 + 1
        BY <1>1, <3>3, <4>1
      <4>3. <<e, g[j], g[j + 1]>> \in Effects(c)
        BY <2>4, <3>3, <4>2, EffectsIn
      <4> QED  BY <4>1, <4>3
    <3> QED  BY <3>4, <3>5
  <2>6. Len(Checked(n, e)) = 2 * n
    BY CheckedItems
  <2> QED  BY <2>3, <2>5, <2>6 DEF Threads
<1>2. Checked(n, e) \in Seq(Tasks)
  BY CheckedItems
<1> QED  BY <1>1, <1>2 DEF Lifts

LEMMA SuitChecked ==
    ASSUME NEW n \in Nat, NEW sc, NEW e \in Tasks, ~ Waits(e)
    PROVE  Suits(Checked(n, e), sc, n)
<1>1. ASSUME NEW v, NEW m \in Nat, \A i \in 1 .. n : v[m + n + 1 - i] = sc
      PROVE  Threads(Positions(v, sc), Checked(n, e), m + n, m)
  <2>1. PICK g : g = [j \in 1 .. 2 * n + 1 |-> m + n - (j \div 2)]
    OBVIOUS
  <2>2. ASSUME NEW j \in 1 .. 2 * n + 1 PROVE g[j] = m + n - (j \div 2) /\ g[j] \in Nat
    <3>1. j \div 2 \in 0 .. n
      BY CheckedItems
    <3> QED  BY <2>1, <3>1
  <2>3. g \in [1 .. 2 * n + 1 -> Nat] /\ g[1] = m + n /\ g[2 * n + 1] = m
    <3>1. 1 \in 1 .. 2 * n + 1 /\ 2 * n + 1 \in 1 .. 2 * n + 1
      OBVIOUS
    <3>2. PICK x, y : x = 1 \div 2 /\ y = (2 * n + 1) \div 2
      OBVIOUS
    <3>3. g[1] = m + n - x /\ g[2 * n + 1] = m + n - y
      BY <2>2, <3>1, <3>2
    <3>4. x = 0 /\ y = n
      BY <3>2, CheckedItems
    <3>5. g[1] = m + n /\ g[2 * n + 1] = m
      BY <3>3, <3>4
    <3> QED  BY <2>1, <2>2, <3>5
  <2>4. ASSUME NEW j \in 1 .. 2 * n
        PROVE  <<Checked(n, e)[j], g[j], g[j + 1]>> \in Positions(v, sc)
    <3>1. /\ j \in 1 .. 2 * n + 1 /\ j + 1 \in 1 .. 2 * n + 1
      OBVIOUS
    <3>2. PICK x, y : x = j \div 2 /\ y = (j + 1) \div 2
      OBVIOUS
    <3>3. /\ g[j] = m + n - x /\ g[j] \in Nat
          /\ g[j + 1] = m + n - y /\ g[j + 1] \in Nat
      BY <2>2, <3>1, <3>2
    <3>4. CASE j % 2 = 1
      <4>1. Checked(n, e)[j] = Expr /\ y = x + 1 /\ x \in 0 .. n - 1
        BY <3>2, <3>4, CheckedItems
      <4>2. x + 1 \in 1 .. n /\ m + n + 1 - (x + 1) = g[j] /\ g[j] = g[j + 1] + 1
        BY <3>3, <4>1
      <4>3. v[g[j]] = sc
        BY <1>1, <4>2
      <4>4. <<Expr, g[j], g[j + 1]>> \in Positions(v, sc)
        BY <3>3, <4>2, <4>3, ExprTask, PositionsIn
      <4> QED  BY <4>1, <4>4
    <3>5. CASE j % 2 # 1
      <4>1. Checked(n, e)[j] = e /\ y = x
        BY <3>2, <3>5, CheckedItems
      <4>2. <<e, g[j], g[j + 1]>> \in Positions(v, sc)
        BY <3>3, <4>1, PositionsIn
      <4> QED  BY <4>1, <4>2
    <3> QED  BY <3>4, <3>5
  <2>5. Len(Checked(n, e)) = 2 * n
    BY CheckedItems
  <2> QED  BY <2>3, <2>4, <2>5 DEF Threads
<1>2. Checked(n, e) \in Seq(Tasks)
  BY CheckedItems
<1> QED  BY <1>1, <1>2 DEF Suits

-----------------------------------------------------------------------------
(* No definition of q is left to be made.                                  *)
Without(st, q) ==
    \A i \in 1 .. Len(st) : \A j \in 1 .. Len(st[i].todo) :
        Defines(st[i].todo[j]) => st[i].todo[j].node # q

(* The definitions of r are at other places than those of st, except one   *)
(* of q that is new.                                                       *)
Moved(st, r, d, q, l, k) ==
    \A i \in 1 .. Len(r) : \A j \in 1 .. Len(r[i].todo) :
        Defines(r[i].todo[j]) =>
            \/ i = l /\ j = k /\ r[i].todo[j].node = q
            \/ /\ i \in 1 .. Len(st) /\ j + d[i] \in 1 .. Len(st[i].todo)
               /\ r[i].todo[j] = st[i].todo[j + d[i]]

LEMMA OnceMoved ==
    ASSUME NEW st, NEW r, NEW m \in Nat, Len(r) = m, Once(st),
           NEW d \in [1 .. m -> Int], NEW q, Without(st, q),
           NEW l, NEW k, Moved(st, r, d, q, l, k),
           \A i \in 1 .. m : Len(r[i].todo) \in Nat
    PROVE  Once(r)
<1> SUFFICES ASSUME NEW i \in 1 .. Len(r), NEW x \in 1 .. Len(r),
                    NEW j \in 1 .. Len(r[i].todo), NEW y \in 1 .. Len(r[x].todo),
                    Defines(r[i].todo[j]), Defines(r[x].todo[y]),
                    r[i].todo[j].node = r[x].todo[y].node
             PROVE  i = x /\ j = y
  BY DEF Once
<1>1. \/ i = l /\ j = k /\ r[i].todo[j].node = q
      \/ /\ i \in 1 .. Len(st) /\ j + d[i] \in 1 .. Len(st[i].todo)
         /\ r[i].todo[j] = st[i].todo[j + d[i]]
  BY DEF Moved
<1>2. \/ x = l /\ y = k /\ r[x].todo[y].node = q
      \/ /\ x \in 1 .. Len(st) /\ y + d[x] \in 1 .. Len(st[x].todo)
         /\ r[x].todo[y] = st[x].todo[y + d[x]]
  BY DEF Moved
<1>3. CASE i = l /\ j = k /\ r[i].todo[j].node = q
  BY <1>2, <1>3 DEF Without
<1>4. CASE x = l /\ y = k /\ r[x].todo[y].node = q
  BY <1>1, <1>4 DEF Without
<1>5. CASE /\ i \in 1 .. Len(st) /\ j + d[i] \in 1 .. Len(st[i].todo)
           /\ r[i].todo[j] = st[i].todo[j + d[i]]
           /\ x \in 1 .. Len(st) /\ y + d[x] \in 1 .. Len(st[x].todo)
           /\ r[x].todo[y] = st[x].todo[y + d[x]]
  <2>1. i = x /\ j + d[i] = y + d[x]
    BY <1>5 DEF Once
  <2>2. d[i] \in Int /\ j \in Int /\ y \in Int
    OBVIOUS
  <2> QED  BY <2>1, <2>2
<1> QED  BY <1>1, <1>2, <1>3, <1>4, <1>5

Shift(st, u, i) == IF i = Len(st) THEN 1 - Len(u) ELSE 0

LEMMA ItemsInstead ==
    ASSUME NEW st \in Stacks, st[Len(st)].todo # <<>>, NEW u \in Seq(Tasks),
           NEW r, r = Instead(st, u)
    PROVE  /\ Len(r) = Len(st) /\ r \in Stacks
           /\ \A i \in 1 .. Len(st) : \A j \in 1 .. Len(r[i].todo) :
                 \/ i = Len(st) /\ j \in 1 .. Len(u) /\ r[i].todo[j] = u[j]
                 \/ /\ j + Shift(st, u, i) \in 1 .. Len(st[i].todo)
                    /\ r[i].todo[j] = st[i].todo[j + Shift(st, u, i)]
                    /\ i = Len(st) => j + Shift(st, u, i) >= 2
<1>1. PICK n \in Nat : n = Len(st) /\ n >= 1 /\ n \in 1 .. n
  BY StackType
<1> DEFINE t == st[n].todo
<1>2. /\ r \in Stacks /\ Len(r) = n
      /\ \A i \in 1 .. n - 1 : r[i] = st[i]
      /\ r[n].todo = u \o Tail(t)
  BY <1>1, InsteadType
<1>3. t \in Seq(Tasks) /\ t # <<>> /\ IsSeq(t) /\ IsSeq(u) /\ Len(u) \in Nat /\ Len(t) \in Nat
  <2>1. t \in Seq(Tasks) /\ t # <<>> /\ IsSeq(t)
    BY <1>1, StackType
  <2>2. IsSeq(u)
    BY DEF IsSeq
  <2> QED  BY <2>1, <2>2, SeqLength
<1>t. t = st[n].todo
  OBVIOUS
<1> HIDE DEF t
<1> DEFINE x == u \o Tail(t)
<1>4. /\ Len(x) = Len(u) + Len(t) - 1
      /\ \A i \in 1 .. Len(u) : x[i] = u[i]
      /\ \A i \in 2 .. Len(t) : x[Len(u) + i - 1] = t[i]
  BY <1>3, ReplaceFirst
<1>5. r[n].todo = x
  BY <1>2
<1> HIDE DEF x
<1>6. ASSUME NEW i \in 1 .. n, NEW j \in 1 .. Len(r[i].todo), i # n
      PROVE  /\ j + Shift(st, u, i) \in 1 .. Len(st[i].todo)
             /\ r[i].todo[j] = st[i].todo[j + Shift(st, u, i)]
  <2>1. r[i] = st[i] /\ Shift(st, u, i) = 0
    <3>1. i \in 1 .. n - 1
      BY <1>1, <1>6
    <3> QED  BY <1>1, <1>2, <1>6, <3>1 DEF Shift
  <2>2. j + 0 = j
    OBVIOUS
  <2> QED  BY <2>1, <2>2
<1>7. ASSUME NEW j \in 1 .. Len(r[n].todo), j \notin 1 .. Len(u)
      PROVE  /\ j + Shift(st, u, n) \in 1 .. Len(st[n].todo)
             /\ r[n].todo[j] = st[n].todo[j + Shift(st, u, n)]
             /\ j + Shift(st, u, n) >= 2
  <2>1. PICK a \in Nat : a = Len(u)
    BY <1>3
  <2>2. PICK b \in Nat : b = Len(t)
    BY <1>3
  <2>3. Shift(st, u, n) = 1 - a
    BY <1>1, <2>1 DEF Shift
  <2>4. j \in 1 .. a + b - 1 /\ ~ (j <= a)
    BY <1>4, <1>5, <1>7, <2>1, <2>2
  <2>5. j + (1 - a) \in 2 .. b /\ j + (1 - a) \in 1 .. b /\ a + (j + (1 - a)) - 1 = j
    BY <2>4
  <2>6. x[a + (j + (1 - a)) - 1] = t[j + (1 - a)]
    BY <1>4, <2>1, <2>2, <2>5
  <2> QED  BY <1>5, <1>t, <2>2, <2>3, <2>5, <2>6
<1>8. \A j \in 1 .. Len(r[n].todo) : j \in 1 .. Len(u) => r[n].todo[j] = u[j]
  BY <1>4, <1>5
<1>9. ASSUME NEW i \in 1 .. Len(st), NEW j \in 1 .. Len(r[i].todo)
      PROVE  \/ i = Len(st) /\ j \in 1 .. Len(u) /\ r[i].todo[j] = u[j]
             \/ /\ j + Shift(st, u, i) \in 1 .. Len(st[i].todo)
                /\ r[i].todo[j] = st[i].todo[j + Shift(st, u, i)]
                /\ i = Len(st) => j + Shift(st, u, i) >= 2
  <2>1. CASE i # n
    BY <1>1, <1>6, <2>1
  <2>2. CASE i = n
    <3>1. CASE j \in 1 .. Len(u)
      BY <1>1, <1>8, <2>2, <3>1
    <3>2. CASE j \notin 1 .. Len(u)
      <4>1. j \in 1 .. Len(r[n].todo)
        BY <2>2
      <4> QED  BY <1>7, <2>2, <3>2, <4>1
    <3> QED  BY <3>1, <3>2
  <2> QED  BY <2>1, <2>2
<1> QED  BY <1>1, <1>2, <1>9

LEMMA TodoLengths ==
    ASSUME NEW st \in Stacks
    PROVE  \A i \in 1 .. Len(st) : Len(st[i].todo) \in Nat
<1>1. \A i \in 1 .. Len(st) : IsSeq(st[i].todo)
  BY StackType
<1> QED  BY <1>1, SeqLength

(* The items u define q, at place k, or nothing.                           *)
DefinesAt(u, q, k) ==
    u \in Seq(Tasks) /\ \A j \in 1 .. Len(u) : Defines(u[j]) => j = k /\ u[j].node = q

LEMMA OnceInstead ==
    ASSUME NEW st \in Stacks, Once(st), st[Len(st)].todo # <<>>,
           NEW q, Without(st, q), NEW u, NEW k, DefinesAt(u, q, k)
    PROVE  Once(Instead(st, u))
<1>1. PICK n \in Nat : n = Len(st)
  BY StackType
<1>2. PICK r : r = Instead(st, u)
  OBVIOUS
<1>3. u \in Seq(Tasks) /\ Len(u) \in Nat
  BY DEF DefinesAt
<1> DEFINE d == [i \in 1 .. n |-> Shift(st, u, i)]
<1>4. d \in [1 .. n -> Int] /\ \A i \in 1 .. n : d[i] = Shift(st, u, i)
  BY <1>3 DEF Shift
<1> HIDE DEF d
<1>5. /\ Len(r) = n /\ r \in Stacks
      /\ \A i \in 1 .. n : \A j \in 1 .. Len(r[i].todo) :
            \/ i = n /\ j \in 1 .. Len(u) /\ r[i].todo[j] = u[j]
            \/ /\ j + Shift(st, u, i) \in 1 .. Len(st[i].todo)
               /\ r[i].todo[j] = st[i].todo[j + Shift(st, u, i)]
               /\ i = n => j + Shift(st, u, i) >= 2
  BY <1>1, <1>2, <1>3, ItemsInstead
<1>6. Moved(st, r, d, q, n, k)
  <2> SUFFICES ASSUME NEW i \in 1 .. n, NEW j \in 1 .. Len(r[i].todo),
                      Defines(r[i].todo[j])
               PROVE  \/ i = n /\ j = k /\ r[i].todo[j].node = q
                      \/ /\ i \in 1 .. Len(st) /\ j + d[i] \in 1 .. Len(st[i].todo)
                         /\ r[i].todo[j] = st[i].todo[j + d[i]]
    BY <1>5 DEF Moved
  <2>1. CASE i = n /\ j \in 1 .. Len(u) /\ r[i].todo[j] = u[j]
    BY <2>1 DEF DefinesAt
  <2>2. CASE /\ j + Shift(st, u, i) \in 1 .. Len(st[i].todo)
             /\ r[i].todo[j] = st[i].todo[j + Shift(st, u, i)]
    BY <1>1, <1>4, <2>2
  <2> QED  BY <1>5, <2>1, <2>2
<1>7. \A i \in 1 .. n : Len(r[i].todo) \in Nat
  BY <1>5, TodoLengths
<1>8. Once(r)
  BY <1>4, <1>5, <1>6, <1>7, OnceMoved
<1> QED  BY <1>2, <1>8

(* After a definition has been made nothing is left of it.                 *)
LEMMA DefinedOnce ==
    ASSUME NEW st \in Stacks, Once(st), st[Len(st)].todo # <<>>,
           Defines(st[Len(st)].todo[1])
    PROVE  Without(Instead(st, <<>>), st[Len(st)].todo[1].node)
<1>1. PICK n \in Nat : n = Len(st) /\ n >= 1
  BY StackType
<1>2. PICK r : r = Instead(st, <<>>)
  OBVIOUS
<1>3. PICK u : u = <<>>
  OBVIOUS
<1>3a. u \in Seq(Tasks) /\ Len(u) = 0 /\ r = Instead(st, u)
  BY <1>2, <1>3
<1>4. /\ Len(r) = n
      /\ \A i \in 1 .. n : \A j \in 1 .. Len(r[i].todo) :
            \/ i = n /\ j \in 1 .. Len(u) /\ r[i].todo[j] = u[j]
            \/ /\ j + Shift(st, u, i) \in 1 .. Len(st[i].todo)
               /\ r[i].todo[j] = st[i].todo[j + Shift(st, u, i)]
               /\ i = n => j + Shift(st, u, i) >= 2
  <2>1. st[Len(st)].todo # <<>> /\ u \in Seq(Tasks) /\ r = Instead(st, u) /\ st \in Stacks
    BY <1>3a
  <2>2. n = Len(st)
    BY <1>1
  <2> QED  BY ONLY <2>1, <2>2, ItemsInstead
<1>5. 1 \in 1 .. Len(st[n].todo) /\ n \in 1 .. n
  <2>1. st[n].todo \in Seq(Tasks) /\ st[n].todo # <<>>
    BY <1>1, StackType
  <2> QED  BY <1>1, <2>1
<1>6. ASSUME NEW i \in 1 .. n, NEW j \in 1 .. Len(r[i].todo), Defines(r[i].todo[j])
      PROVE  r[i].todo[j].node # st[n].todo[1].node
  <2>1. PICK x : x = j + Shift(st, u, i)
    OBVIOUS
  <2>2. x \in 1 .. Len(st[i].todo) /\ r[i].todo[j] = st[i].todo[x] /\ (i = n => x >= 2)
    <3>1. ~ (j \in 1 .. Len(u))
      BY <1>3a
    <3> QED  BY <1>4, <2>1, <3>1
  <2>3. ~ (i = n /\ x = 1)
    BY <2>2
  <2>4. i \in 1 .. Len(st) /\ n \in 1 .. Len(st)
    BY <1>1, <1>5
  <2> QED  BY <1>1, <1>5, <1>6, <2>2, <2>3, <2>4 DEF Once
<1> QED  BY <1>1, <1>2, <1>4, <1>6 DEF Without

LEMMA OncePush ==
    ASSUME NEW st, NEW fr, NEW r, Pushes(st, fr, r), Once(st),
           NEW q, Without(st, q), NEW k, DefinesAt(fr.todo, q, k)
    PROVE  Once(r)
<1>1. st \in Stacks /\ fr \in AnyFrames
  BY DEF Pushes
<1>2. PICK n \in Nat : n = Len(st)
  BY <1>1, StackType
<1>3. r \in Stacks /\ Len(r) = n + 1 /\ r[n + 1] = fr
      /\ \A i \in 1 .. n : r[i] = st[i]
  BY <1>1, <1>2, PushType DEF Pushes
<1> DEFINE d == [i \in 1 .. n + 1 |-> 0]
<1>4. d \in [1 .. n + 1 -> Int] /\ \A i \in 1 .. n + 1 : d[i] = 0
  OBVIOUS
<1> HIDE DEF d
<1>5. \A i \in 1 .. n + 1 : Len(r[i].todo) \in Nat
  BY <1>3, TodoLengths
<1>6. Moved(st, r, d, q, n + 1, k)
  <2> SUFFICES ASSUME NEW i \in 1 .. n + 1, NEW j \in 1 .. Len(r[i].todo),
                      Defines(r[i].todo[j])
               PROVE  \/ i = n + 1 /\ j = k /\ r[i].todo[j].node = q
                      \/ /\ i \in 1 .. Len(st) /\ j + d[i] \in 1 .. Len(st[i].todo)
                         /\ r[i].todo[j] = st[i].todo[j + d[i]]
    BY <1>3 DEF Moved
  <2>1. CASE i = n + 1
    BY <1>3, <2>1 DEF DefinesAt
  <2>2. CASE i # n + 1
    <3>1. i \in 1 .. n
      BY <1>2, <2>2
    <3>2. j + 0 = j
      OBVIOUS
    <3> QED  BY <1>2, <1>3, <1>4, <3>1, <3>2
  <2> QED  BY <2>1, <2>2
<1>7. n + 1 \in Nat
  OBVIOUS
<1> QED  BY <1>3, <1>4, <1>5, <1>6, <1>7, OnceMoved

LEMMA OncePop ==
    ASSUME NEW st \in Stacks, Len(st) > 1, Once(st)
    PROVE  Once(SubSeq(st, 1, Len(st) - 1))
<1>1. PICK n \in Nat : n = Len(st) /\ n > 1
  BY StackType
<1>2. PICK r : r = SubSeq(st, 1, Len(st) - 1)
  OBVIOUS
<1>3. Len(r) = n - 1 /\ \A i \in 1 .. n - 1 : r[i] = st[i]
  BY <1>1, <1>2, PopType
<1>4. \A i \in 1 .. n - 1 : i \in 1 .. n
  BY <1>1
<1>5. ASSUME NEW i \in 1 .. n - 1, NEW k \in 1 .. n - 1,
             NEW j \in 1 .. Len(r[i].todo), NEW l \in 1 .. Len(r[k].todo),
             Defines(r[i].todo[j]), Defines(r[k].todo[l]),
             r[i].todo[j].node = r[k].todo[l].node
      PROVE  i = k /\ j = l
  <2>1. r[i] = st[i] /\ r[k] = st[k] /\ i \in 1 .. Len(st) /\ k \in 1 .. Len(st)
    BY <1>1, <1>3, <1>4
  <2>2. j \in 1 .. Len(st[i].todo) /\ l \in 1 .. Len(st[k].todo)
    BY <2>1
  <2> QED  BY <1>5, <2>1, <2>2 DEF Once
<1>6. Once(r)
  BY <1>3, <1>5 DEF Once
<1> QED  BY <1>2, <1>6

(* Definitions that are to be made are of nodes that have been visited.    *)
LEMMA FreshNode ==
    ASSUME NEW st, NEW p \in Nat, NEW vals, NEW fns, ReadyStack(st, p, vals, fns)
    PROVE  Without(st, p + 1)
<1> SUFFICES ASSUME NEW i \in 1 .. Len(st), NEW j \in 1 .. Len(st[i].todo),
                    Defines(st[i].todo[j])
             PROVE  st[i].todo[j].node # p + 1
  BY DEF Without
<1>1. InWork(st, ScopeOf(st, i), st[i].todo[j])
  BY DEF InWork
<1>2. Ready(st[i].todo[j], p, vals, fns)
  BY <1>1 DEF ReadyStack
<1>3. st[i].todo[j].node \in 1 .. p
  BY <1>2 DEF Ready, Defines
<1> QED  BY <1>3

LEMMA WithoutIn ==
    ASSUME NEW st, NEW q, Without(st, q), NEW sc, NEW e, InWork(st, sc, e), Defines(e)
    PROVE  e.node # q
BY DEF Without, InWork

-----------------------------------------------------------------------------
LEMMA ReadyLater ==
    ASSUME NEW p \in Nat, NEW q \in Nat, p <= q, NEW vals, NEW fns, NEW e,
           Ready(e, p, vals, fns)
    PROVE  Ready(e, q, vals, fns)
BY DEF Ready

LEMMA ReadyInstead ==
    ASSUME NEW st \in Stacks, st[Len(st)].todo # <<>>, NEW u \in Seq(Tasks),
           NEW p \in Nat, NEW q \in Nat, p <= q, NEW vals, NEW fns,
           ReadyStack(st, p, vals, fns),
           \A k \in 1 .. Len(u) : Ready(u[k], q, vals, fns)
    PROVE  ReadyStack(Instead(st, u), q, vals, fns)
<1>1. ASSUME NEW sc, NEW e, InWork(Instead(st, u), sc, e) PROVE Ready(e, q, vals, fns)
  <2>1. InWork(st, sc, e) \/ \E k \in 1 .. Len(u) : e = u[k]
    BY <1>1, WorkInstead
  <2>2. CASE InWork(st, sc, e)
    <3>1. Ready(e, p, vals, fns)
      BY <2>2 DEF ReadyStack
    <3> QED  BY <3>1, ReadyLater
  <2> QED  BY <2>1, <2>2
<1> QED  BY <1>1 DEF ReadyStack

LEMMA ReadyOpen ==
    ASSUME NEW st, NEW r, NEW fr, Opens(st, r, fr), NEW p, NEW vals, NEW fns,
           ReadyStack(Instead(st, <<>>), p, vals, fns),
           \A k \in 1 .. Len(fr.todo) : Ready(fr.todo[k], p, vals, fns)
    PROVE  ReadyStack(r, p, vals, fns)
<1>1. PICK t : t = Instead(st, <<>>)
  OBVIOUS
<1>2. Pushes(t, fr, r)
  BY <1>1 DEF Opens, Pushes
<1>3. ASSUME NEW sc, NEW e, InWork(r, sc, e) PROVE Ready(e, p, vals, fns)
  <2>1. InWork(t, sc, e) \/ ItemOf(fr, e)
    BY <1>2, <1>3, WorkPush
  <2>2. CASE InWork(t, sc, e)
    BY <1>1, <2>2 DEF ReadyStack
  <2> QED  BY <2>1, <2>2 DEF ItemOf
<1> QED  BY <1>3 DEF ReadyStack

LEMMA ReadyPop ==
    ASSUME NEW st \in Stacks, Len(st) > 1, NEW p, NEW vals, NEW fns,
           ReadyStack(st, p, vals, fns)
    PROVE  ReadyStack(SubSeq(st, 1, Len(st) - 1), p, vals, fns)
<1>1. PICK r : r = SubSeq(st, 1, Len(st) - 1)
  OBVIOUS
<1>2. ASSUME NEW sc, NEW e, InWork(r, sc, e) PROVE Ready(e, p, vals, fns)
  <2>1. InWork(st, sc, e)
    BY <1>1, <1>2, WorkPop
  <2> QED  BY <2>1 DEF ReadyStack
<1>3. ReadyStack(r, p, vals, fns)
  BY <1>2 DEF ReadyStack
<1> QED  BY <1>1, <1>3

LEMMA ReadyOf ==
    ASSUME NEW st \in Stacks, st[Len(st)].todo # <<>>, NEW p, NEW vals, NEW fns,
           ReadyStack(st, p, vals, fns)
    PROVE  Ready(st[Len(st)].todo[1], p, vals, fns)
<1>1. InWork(st, ScopeOf(st, Len(st)), st[Len(st)].todo[1])
  BY WorkFirst
<1> QED  BY <1>1 DEF ReadyStack

-----------------------------------------------------------------------------
(* What is settled stays so when no function is created by it.             *)
LEMMA SettledSame ==
    ASSUME NEW sc, NEW st, NEW r, NEW vals, NEW fns, Settled(sc, st, vals, fns),
           \A f : ~ AboutToDefine(st, f)
    PROVE  Settled(sc, r, vals, fns)
BY DEF Settled, FunctionsSettled

LEMMA NotAboutTo ==
    ASSUME NEW st, st[Len(st)].todo = <<>> \/ st[Len(st)].todo[1].do # "define"
    PROVE  \A f : ~ AboutToDefine(st, f)
BY DEF AboutToDefine, Work

LEMMA SettledInstead ==
    ASSUME NEW st \in Stacks, st[Len(st)].todo # <<>>,
           st[Len(st)].todo[1].do # "define", NEW u \in Seq(Tasks),
           NEW vals, NEW fns, SettledStack(st, vals, fns)
    PROVE  SettledStack(Instead(st, u), vals, fns)
<1>1. PICK n \in Nat : n = Len(st)
  BY StackType
<1>2. PICK r : r = Instead(st, u)
  OBVIOUS
<1>3. Len(r) = n /\ \A i \in 1 .. n : r[i].table = st[i].table /\ r[i].chain = st[i].chain
  BY <1>1, <1>2, InsteadType
<1>4. ASSUME NEW i \in 1 .. n PROVE Settled(ScopeOf(r, i), r, vals, fns)
  <2>1. ScopeOf(r, i) = ScopeOf(st, i)
    <3>1. i \in Nat /\ i >= 1 /\ \A k \in 1 .. i : k \in 1 .. n
      OBVIOUS
    <3> QED  BY <1>3, <3>1, ScopeSame
  <2>2. Settled(ScopeOf(st, i), st, vals, fns)
    BY <1>1 DEF SettledStack
  <2>3. \A f : ~ AboutToDefine(st, f)
    BY NotAboutTo
  <2> QED  BY <2>1, <2>2, <2>3, SettledSame
<1>5. SettledStack(r, vals, fns)
  BY <1>3, <1>4 DEF SettledStack
<1> QED  BY <1>2, <1>5

LEMMA SettledOpen ==
    ASSUME NEW st \in Stacks, NEW r, NEW fr, Opens(st, r, fr), NEW vals, NEW fns,
           \A i \in 1 .. Len(st) : Settled(ScopeOf(st, i), r, vals, fns),
           Settled(ScopeOf(r, Len(st) + 1), r, vals, fns)
    PROVE  SettledStack(r, vals, fns)
<1>1. PICK n \in Nat : n = Len(st)
  BY StackType
<1>2. Len(r) = n + 1 /\ \A i \in 1 .. n : ScopeOf(r, i) = ScopeOf(st, i)
  BY <1>1 DEF Opens
<1>3. ASSUME NEW i \in 1 .. n + 1 PROVE Settled(ScopeOf(r, i), r, vals, fns)
  <2>1. CASE i = n + 1
    BY <1>1, <2>1
  <2>2. CASE i # n + 1
    <3>1. i \in 1 .. n
      BY <2>2
    <3> QED  BY <1>1, <1>2, <3>1
  <2> QED  BY <2>1, <2>2
<1> QED  BY <1>2, <1>3 DEF SettledStack

LEMMA SettledPop ==
    ASSUME NEW st \in Stacks, Len(st) > 1, st[Len(st)].todo = <<>>,
           NEW vals, NEW fns, SettledStack(st, vals, fns)
    PROVE  SettledStack(SubSeq(st, 1, Len(st) - 1), vals, fns)
<1>1. PICK n \in Nat : n = Len(st) /\ n > 1
  BY StackType
<1>2. PICK r : r = SubSeq(st, 1, Len(st) - 1)
  OBVIOUS
<1>3. Len(r) = n - 1 /\ \A i \in 1 .. n - 1 : r[i] = st[i]
  BY <1>1, <1>2, PopType
<1>4. ASSUME NEW i \in 1 .. n - 1 PROVE Settled(ScopeOf(r, i), r, vals, fns)
  <2>1. ScopeOf(r, i) = ScopeOf(st, i)
    <3>1. i \in Nat /\ i >= 1 /\ \A k \in 1 .. i : k \in 1 .. n - 1
      BY <1>1
    <3> QED  BY <1>3, <3>1, ScopeSame
  <2>2. Settled(ScopeOf(st, i), st, vals, fns)
    <3>1. i \in 1 .. n
      BY <1>1
    <3> QED  BY <1>1, <3>1 DEF SettledStack
  <2>3. \A f : ~ AboutToDefine(st, f)
    BY NotAboutTo
  <2> QED  BY <2>1, <2>2, <2>3, SettledSame
<1>5. SettledStack(r, vals, fns)
  BY <1>3, <1>4 DEF SettledStack
<1> QED  BY <1>2, <1>5

LEMMA SettledTop ==
    ASSUME NEW st \in Stacks, NEW vals, NEW fns, SettledStack(st, vals, fns)
    PROVE  Settled(ScopeOf(st, Len(st)), st, vals, fns)
<1>1. Len(st) \in 1 .. Len(st)
  BY TopType
<1> QED  BY <1>1 DEF SettledStack

-----------------------------------------------------------------------------
LEMMA ValuesLater ==
    ASSUME NEW p \in Nat, NEW q \in Nat, p <= q, NEW vals, NEW fns,
           ValuesAgree(p, vals, fns)
    PROVE  ValuesAgree(q, vals, fns)
BY DEF ValuesAgree, ValueAgrees

LEMMA FunctionsLater ==
    ASSUME NEW p \in Nat, NEW q \in Nat, p <= q, NEW vals, NEW fns,
           FunctionsAgree(p, vals, fns)
    PROVE  FunctionsAgree(q, vals, fns)
BY DEF FunctionsAgree, FunctionAgrees

(* Of a stack, that it is one and where it is; for the proofs below.       *)
LEMMA SoParts ==
    ASSUME HandedOver, NEW st, NEW p, NEW ops, NEW vals, NEW fns, NEW em, NEW sts,
           GeneratedSo(st, p, ops, vals, fns, em, sts)
    PROVE  /\ script \in Seq(Nodes) /\ Len(script) \in Nat
           /\ p \in Nat /\ p \in 0 .. Len(script) /\ p <= Len(script)
           /\ st \in Stacks /\ Standing(st, Walk[p]) /\ HomeStack(st)
           /\ ops \in Seq(Values) /\ Len(ops) \in Nat
           /\ SettledStack(st, vals, fns)
<1>1. script \in Seq(Nodes)
  BY DEF HandedOver
<1>2. Len(script) \in Nat
  BY <1>1
<1>3. p \in 0 .. Len(script) /\ st \in Stacks /\ StandsHome(st, p) /\ OperandsOK(ops)
      /\ SettledStack(st, vals, fns)
  BY DEF GeneratedSo
<1>4. ops \in Seq(Values)
  BY <1>3 DEF OperandsOK
<1>5. Len(ops) \in Nat
  BY <1>4
<1> QED  BY <1>1, <1>2, <1>3, <1>4, <1>5 DEF StandsHome

(* Items are put in place of one that is no definition of a function.      *)
LEMMA SoInstead ==
    ASSUME HandedOver, NEW st, NEW p, NEW ops, NEW vals, NEW fns, NEW em, NEW sts,
           GeneratedSo(st, p, ops, vals, fns, em, sts),
           st[Len(st)].todo # <<>>, st[Len(st)].todo[1].do # "define",
           NEW u, NEW k, DefinesAt(u, p + 1, k),
           NEW q \in 0 .. Len(script), p <= q, StandsHome(Instead(st, u), q),
           NEW new, OperandsOK(new), Holding(Instead(st, u), new),
           \A j \in 1 .. Len(u) : Ready(u[j], q, vals, fns),
           NEW em2, NEW sts2, Made(em2, sts2, fns)
    PROVE  GeneratedSo(Instead(st, u), q, new, vals, fns, em2, sts2)
<1>1. st \in Stacks /\ p \in Nat
  BY SoParts
<1>2. q \in Nat /\ u \in Seq(Tasks)
  BY DEF DefinesAt
<1>3. Once(st) /\ ReadyStack(st, p, vals, fns) /\ SettledStack(st, vals, fns)
      /\ ValuesAgree(p, vals, fns) /\ FunctionsAgree(p, vals, fns)
  BY DEF GeneratedSo
<1>4. Instead(st, u) \in Stacks
  BY <1>1, <1>2, InsteadType
<1>5. Once(Instead(st, u))
  <2>1. Without(st, p + 1)
    BY <1>1, <1>3, FreshNode
  <2> QED  BY <1>1, <1>3, <2>1, OnceInstead
<1>6. ReadyStack(Instead(st, u), q, vals, fns)
  BY <1>1, <1>2, <1>3, ReadyInstead
<1>7. SettledStack(Instead(st, u), vals, fns)
  BY <1>1, <1>2, <1>3, SettledInstead
<1>8. ValuesAgree(q, vals, fns) /\ FunctionsAgree(q, vals, fns)
  BY <1>1, <1>2, <1>3, ValuesLater, FunctionsLater
<1> QED  BY <1>4, <1>5, <1>6, <1>7, <1>8 DEF GeneratedSo

(* A frame is opened, and q is p or a node further.                        *)
LEMMA SoOpen ==
    ASSUME NEW st \in Stacks, Once(st), st[Len(st)].todo # <<>>,
           NEW p \in Nat, NEW vals0, NEW fns0, ReadyStack(st, p, vals0, fns0),
           NEW r, NEW fr, Opens(st, r, fr), NEW k, DefinesAt(fr.todo, p + 1, k),
           NEW q \in 0 .. Len(script), StandsHome(r, q),
           NEW new, OperandsOK(new), Holding(r, new), NEW vals, NEW fns,
           ReadyStack(Instead(st, <<>>), q, vals, fns),
           \A j \in 1 .. Len(fr.todo) : Ready(fr.todo[j], q, vals, fns),
           \A i \in 1 .. Len(st) : Settled(ScopeOf(st, i), r, vals, fns),
           Settled(ScopeOf(r, Len(st) + 1), r, vals, fns),
           ValuesAgree(q, vals, fns), FunctionsAgree(q, vals, fns),
           NEW em, NEW sts, Made(em, sts, fns)
    PROVE  GeneratedSo(r, q, new, vals, fns, em, sts)
<1>1. r \in Stacks
  BY DEF Opens
<1>2. Once(r)
  <2>1. PICK t : t = Instead(st, <<>>)
    OBVIOUS
  <2>2. Without(st, p + 1)
    BY FreshNode
  <2>3. DefinesAt(<<>>, p + 1, k)
    BY DEF DefinesAt
  <2>4. Once(t)
    BY <2>1, <2>2, <2>3, OnceInstead
  <2>5. ReadyStack(t, p, vals0, fns0)
    <3>1. PICK u : u = <<>>
      OBVIOUS
    <3>2. u \in Seq(Tasks) /\ \A j \in 1 .. Len(u) : Ready(u[j], p, vals0, fns0)
      BY <3>1
    <3>3. ReadyStack(Instead(st, u), p, vals0, fns0)
      BY <3>2, ReadyInstead
    <3> QED  BY <2>1, <3>1, <3>3
  <2>6. Without(t, p + 1)
    BY <2>5, FreshNode
  <2>7. Pushes(t, fr, r)
    BY <2>1 DEF Opens, Pushes
  <2> QED  BY <2>4, <2>6, <2>7, OncePush
<1>3. ReadyStack(r, q, vals, fns)
  BY ReadyOpen
<1>4. SettledStack(r, vals, fns)
  BY SettledOpen
<1> QED  BY <1>1, <1>2, <1>3, <1>4 DEF GeneratedSo

LEMMA SoPop ==
    ASSUME NEW st \in Stacks, Len(st) > 1, st[Len(st)].todo = <<>>,
           NEW p, NEW ops, NEW vals, NEW fns, NEW em, NEW sts,
           GeneratedSo(st, p, ops, vals, fns, em, sts)
    PROVE  GeneratedSo(SubSeq(st, 1, Len(st) - 1), p, ops, vals, fns, em, sts)
<1>1. PICK r : r = SubSeq(st, 1, Len(st) - 1)
  OBVIOUS
<1>2. p \in 0 .. Len(script) /\ StandsHome(st, p) /\ Holding(st, ops)
      /\ OperandsOK(ops) /\ Once(st) /\ ReadyStack(st, p, vals, fns)
      /\ SettledStack(st, vals, fns)
      /\ ValuesAgree(p, vals, fns) /\ FunctionsAgree(p, vals, fns) /\ Made(em, sts, fns)
  BY DEF GeneratedSo
<1>3. r \in Stacks
  BY <1>1, PopType
<1>4. StandsHome(r, p)
  BY <1>1, <1>2, PoppedFrame
<1>5. Holding(r, ops)
  BY <1>1, <1>2, HoldingPop DEF OperandsOK
<1>6. Once(r)
  BY <1>1, <1>2, OncePop
<1>7. ReadyStack(r, p, vals, fns)
  BY <1>1, <1>2, ReadyPop
<1>8. SettledStack(r, vals, fns)
  BY <1>1, <1>2, SettledPop
<1>9. GeneratedSo(r, p, ops, vals, fns, em, sts)
  BY <1>2, <1>3, <1>4, <1>5, <1>6, <1>7, <1>8 DEF GeneratedSo
<1> QED  BY <1>1, <1>9

-----------------------------------------------------------------------------
(* What the first pass has left.                                           *)
LEMMA WalkOver ==
    ASSUME script \in Seq(Nodes), NEW p \in 0 .. Len(script), Walk[p] = <<>>,
           NEW q \in 0 .. Len(script), p <= q
    PROVE  Walk[q] = <<>>
<1>1. PICK n \in Nat : n = Len(script)
  OBVIOUS
<1> DEFINE T == {m \in Nat : p + m <= n => Walk[p + m] = <<>>}
<1>2. 0 \in T
  <2>1. p + 0 = p
    BY <1>1
  <2> QED  BY <2>1
<1>3. ASSUME NEW m \in Nat, m \in T PROVE m + 1 \in T
  <2>1. ASSUME p + (m + 1) <= n PROVE Walk[p + (m + 1)] = <<>>
    <3>1. PICK x : x = p + (m + 1)
      OBVIOUS
    <3>2. x \in 1 .. Len(script) /\ x - 1 = p + m /\ p + m <= n
      BY <1>1, <2>1, <3>1
    <3>3. Walk[x - 1] = <<>>
      BY <1>3, <3>2
    <3>4. Walk[x] = Visit(Walk[x - 1], x)
      BY <3>2, WalkType
    <3>5. Visit(<<>>, x) = <<>>
      BY DEF Visit
    <3> QED  BY <3>1, <3>3, <3>4, <3>5
  <2> QED  BY <2>1
<1> HIDE DEF T
<1>4. Nat \subseteq T
  BY <1>2, <1>3, AllNumbers
<1>5. q - p \in Nat /\ p + (q - p) = q /\ q <= n
  BY <1>1
<1>6. q - p \in T
  BY <1>4, <1>5
<1> QED  BY <1>5, <1>6 DEF T

LEMMA HandedParts ==
    ASSUME HandedOver
    PROVE  /\ script \in Seq(Nodes) /\ Len(script) \in Nat /\ pos \in 0 .. Len(script)
           /\ locals \in [Funs -> SUBSET Symbols]
           /\ Walk[pos] = <<>> /\ LocalsScoped /\ climb = <<>>
           /\ \A v \in Arguments(0, Inputs) : v \in locals[0]
           /\ \A p \in 1 .. pos : Resolved(p)
BY DEF HandedOver, Recorded

LEMMA ReachedRecords ==
    ASSUME HandedOver, NEW q \in 1 .. Len(script), Reached(q)
    PROVE  /\ Records(ScopeAt(q), script[q], q, locals, refs[q], <<>>)
           /\ ScopeAt(q) \in Scopes /\ ScopeOK(ScopeAt(q), q - 1)
           /\ q \in Funs /\ q \in Nat /\ script[q] \in Nodes
<1>1. script \in Seq(Nodes) /\ Len(script) \in Nat /\ pos \in 0 .. Len(script) /\ climb = <<>>
      /\ Walk[pos] = <<>> /\ \A p \in 1 .. pos : Resolved(p)
  BY HandedParts
<1>2. q <= pos
  <2> SUFFICES ASSUME ~ (q <= pos) PROVE FALSE
    OBVIOUS
  <2>1. q - 1 \in 0 .. Len(script) /\ pos <= q - 1
    BY <1>1
  <2>2. Walk[q - 1] = <<>>
    BY <1>1, <2>1, WalkOver
  <2> QED  BY <2>2 DEF Reached
<1>3. q \in 1 .. pos
  BY <1>1, <1>2
<1>4. Resolved(q)
  BY <1>1, <1>3
<1>5. Records(ScopeAt(q), script[q], q, locals, refs[q], <<>>)
  BY <1>1, <1>4 DEF Resolved
<1>6. ScopeAt(q) \in Scopes /\ ScopeOK(ScopeAt(q), q - 1)
  BY <1>1, ScopeAtOK
<1>7. q \in Funs /\ q \in Nat /\ script[q] \in Nodes
  BY <1>1, NodeAt DEF Funs
<1> QED  BY <1>5, <1>6, <1>7

(* A variable that a function has is one of its own, or can be seen where  *)
(* the function is defined.                                                *)
LEMMA LocalRoot ==
    ASSUME HandedOver, NEW f \in Funs, NEW v \in locals[f]
    PROVE  /\ v \in Symbols /\ v.kind = "var" /\ v.node \in Nat
           /\ v.fn \in Funs /\ v \in locals[v.fn]
           /\ v.fn # f => /\ f \in 1 .. Len(script) /\ Reached(f)
                          /\ v \in ScopeAt(f).seen /\ v.node < f /\ v.fn < f
<1>1. script \in Seq(Nodes) /\ Len(script) \in Nat /\ LocalsScoped
      /\ locals \in [Funs -> SUBSET Symbols]
  BY HandedParts
<1>2. v \in Symbols
  BY <1>1
<1>3. v.kind = "var" /\ (v.fn = f \/ (f \in 1 .. Len(script) /\ Reached(f) /\ v \in ScopeAt(f).seen))
  BY <1>1 DEF LocalsScoped, MayHold
<1>4. v.node \in Nat
  BY <1>2 DEF Symbols
<1>5. CASE v.fn = f
  BY <1>2, <1>3, <1>4, <1>5
<1>6. CASE v.fn # f
  <2>1. f \in 1 .. Len(script) /\ Reached(f) /\ v \in ScopeAt(f).seen
    BY <1>3, <1>6
  <2>2. Records(ScopeAt(f), script[f], f, locals, refs[f], <<>>)
        /\ ScopeOK(ScopeAt(f), f - 1) /\ f \in Nat
    BY <2>1, ReachedRecords
  <2>3. v \in locals[v.fn]
    BY <2>1, <2>2 DEF Records
  <2>4. SeenScoped(ScopeAt(f).chain, v, f - 1) /\ ChainScoped(ScopeAt(f).chain, f - 1)
    BY <2>1, <2>2 DEF ScopeOK
  <2>5. v.node \in 0 .. f - 1 /\ v.fn \in 0 .. f - 1
    BY <2>4 DEF SeenScoped, ChainScoped
  <2>6. v.fn \in Funs /\ v.node < f /\ v.fn < f
    BY <1>1, <2>1, <2>2, <2>5 DEF Funs
  <2> QED  BY <1>2, <1>3, <1>4, <2>1, <2>3, <2>6
<1> QED  BY <1>5, <1>6

(* What a scope sees belongs to the functions around, and none of those    *)
(* can have what was declared further in.                                  *)
LEMMA ChainFacts ==
    ASSUME HandedOver, NEW q \in 1 .. Len(script), Reached(q), NEW sc, sc = ScopeAt(q)
    PROVE  /\ sc \in Scopes /\ Len(sc.chain) \in Nat /\ Len(sc.chain) >= 1
           /\ Innermost(sc) = sc.chain[Len(sc.chain)] /\ Innermost(sc) \in Funs
           /\ \A n \in 1 .. Len(sc.chain) :
                 sc.chain[n] \in Funs /\ sc.chain[n] \in Nat /\ sc.chain[n] < q
           /\ \A m, n \in 1 .. Len(sc.chain) : m < n => sc.chain[m] < sc.chain[n]
           /\ \A v \in sc.seen :
                 /\ v \in locals[v.fn] /\ v.kind = "var" /\ v.node \in 0 .. q - 1
                 /\ \E n \in 1 .. Len(sc.chain) : sc.chain[n] = v.fn
           /\ \A x \in Names : NameScoped(sc, sc.table[x], q - 1)
<1>1. Records(sc, script[q], q, locals, refs[q], <<>>) /\ sc \in Scopes
      /\ ScopeOK(sc, q - 1) /\ q \in Nat
  BY ReachedRecords
<1>2. Len(script) \in Nat
  BY HandedParts
<1>3. sc.chain \in Seq(Nat) /\ Len(sc.chain) \in 1 .. Len(sc.chain)
  BY <1>1, ScopeType
<1>4. ChainScoped(sc.chain, q - 1) /\ (\A v \in sc.seen : SeenScoped(sc.chain, v, q - 1))
      /\ \A x \in Names : NameScoped(sc, sc.table[x], q - 1)
  BY <1>1 DEF ScopeOK
<1>5. ASSUME NEW n \in 1 .. Len(sc.chain)
      PROVE  sc.chain[n] \in Funs /\ sc.chain[n] \in Nat /\ sc.chain[n] < q
  <2>1. sc.chain[n] \in 0 .. q - 1
    BY <1>4 DEF ChainScoped
  <2> QED  BY <1>1, <1>2, <2>1 DEF Funs
<1>6. \A v \in sc.seen : v \in locals[v.fn]
  BY <1>1 DEF Records
<1>7. \A v \in sc.seen : v.kind = "var" /\ v.node \in 0 .. q - 1
                         /\ \E n \in 1 .. Len(sc.chain) : sc.chain[n] = v.fn
  BY <1>4 DEF SeenScoped
<1>8. Len(sc.chain) \in Nat /\ Len(sc.chain) >= 1
  BY <1>3
<1>9. \A m, n \in 1 .. Len(sc.chain) : m < n => sc.chain[m] < sc.chain[n]
  BY <1>4 DEF ChainScoped
<1>10. Innermost(sc) \in Funs
  BY <1>3, <1>5 DEF Innermost
<1> QED  BY <1>1, <1>4, <1>5, <1>6, <1>7, <1>8, <1>9, <1>10 DEF Innermost

LEMMA HeldFurtherIn ==
    ASSUME HandedOver, NEW q \in 1 .. Len(script), NEW f \in Funs, f < q,
           NEW v \in locals[f], v.node = q
    PROVE  v.fn = f
<1>1. Len(script) \in Nat
  BY HandedParts
<1>2. f \in Nat /\ q \in Nat
  BY <1>1 DEF Funs
<1>3. v.fn # f => v.node < f
  BY LocalRoot
<1> QED  BY <1>2, <1>3

-----------------------------------------------------------------------------
(* What can be read in a scope: the copies of the innermost function.      *)
LEMMA SeenBound ==
    ASSUME HandedOver, NEW q \in 1 .. Len(script), Reached(q), NEW sc, sc = ScopeAt(q),
           NEW vals, NEW fns, VariablesSettled(sc, vals, fns),
           NEW v \in sc.seen
    PROVE  v.fn \in Funs /\ v \in locals[v.fn] /\ Bound(vals, v.fn, v)
<1>1. v \in locals[v.fn] /\ \E n \in 1 .. Len(sc.chain) : sc.chain[n] = v.fn
  BY ChainFacts
<1>2. PICK n \in 1 .. Len(sc.chain) : sc.chain[n] = v.fn
  BY <1>1
<1>3. sc.chain[n] \in Funs
  BY <1>2, ChainFacts
<1> QED  BY <1>1, <1>2, <1>3 DEF VariablesSettled

LEMMA CopyRead ==
    ASSUME HandedOver, NEW q \in 1 .. Len(script), Reached(q), NEW sc, sc = ScopeAt(q),
           NEW p, NEW vals, NEW fns, VariablesSettled(sc, vals, fns),
           ValuesAgree(p, vals, fns),
           NEW f, f = Innermost(sc), NEW v \in sc.seen, v \in locals[f]
    PROVE  /\ vals[f][v] \in Values /\ vals[f][v].type # "unbound"
           /\ vals[f][v].fn \in {f, NoFun}
           /\ vals[f][v].type = vals[v.fn][v].type
<1>1. f = sc.chain[Len(sc.chain)] /\ f \in Funs /\ Len(sc.chain) \in 1 .. Len(sc.chain)
  <2>1. Len(sc.chain) \in Nat /\ Len(sc.chain) >= 1
    BY ChainFacts
  <2>2. f = sc.chain[Len(sc.chain)] /\ f \in Funs
    BY ChainFacts
  <2> QED  BY <2>1, <2>2
<1>2. Bound(vals, f, v)
  BY <1>1 DEF VariablesSettled
<1>3. vals[f] \in [locals[f] -> Values] /\ vals[f][v].fn \in {f, NoFun}
      /\ vals[f][v].type = vals[v.fn][v].type
  BY <1>1, <1>2 DEF ValuesAgree, ValueAgrees
<1>4. vals[f][v].type # "unbound"
  BY <1>2 DEF Bound
<1> QED  BY <1>3, <1>4

-----------------------------------------------------------------------------
(* Operands that are taken and given.                                      *)
Gives(ops, a, v, new) ==
    /\ OperandsOK(new) /\ new \in Seq(Values)
    /\ Len(new) = Len(ops) - a + 1
    /\ \A k \in 1 .. Len(ops) - a : new[k] = ops[k]
    /\ new[Len(ops) - a + 1] = v

LEMMA Given ==
    ASSUME NEW ops \in Seq(Values), OperandsOK(ops), NEW a \in Nat, a <= Len(ops),
           NEW v \in Values, v.type # "unbound",
           NEW new, new = Append(SubSeq(ops, 1, Len(ops) - a), v)
    PROVE  Gives(ops, a, v, new)
<1>1. PICK n \in Nat : n = Len(ops)
  OBVIOUS
<1>2. PICK s : s = SubSeq(ops, 1, n - a)
  OBVIOUS
<1>3. n - a \in Nat /\ n - a <= n
  BY <1>1
<1>4. s \in Seq(Values) /\ Len(s) = n - a /\ \A k \in 1 .. n - a : s[k] = ops[k]
  BY <1>1, <1>2, <1>3
<1>5. new \in Seq(Values) /\ Len(new) = n - a + 1 /\ new[n - a + 1] = v
      /\ \A k \in 1 .. n - a : new[k] = s[k]
  BY <1>1, <1>2, <1>4
<1>6. ASSUME NEW k \in 1 .. Len(new) PROVE new[k].type # "unbound"
  <2>1. CASE k = n - a + 1
    BY <1>5, <2>1
  <2>2. CASE k # n - a + 1
    <3>0. k \in 1 .. n - a + 1
      BY <1>5
    <3>1. k \in 1 .. n - a /\ k \in 1 .. n
      BY <1>3, <2>2, <3>0
    <3>2. new[k] = ops[k] /\ k \in 1 .. Len(ops)
      BY <1>1, <1>4, <1>5, <3>1
    <3> QED  BY <3>2 DEF OperandsOK
  <2> QED  BY <2>1, <2>2
<1> QED  BY <1>1, <1>4, <1>5, <1>6 DEF OperandsOK, Gives

Drops(ops, a, new) ==
    /\ OperandsOK(new) /\ new \in Seq(Values)
    /\ Len(new) = Len(ops) - a
    /\ \A k \in 1 .. Len(ops) - a : new[k] = ops[k]

LEMMA Dropped ==
    ASSUME NEW ops \in Seq(Values), OperandsOK(ops), NEW a \in Nat, a <= Len(ops),
           NEW new, new = SubSeq(ops, 1, Len(ops) - a)
    PROVE  Drops(ops, a, new)
<1>1. PICK n \in Nat : n = Len(ops)
  OBVIOUS
<1>2. n - a \in Nat /\ n - a <= n
  BY <1>1
<1>3. new \in Seq(Values) /\ Len(new) = n - a /\ \A k \in 1 .. n - a : new[k] = ops[k]
  BY <1>1, <1>2
<1>4. ASSUME NEW k \in 1 .. Len(new) PROVE new[k].type # "unbound"
  <2>1. k \in 1 .. n - a /\ k \in 1 .. Len(ops)
    BY <1>1, <1>2, <1>3
  <2> QED  BY <1>3, <2>1 DEF OperandsOK
<1> QED  BY <1>1, <1>3, <1>4 DEF OperandsOK, Drops

LEMMA SuitNothing ==
    ASSUME NEW sc
    PROVE  Suits(<<>>, sc, 0)
<1>1. PICK u : u = <<>>
  OBVIOUS
<1>2. u \in Seq(Tasks)
  BY <1>1
<1>3. ASSUME NEW v, NEW m, m \in Nat PROVE Threads(Positions(v, sc), u, m + 0, m)
  <2>1. m + 0 = m
    BY <1>3
  <2> QED  BY <1>1, <1>3, <2>1, ThreadNothing
<1>4. Suits(u, sc, 0)
  BY <1>2, <1>3 DEF Suits
<1> QED  BY <1>1, <1>4

NoneMade == <<>>

LEMMA NothingMade ==
    /\ NoneMade \in Seq(Tasks) /\ Len(NoneMade) = 0
    /\ \A q, k : DefinesAt(NoneMade, q, k)
BY DEF NoneMade, DefinesAt

(* A node without subtrees gives a value.                                  *)
LEMMA SoLeaf ==
    ASSUME HandedOver, NEW st, NEW p, NEW ops, NEW vals, NEW fns, NEW em, NEW sts,
           GeneratedSo(st, p, ops, vals, fns, em, sts),
           Visits(st, p), script[p + 1].op \notin {"let", "fun"},
           Arity(script[p + 1]) = 0,
           NEW v \in Values, v.type # "unbound", Local(v, st[Len(st)]),
           NEW sts2, Made(em, sts2, fns)
    PROVE  GeneratedSo(Instead(st, <<>>), p + 1, Append(ops, v), vals, fns, em, sts2)
<1>1. /\ script \in Seq(Nodes) /\ Len(script) \in Nat /\ p \in Nat
      /\ st \in Stacks /\ HomeStack(st) /\ ops \in Seq(Values) /\ Len(ops) \in Nat
  BY SoParts
<1>2. Holding(st, ops) /\ OperandsOK(ops)
  BY DEF GeneratedSo
<1>3. st[Len(st)].todo # <<>> /\ st[Len(st)].todo[1] = Expr /\ p < Len(script)
  BY DEF Visits
<1>4. PICK n \in Nat : n = Len(ops)
  BY <1>1
<1>5. PICK new : new = Append(ops, v)
  OBVIOUS
<1>6. /\ OperandsOK(new) /\ new \in Seq(Values) /\ Len(new) = n - 0 + 1
      /\ \A k \in 1 .. n - 0 : new[k] = ops[k]
      /\ new[n - 0 + 1] = v
  <2>1. SubSeq(ops, 1, n - 0) = ops
    BY <1>1, <1>4
  <2>2. PICK a \in Nat : a = 0
    OBVIOUS
  <2>3. a <= Len(ops) /\ new = Append(SubSeq(ops, 1, Len(ops) - a), v)
    BY <1>1, <1>4, <1>5, <2>1, <2>2
  <2>4. /\ OperandsOK(new) /\ new \in Seq(Values) /\ Len(new) = Len(ops) - a + 1
        /\ \A k \in 1 .. Len(ops) - a : new[k] = ops[k]
        /\ new[Len(ops) - a + 1] = v
    <3>1. Gives(ops, a, v, new)
      BY <1>1, <1>2, <2>3, Given
    <3> QED  BY <3>1 DEF Gives
  <2> QED  BY <1>4, <2>2, <2>4
<1>7. Takes(Expr) = 0 /\ Leaves(Expr) = 1
  BY DEF Takes, Leaves, Expr
<1>8. Holding(Instead(st, <<>>), new)
  <2>1. \A k \in n - 0 + 1 .. Len(new) : Local(new[k], st[Len(st)])
    <3>1. \A k \in n - 0 + 1 .. Len(new) : k = n - 0 + 1
      BY <1>6
    <3> QED  BY <1>6, <3>1
  <2>2. Takes(st[Len(st)].todo[1]) = 0 /\ Leaves(st[Len(st)].todo[1]) = 1 /\ 0 \in Nat
    BY <1>3, <1>7
  <2>3. st \in Stacks /\ ops \in Seq(Values) /\ new \in Seq(Values)
    BY <1>1, <1>6
  <2>4. Len(new) = Len(ops) - 0 + Leaves(st[Len(st)].todo[1])
    BY <1>4, <1>6, <2>2
  <2>5. \A k \in 1 .. Len(ops) - 0 : new[k] = ops[k]
    BY <1>4, <1>6
  <2>6. \A k \in Len(ops) - 0 + 1 .. Len(new) : Local(new[k], st[Len(st)])
    BY <1>4, <2>1
  <2> QED  BY <1>2, <1>3, <2>2, <2>3, <2>4, <2>5, <2>6, HoldingDone
<1>9. StandsHome(Instead(st, NoneMade), p + 1)
  <2>1. Suits(NoneMade, ScopeOf(st, Len(st)), Arity(script[p + 1]))
    BY SuitNothing DEF NoneMade
  <2>2. \A k \in 1 .. Len(NoneMade) : AtHome(ScopeOf(st, Len(st)), NoneMade[k])
    BY NothingMade
  <2> QED  BY <1>1, <2>1, <2>2, VisitedUniform
<1>10. p + 1 \in 0 .. Len(script) /\ p <= p + 1
  BY <1>1, <1>3
<1>11. DefinesAt(NoneMade, p + 1, 0) /\ Expr.do # "define"
  BY NothingMade DEF Expr
<1>12. \A j \in 1 .. Len(NoneMade) : Ready(NoneMade[j], p + 1, vals, fns)
  BY NothingMade
<1>13. Holding(Instead(st, NoneMade), new)
  BY <1>8 DEF NoneMade
<1>14. GeneratedSo(Instead(st, NoneMade), p + 1, new, vals, fns, em, sts2)
  BY <1>3, <1>6, <1>9, <1>10, <1>11, <1>12, <1>13, SoInstead
<1> QED  BY <1>5, <1>14 DEF NoneMade

(* A node with subtrees leaves items to be done.                           *)
LEMMA SoList ==
    ASSUME HandedOver, NEW st, NEW p, NEW ops, NEW vals, NEW fns, NEW em, NEW sts,
           GeneratedSo(st, p, ops, vals, fns, em, sts),
           Visits(st, p), NEW u, Lifts(u, 1), StandsHome(Instead(st, u), p + 1),
           NEW k, DefinesAt(u, p + 1, k),
           \A j \in 1 .. Len(u) : Ready(u[j], p + 1, vals, fns)
    PROVE  GeneratedSo(Instead(st, u), p + 1, ops, vals, fns, em, sts)
<1>1. /\ script \in Seq(Nodes) /\ Len(script) \in Nat /\ p \in Nat
      /\ st \in Stacks /\ HomeStack(st) /\ ops \in Seq(Values)
  BY SoParts
<1>2. Holding(st, ops) /\ OperandsOK(ops) /\ Made(em, sts, fns)
  BY DEF GeneratedSo
<1>3. st[Len(st)].todo # <<>> /\ st[Len(st)].todo[1] = Expr /\ p < Len(script)
  BY DEF Visits
<1>4. Holding(Instead(st, u), ops)
  BY <1>1, <1>2, <1>3, HoldingList
<1>5. p + 1 \in 0 .. Len(script) /\ p <= p + 1 /\ Expr.do # "define"
  BY <1>1, <1>3 DEF Expr
<1> QED  BY <1>2, <1>3, <1>4, <1>5, SoInstead

(* An item takes operands and may give one.                                *)
LEMMA SoDone ==
    ASSUME HandedOver, NEW st, NEW p, NEW ops, NEW vals, NEW fns, NEW em, NEW sts,
           GeneratedSo(st, p, ops, vals, fns, em, sts),
           st[Len(st)].todo # <<>>, ~ Waits(st[Len(st)].todo[1]),
           NEW a \in Nat, Takes(st[Len(st)].todo[1]) = a,
           NEW new, OperandsOK(new),
           Len(new) = Len(ops) - a + Leaves(st[Len(st)].todo[1]),
           \A k \in 1 .. Len(ops) - a : new[k] = ops[k],
           \A k \in Len(ops) - a + 1 .. Len(new) : Local(new[k], st[Len(st)]),
           NEW em2, Made(em2, sts, fns)
    PROVE  GeneratedSo(Instead(st, <<>>), p, new, vals, fns, em2, sts)
<1>1. /\ script \in Seq(Nodes) /\ Len(script) \in Nat /\ p \in Nat /\ p \in 0 .. Len(script)
      /\ st \in Stacks /\ Standing(st, Walk[p]) /\ HomeStack(st) /\ ops \in Seq(Values)
  BY SoParts
<1>2. Holding(st, ops)
  BY DEF GeneratedSo
<1>3. new \in Seq(Values)
  BY DEF OperandsOK
<1>4. Holding(Instead(st, <<>>), new)
  BY <1>1, <1>2, <1>3, HoldingDone
<1>5. StandsHome(Instead(st, <<>>), p)
  BY <1>1, WorkedOff DEF Works
<1>6. st[Len(st)].todo[1].do # "define"
  BY DEF Waits
<1>7. DefinesAt(NoneMade, p + 1, 0)
  BY NothingMade
<1>8. \A j \in 1 .. Len(NoneMade) : Ready(NoneMade[j], p, vals, fns)
  BY NothingMade
<1>9. Holding(Instead(st, NoneMade), new) /\ StandsHome(Instead(st, NoneMade), p)
  BY <1>4, <1>5 DEF NoneMade
<1>10. p <= p
  BY <1>1
<1>11. GeneratedSo(Instead(st, NoneMade), p, new, vals, fns, em2, sts)
  BY <1>1, <1>6, <1>7, <1>8, <1>9, <1>10, SoInstead
<1> QED  BY <1>11 DEF NoneMade

-----------------------------------------------------------------------------
(* Definitions add to the values and to the functions, and change nothing  *)
(* that was there.                                                         *)
Keeps(vals, fns, vals2, fns2) ==
    /\ \A f \in Funs : \A v \in locals[f] :
          Bound(vals, f, v) => vals2[f][v] = vals[f][v]
    /\ \A f \in Funs : fns[f] # NotCreated => fns2[f] = fns[f]

(* ... q is what is defined: what gets a value is of that node, or its     *)
(* root had one.                                                           *)
AddsOnly(q, vals, fns, vals2, fns2) ==
    /\ \A f \in Funs : \A v \in locals[f] :
          Bound(vals2, f, v) =>
              v.node = q \/ \E g \in Funs : v \in locals[g] /\ Bound(vals, g, v)
    /\ \A f \in Funs : Created(fns2, f) => f = q \/ Created(fns, f)

LEMMA CreatedKept ==
    ASSUME NEW vals, NEW fns, NEW vals2, NEW fns2, Keeps(vals, fns, vals2, fns2),
           NEW f \in Funs, Created(fns, f)
    PROVE  Created(fns2, f)
BY DEF Keeps, Created

LEMMA BoundKept ==
    ASSUME NEW vals, NEW fns, NEW vals2, NEW fns2, Keeps(vals, fns, vals2, fns2),
           NEW f \in Funs, NEW v \in locals[f], Bound(vals, f, v)
    PROVE  Bound(vals2, f, v) /\ vals2[f][v] = vals[f][v]
BY DEF Keeps, Bound

LEMMA VariablesKept ==
    ASSUME NEW vals, NEW fns, NEW vals2, NEW fns2, Keeps(vals, fns, vals2, fns2),
           NEW sc, VariablesSettled(sc, vals, fns)
    PROVE  VariablesSettled(sc, vals2, fns2)
<1> SUFFICES ASSUME NEW n \in 1 .. Len(sc.chain)
             PROVE  /\ sc.chain[n] \in Funs /\ Created(fns2, sc.chain[n])
                    /\ \A v \in sc.seen : v \in locals[sc.chain[n]] =>
                          Bound(vals2, sc.chain[n], v)
  BY DEF VariablesSettled
<1>1. PICK f : f = sc.chain[n]
  OBVIOUS
<1>2. f \in Funs /\ Created(fns, f)
      /\ \A v \in sc.seen : v \in locals[f] => Bound(vals, f, v)
  BY <1>1 DEF VariablesSettled
<1>3. Created(fns2, f)
  BY <1>2, CreatedKept
<1>4. ASSUME NEW v \in sc.seen, v \in locals[f] PROVE Bound(vals2, f, v)
  <2>1. Bound(vals, f, v)
    BY <1>2, <1>4
  <2> QED  BY <1>2, <1>4, <2>1, BoundKept
<1> QED  BY <1>1, <1>2, <1>3, <1>4

LEMMA FunctionsKept ==
    ASSUME NEW vals, NEW fns, NEW vals2, NEW fns2, Keeps(vals, fns, vals2, fns2),
           NEW sc, NEW st, NEW r, FunctionsSettled(sc, st, fns),
           \A f \in Funs : AboutToDefine(st, f) => Created(fns2, f)
    PROVE  FunctionsSettled(sc, r, fns2)
<1> SUFFICES ASSUME NEW x \in Names, sc.table[x].kind = "fun"
             PROVE  /\ sc.table[x].node \in Funs
                    /\ Created(fns2, sc.table[x].node)
  BY DEF FunctionsSettled
<1>1. PICK f : f = sc.table[x].node
  OBVIOUS
<1>2. f \in Funs /\ (Created(fns, f) \/ AboutToDefine(st, f))
  BY <1>1 DEF FunctionsSettled
<1>3. Created(fns2, f)
  BY <1>2, CreatedKept
<1> QED  BY <1>1, <1>2, <1>3

LEMMA SettledKept ==
    ASSUME NEW vals, NEW fns, NEW vals2, NEW fns2, Keeps(vals, fns, vals2, fns2),
           NEW sc, NEW st, NEW r, Settled(sc, st, vals, fns),
           \A f \in Funs : AboutToDefine(st, f) => Created(fns2, f)
    PROVE  Settled(sc, r, vals2, fns2)
<1>1. VariablesSettled(sc, vals2, fns2)
  BY VariablesKept DEF Settled
<1>2. FunctionsSettled(sc, st, fns)
  BY DEF Settled
<1>3. FunctionsSettled(sc, r, fns2)
  BY <1>2, FunctionsKept
<1> QED  BY <1>1, <1>3 DEF Settled

LEMMA MadeKept ==
    ASSUME NEW vals, NEW fns, NEW vals2, NEW fns2, Keeps(vals, fns, vals2, fns2),
           NEW em, NEW sts, Made(em, sts, fns)
    PROVE  Made(em, sts, fns2)
<1>1. ASSUME NEW c \in em PROVE CallAgrees(c, fns2)
  <2>1. CallAgrees(c, fns)
    BY DEF Made
  <2>2. ASSUME refs[c.node].kind = "fun"
        PROVE  /\ refs[c.node].node \in Funs /\ fns2[refs[c.node].node] # NotCreated
               /\ fns2[refs[c.node].node] = fns[refs[c.node].node]
    <3>1. refs[c.node].node \in Funs /\ fns[refs[c.node].node] # NotCreated
      BY <2>1, <2>2 DEF CallAgrees
    <3> QED  BY <3>1 DEF Keeps
  <2> QED  BY <2>1, <2>2 DEF CallAgrees
<1> QED  BY <1>1 DEF Made

(* A function that has been created has the types of its upvalues.         *)
LEMMA CalleeKept ==
    ASSUME HandedOver, NEW vals, NEW fns, NEW vals2, NEW fns2,
           Keeps(vals, fns, vals2, fns2), NEW p,
           NEW f \in Funs, fns[f] # NotCreated, FunctionAgrees(f, p, vals, fns)
    PROVE  FunctionAgrees(f, p, vals2, fns2)
<1>1. fns2[f] = fns[f]
  BY DEF Keeps
<1>2. ASSUME NEW v \in Upvalues(f)
      PROVE  Bound(vals2, v.fn, v) /\ vals2[v.fn][v] = vals[v.fn][v]
  <2>1. v \in locals[f]
    BY DEF Upvalues
  <2>2. v.fn \in Funs /\ v \in locals[v.fn]
    BY <2>1, LocalRoot
  <2>3. Bound(vals, v.fn, v)
    BY DEF FunctionAgrees
  <2> QED  BY <2>2, <2>3, BoundKept
<1>3. [v \in Upvalues(f) |-> vals2[v.fn][v].type] = [v \in Upvalues(f) |-> vals[v.fn][v].type]
  BY <1>2
<1> QED  BY <1>1, <1>2, <1>3 DEF FunctionAgrees

LEMMA FunctionsAdded ==
    ASSUME HandedOver, NEW vals, NEW fns, NEW vals2, NEW fns2,
           Keeps(vals, fns, vals2, fns2), NEW p, FunctionsAgree(p, vals, fns),
           fns2 = [f \in Funs |-> fns2[f]],
           \A f \in Funs : fns2[f] # NotCreated =>
               fns[f] # NotCreated \/ FunctionAgrees(f, p, vals2, fns2)
    PROVE  FunctionsAgree(p, vals2, fns2)
<1>1. ASSUME NEW f \in Funs, fns2[f] # NotCreated PROVE FunctionAgrees(f, p, vals2, fns2)
  <2>1. CASE fns[f] # NotCreated
    <3>1. FunctionAgrees(f, p, vals, fns)
      BY <2>1 DEF FunctionsAgree
    <3> QED  BY <2>1, <3>1, CalleeKept
  <2> QED  BY <1>1, <2>1
<1> QED  BY <1>1 DEF FunctionsAgree

(* A value that has not changed still agrees.                              *)
LEMMA ValueKept ==
    ASSUME HandedOver, NEW vals, NEW fns, NEW vals2, NEW fns2,
           Keeps(vals, fns, vals2, fns2), NEW p, ValuesAgree(p, vals, fns),
           NEW f \in Funs, NEW v \in locals[f], vals2[f][v] = vals[f][v]
    PROVE  ValueAgrees(f, v, p, vals2, fns2)
<1>1. ValueAgrees(f, v, p, vals, fns)
  BY DEF ValuesAgree
<1>2. vals2[f][v].fn \in {f, NoFun}
  BY <1>1 DEF ValueAgrees
<1>3. ASSUME Bound(vals2, f, v)
      PROVE  /\ Created(fns2, f) /\ v.node \in 0 .. p
             /\ vals2[f][v].type = vals2[v.fn][v].type
  <2>1. Bound(vals, f, v)
    BY <1>3 DEF Bound
  <2>2. Created(fns, f) /\ v.node \in 0 .. p /\ vals[f][v].type = vals[v.fn][v].type
    BY <1>1, <2>1 DEF ValueAgrees
  <2>3. v.fn \in Funs /\ v \in locals[v.fn]
    BY LocalRoot
  <2>4. Bound(vals, v.fn, v)
    BY <2>1, <2>2 DEF Bound
  <2>5. vals2[v.fn][v] = vals[v.fn][v]
    BY <2>3, <2>4, BoundKept
  <2> QED  BY <2>2, <2>5, CreatedKept
<1> QED  BY <1>2, <1>3 DEF ValueAgrees

(* What is still to be done is ready for it after q has been defined.      *)
LEMMA ReadyKept ==
    ASSUME NEW p, NEW q, NEW vals, NEW fns, NEW vals2, NEW fns2,
           AddsOnly(q, vals, fns, vals2, fns2),
           NEW e, Ready(e, p, vals, fns), Defines(e) => e.node # q,
           p \in 0 .. Len(script), Len(script) \in Nat
    PROVE  Ready(e, p, vals2, fns2)
<1>1. ASSUME e.do = "bind", NEW f \in Funs, NEW v \in locals[f], v.node = e.node
      PROVE  ~ Bound(vals2, f, v)
  <2>1. v.node # q
    BY <1>1 DEF Defines
  <2>2. ASSUME NEW g \in Funs, v \in locals[g] PROVE ~ Bound(vals, g, v)
    BY <1>1, <2>2 DEF Ready
  <2> QED  BY <2>1, <2>2 DEF AddsOnly
<1>2. ASSUME e.do = "define" PROVE ~ Created(fns2, e.node)
  <2>1. e.node # q /\ ~ Created(fns, e.node) /\ e.node \in 1 .. p
    BY <1>2 DEF Ready, Defines
  <2>2. e.node \in Funs
    BY <2>1 DEF Funs
  <2> QED  BY <2>1, <2>2 DEF AddsOnly
<1> QED  BY <1>1, <1>2 DEF Ready

LEMMA ReadyAfter ==
    ASSUME NEW st \in Stacks, Once(st), st[Len(st)].todo # <<>>,
           NEW e, e = st[Len(st)].todo[1], Defines(e),
           NEW p \in 0 .. Len(script), Len(script) \in Nat, NEW vals, NEW fns,
           NEW vals2, NEW fns2, AddsOnly(e.node, vals, fns, vals2, fns2),
           ReadyStack(st, p, vals, fns)
    PROVE  ReadyStack(Instead(st, <<>>), p, vals2, fns2)
<1>1. Without(Instead(st, <<>>), e.node)
  BY DefinedOnce
<1>2. ReadyStack(Instead(st, NoneMade), p, vals, fns)
  <2>1. p \in Nat /\ p <= p
    OBVIOUS
  <2>2. \A k \in 1 .. Len(NoneMade) : Ready(NoneMade[k], p, vals, fns)
    BY NothingMade
  <2> QED  BY <2>1, <2>2, NothingMade, ReadyInstead
<1>3. PICK t : t = Instead(st, <<>>)
  OBVIOUS
<1>4. ASSUME NEW sc, NEW d, InWork(t, sc, d) PROVE Ready(d, p, vals2, fns2)
  <2>1. Ready(d, p, vals, fns)
    BY <1>2, <1>3, <1>4 DEF ReadyStack, NoneMade
  <2>2. Defines(d) => d.node # e.node
    BY <1>1, <1>3, <1>4, WithoutIn
  <2> QED  BY <2>1, <2>2, ReadyKept
<1> QED  BY <1>3, <1>4 DEF ReadyStack

-----------------------------------------------------------------------------
LEMMA ListOne ==
    /\ <<Expr>> \in Seq(Tasks) /\ Len(<<Expr>>) = 1 /\ <<Expr>>[1] = Expr
    /\ \A q, k : DefinesAt(<<Expr>>, q, k)
<1>1. Expr \in Tasks /\ ~ Defines(Expr)
  BY ExprTask DEF Expr, Defines
<1>2. PICK u : u = <<Expr>>
  OBVIOUS
<1>3. u \in Seq(Tasks) /\ Len(u) = 1 /\ u[1] = Expr /\ \A j \in 1 .. 1 : j = 1
  BY <1>1, <1>2
<1>4. \A q, k : DefinesAt(u, q, k)
  BY <1>1, <1>3 DEF DefinesAt
<1> QED  BY <1>2, <1>3, <1>4

LEMMA ListTwo ==
    ASSUME NEW d \in Tasks, NEW e \in Tasks
    PROVE  /\ <<d, e>> \in Seq(Tasks) /\ Len(<<d, e>>) = 2
           /\ <<d, e>>[1] = d /\ <<d, e>>[2] = e
           /\ \A j \in 1 .. Len(<<d, e>>) : <<d, e>>[j] = d \/ <<d, e>>[j] = e
<1>1. PICK u : u = <<d, e>>
  OBVIOUS
<1>2. u \in Seq(Tasks) /\ Len(u) = 2 /\ u[1] = d /\ u[2] = e
  BY <1>1
<1>3. \A j \in 1 .. 2 : j = 1 \/ j = 2
  OBVIOUS
<1> QED  BY <1>1, <1>2, <1>3

LEMMA ExprReady == \A p, vals, fns : Ready(Expr, p, vals, fns)
BY DEF Ready, Expr

(* A function is named: it is about to be defined.                         *)
LEMMA SoNamed ==
    ASSUME HandedOver, NEW st, NEW p, NEW ops, NEW vals, NEW fns, NEW em, NEW sts,
           GeneratedSo(st, p, ops, vals, fns, em, sts),
           Visits(st, p), script[p + 1].op = "fun",
           NEW r, r = OpenNamed(st, p + 1, <<Work("define", p + 1), Expr>>)
    PROVE  GeneratedSo(r, p + 1, ops, vals, fns, em, sts)
<1>1. /\ script \in Seq(Nodes) /\ Len(script) \in Nat /\ p \in Nat
      /\ st \in Stacks /\ HomeStack(st) /\ ops \in Seq(Values)
  BY SoParts
<1>2. /\ Holding(st, ops) /\ OperandsOK(ops) /\ Made(em, sts, fns) /\ Once(st)
      /\ ReadyStack(st, p, vals, fns) /\ SettledStack(st, vals, fns)
      /\ ValuesAgree(p, vals, fns) /\ FunctionsAgree(p, vals, fns)
  BY DEF GeneratedSo
<1>3. st[Len(st)].todo # <<>> /\ st[Len(st)].todo[1] = Expr /\ p < Len(script)
  BY DEF Visits
<1>4. PICK q \in Nat : q = p + 1
  BY <1>1
<1>5. q \in 1 .. Len(script) /\ q \in 0 .. Len(script) /\ q \in Funs /\ q # 0 /\ p <= q
      /\ q \notin 1 .. p
  BY <1>1, <1>3, <1>4 DEF Funs
<1>6. PICK e : e = Work("define", q)
  OBVIOUS
<1>7. e \in Tasks /\ e.do = "define" /\ e.node = q
  <2>1. "define" \in Doings
    BY DEF Doings
  <2> QED  BY <1>6, <2>1, WorkTask
<1>8. PICK u : u = <<e, Expr>>
  OBVIOUS
<1>9. u \in Seq(Tasks) /\ Len(u) = 2 /\ u[1] = e /\ u[2] = Expr
      /\ \A j \in 1 .. Len(u) : u[j] = e \/ u[j] = Expr
  BY <1>7, <1>8, ExprTask, ListTwo
<1>10. r = OpenNamed(st, q, u)
  BY <1>4, <1>6, <1>8
<1>11. /\ \E fr : Opens(st, r, fr) /\ fr.todo = u /\ fr.chain = st[Len(st)].chain
       /\ ScopeOf(r, Len(st) + 1) = NamedScope(ScopeOf(st, Len(st)), q)
  <2>1. script[q].op = "fun"
    BY <1>4
  <2> QED  BY <1>1, <1>3, <1>5, <1>9, <1>10, <2>1, NamedOpened
<1>12. PICK fr : Opens(st, r, fr) /\ fr.todo = u /\ fr.chain = st[Len(st)].chain
  BY <1>11
<1>13. StandsHome(r, q)
  <2>1. StandsHome(OpenNamed(st, p + 1, <<e, Expr>>), p + 1)
    BY <1>1, <1>4, <1>7, VisitedFunction
  <2> QED  BY <1>4, <1>8, <1>10, <2>1
<1>14. Holding(r, ops)
  <2>1. Takes(Expr) = 0 /\ Leaves(Expr) = 1
    BY DEF Takes, Leaves, Expr
  <2>2. PICK n \in Nat : n = Len(ops)
    BY <1>1
  <2>3. Lifts(u, 1)
    BY <1>7, <1>8, LiftsDefine
  <2>4. Threads(Effects(n), u, n, n + 1)
    <3>1. \A c, m \in Nat : c <= m => Threads(Effects(c), u, m, m + 1)
      BY <2>3 DEF Lifts
    <3>2. n \in Nat /\ n <= n
      BY <2>2
    <3> QED  BY <3>1, <3>2
  <2>5. Len(ops) = Len(ops) - 0
    BY <1>1
  <2>6. FunctionOn(fr) = FunctionOn(st[Len(st)])
    BY <1>12 DEF FunctionOn
  <2>7. fr \in AnyFrames /\ r = Append(Instead(st, <<>>), fr)
    BY <1>12 DEF Opens
  <2>8. Takes(st[Len(st)].todo[1]) = 0 /\ 1 = Leaves(st[Len(st)].todo[1]) /\ 0 \in Nat
    BY <1>3, <2>1
  <2>9. Threads(Effects(Len(ops)), fr.todo, Len(ops), Len(ops) + 1)
    BY <1>12, <2>2, <2>4
  <2>10. Holding(Append(Instead(st, <<>>), fr), ops)
    BY <1>1, <1>2, <1>3, <2>5, <2>6, <2>7, <2>8, <2>9, HoldingOpen
  <2> QED  BY <2>7, <2>10
<1>15. DefinesAt(fr.todo, p + 1, 1)
  <2>1. ~ Defines(Expr)
    BY DEF Expr, Defines
  <2>2. u[2] = Expr /\ \A j \in 1 .. 2 : j = 1 \/ j = 2
    BY <1>9
  <2>3. \A j \in 1 .. Len(u) : Defines(u[j]) => j = 1 /\ u[j].node = q
    BY <1>7, <1>9, <2>1, <2>2
  <2> QED  BY <1>4, <1>9, <1>12, <2>3 DEF DefinesAt
<1>16. ReadyStack(Instead(st, <<>>), q, vals, fns)
  <2>1. \A k \in 1 .. Len(NoneMade) : Ready(NoneMade[k], q, vals, fns)
    BY NothingMade
  <2>2. ReadyStack(Instead(st, NoneMade), q, vals, fns)
    BY <1>1, <1>2, <1>3, <1>5, <2>1, NothingMade, ReadyInstead
  <2> QED  BY <2>2 DEF NoneMade
<1>17. \A j \in 1 .. Len(fr.todo) : Ready(fr.todo[j], q, vals, fns)
  <2>1. ~ Created(fns, q)
    BY <1>2, <1>5 DEF FunctionsAgree, FunctionAgrees, Created
  <2>2. Ready(e, q, vals, fns)
    <3>1. script[e.node].op = "fun" /\ e.node \in 1 .. q
      BY <1>4, <1>5, <1>7
    <3> QED  BY <1>7, <2>1, <3>1 DEF Ready
  <2> QED  BY <1>9, <1>12, <2>2, ExprReady
<1>18. \A f : ~ AboutToDefine(st, f)
  <2>1. Expr.do # "define"
    BY DEF Expr
  <2> QED  BY <1>3, <2>1, NotAboutTo
<1>19. \A i \in 1 .. Len(st) : Settled(ScopeOf(st, i), r, vals, fns)
  BY <1>2, <1>18, SettledSame DEF SettledStack
<1>20. Settled(ScopeOf(r, Len(st) + 1), r, vals, fns)
  <2>1. PICK sc : sc = ScopeOf(st, Len(st))
    OBVIOUS
  <2>2. Settled(sc, st, vals, fns) /\ sc \in Scopes
    BY <1>1, <1>2, <2>1, SettledTop, TopType
  <2>3. PICK nc : nc = NamedScope(sc, q)
    OBVIOUS
  <2>4. PICK s : s = Function(Innermost(sc), q, script[q].name)
    OBVIOUS
  <2>5. nc.chain = sc.chain /\ nc.table = WithSymbol(sc.table, s) /\ nc.seen = sc.seen
    BY <2>3, <2>4, ScopeFields DEF NamedScope
  <2>6. s.node = q
    BY <2>4 DEF Function
  <2>7. VariablesSettled(nc, vals, fns)
    BY <2>2, <2>5 DEF Settled, VariablesSettled
  <2>8. AboutToDefine(r, q)
    <3>1. Len(r) = Len(st) + 1 /\ r[Len(st) + 1] = fr
      BY <1>12 DEF Opens
    <3>2. r[Len(r)].todo = u
      BY <1>12, <3>1
    <3>3. u # <<>>
      BY <1>9
    <3> QED  BY <1>6, <1>9, <3>2, <3>3 DEF AboutToDefine
  <2>9. ASSUME NEW x \in Names, nc.table[x].kind = "fun"
        PROVE  /\ nc.table[x].node \in Funs
               /\ Created(fns, nc.table[x].node) \/ AboutToDefine(r, nc.table[x].node)
    <3>1. sc.table \in Tables
      BY <2>2, ScopeType
    <3>2. nc.table[x] = s \/ nc.table[x] = sc.table[x]
      BY <2>5, <3>1 DEF WithSymbol, Tables
    <3>3. CASE nc.table[x] = s
      BY <1>5, <2>6, <2>8, <3>3
    <3>4. CASE nc.table[x] = sc.table[x]
      BY <1>18, <2>2, <2>9, <3>4 DEF Settled, FunctionsSettled
    <3> QED  BY <3>2, <3>3, <3>4
  <2>10. FunctionsSettled(nc, r, fns)
    BY <2>9 DEF FunctionsSettled
  <2> QED  BY <1>11, <2>1, <2>3, <2>7, <2>10 DEF Settled
<1>21. ValuesAgree(q, vals, fns) /\ FunctionsAgree(q, vals, fns)
  BY <1>1, <1>2, <1>5, ValuesLater, FunctionsLater
<1>22. GeneratedSo(r, q, ops, vals, fns, em, sts)
  BY <1>1, <1>2, <1>3, <1>5, <1>12, <1>13, <1>14, <1>15, <1>16, <1>17, <1>19, <1>20,
     <1>21, SoOpen
<1> QED  BY <1>4, <1>22

-----------------------------------------------------------------------------
Assigned(f, s, t, vals, vals2) ==
    /\ vals2 = [g \in Funs |-> vals2[g]]
    /\ vals2[f][s] = t
    /\ \A g \in Funs : vals2[g] \in [locals[g] -> Values]
    /\ \A g \in Funs : \A v \in locals[g] :
          ~ (g = f /\ v = s) => vals2[g][v] = vals[g][v]

(* vals2 is vals with the value t for the variable s of f.                 *)
Stored(f, s, t, vals, vals2) == vals2 = [vals EXCEPT ![f][s] = t]

LEMMA Assignment ==
    ASSUME NEW p, NEW vals, NEW fns, ValuesAgree(p, vals, fns),
           NEW f \in Funs, NEW s \in locals[f], NEW t \in Values,
           NEW vals2, Stored(f, s, t, vals, vals2)
    PROVE  Assigned(f, s, t, vals, vals2)
<1>1. vals = [g \in Funs |-> vals[g]] /\ \A g \in Funs : vals[g] \in [locals[g] -> Values]
  BY DEF ValuesAgree
<1>2. PICK row : row = [vals[f] EXCEPT ![s] = t]
  OBVIOUS
<1>3. vals[f] \in [locals[f] -> Values]
  BY <1>1
<1>4. row \in [locals[f] -> Values] /\ row[s] = t
      /\ \A v \in locals[f] : v # s => row[v] = vals[f][v]
  BY <1>2, <1>3
<1>5. vals2 = [vals EXCEPT ![f] = row]
  BY <1>2 DEF Stored
<1>6. vals2 = [g \in Funs |-> IF g = f THEN row ELSE vals[g]]
  BY <1>1, <1>5
<1>7. vals2[f] = row /\ \A g \in Funs : g # f => vals2[g] = vals[g]
  BY <1>6
<1>8. vals2 = [g \in Funs |-> vals2[g]]
  BY <1>6
<1>9. ASSUME NEW g \in Funs
      PROVE  /\ vals2[g] \in [locals[g] -> Values]
             /\ \A v \in locals[g] : ~ (g = f /\ v = s) => vals2[g][v] = vals[g][v]
  <2>1. CASE g = f
    BY <1>4, <1>7, <2>1
  <2>2. CASE g # f
    BY <1>1, <1>7, <2>2
  <2> QED  BY <2>1, <2>2
<1>10. vals2[f][s] = t
  BY <1>4, <1>7
<1> QED  BY <1>8, <1>9, <1>10 DEF Assigned

(* The variable that the `let' at q makes in f.                            *)
LetVariable(f, q) == Variable(f, q, script[q].name)

(* new is ops without its last n operands.                                 *)
Shorter(ops, n, new) == new = SubSeq(ops, 1, Len(ops) - n)

(* The variable of a `let' gets its value and comes into scope.            *)
LEMMA SoBind ==
    ASSUME HandedOver, NEW st, NEW p, NEW ops, NEW vals, NEW fns, NEW em, NEW sts,
           GeneratedSo(st, p, ops, vals, fns, em, sts),
           st[Len(st)].todo # <<>>, NEW e, e = st[Len(st)].todo[1], e.do = "bind",
           NEW f, f = FunctionOn(st[Len(st)]),
           NEW s, s = LetVariable(f, e.node),
           NEW t, t = ops[Len(ops)],
           NEW vals2, Stored(f, s, t, vals, vals2),
           NEW r, r = OpenLet(st, e.node, <<Expr>>),
           NEW new, Shorter(ops, 1, new)
    PROVE  GeneratedSo(r, p, new, vals2, fns, em, sts)
<1>1. /\ script \in Seq(Nodes) /\ Len(script) \in Nat /\ p \in Nat /\ p \in 0 .. Len(script)
      /\ p <= Len(script)
      /\ st \in Stacks /\ HomeStack(st) /\ Standing(st, Walk[p])
      /\ ops \in Seq(Values) /\ Len(ops) \in Nat
  BY SoParts
<1>2. /\ Holding(st, ops) /\ OperandsOK(ops) /\ Made(em, sts, fns) /\ Once(st)
      /\ ReadyStack(st, p, vals, fns) /\ SettledStack(st, vals, fns)
      /\ ValuesAgree(p, vals, fns) /\ FunctionsAgree(p, vals, fns)
  BY DEF GeneratedSo
<1>3. PICK q : q = e.node
  OBVIOUS
<1>3a. s = Variable(f, q, script[q].name)
  BY <1>3 DEF LetVariable
<1>4. Ready(e, p, vals, fns)
  BY <1>1, <1>2, ReadyOf
<1>5. /\ q \in 1 .. p /\ script[q].op = "let"
      /\ \A g \in Funs : \A v \in locals[g] : v.node = q => ~ Bound(vals, g, v)
  BY <1>3, <1>4 DEF Ready
<1>6. q \in 1 .. Len(script) /\ q \in Nat
  BY <1>1, <1>5
<1>7. PICK sc : sc = ScopeOf(st, Len(st))
  OBVIOUS
<1>8. Reached(q) /\ sc = ScopeAt(q)
  <2>1. AtHome(sc, e)
    BY <1>1, <1>7, HomeFirst
  <2> QED  BY <1>3, <2>1 DEF AtHome
<1>9. /\ sc.chain = st[Len(st)].chain /\ sc.table = st[Len(st)].table
      /\ Innermost(sc) = f /\ sc \in Scopes
  BY <1>1, <1>7, TopType
<1>10. /\ f \in Funs /\ f \in Nat /\ f < q
       /\ f = sc.chain[Len(sc.chain)] /\ Len(sc.chain) \in 1 .. Len(sc.chain)
  <2>1. Len(sc.chain) \in Nat /\ Len(sc.chain) >= 1
    BY <1>6, <1>8, ChainFacts
  <2>2. Len(sc.chain) \in 1 .. Len(sc.chain)
    BY <2>1
  <2>3. f = sc.chain[Len(sc.chain)]
    BY <1>9 DEF Innermost
  <2>4. sc.chain[Len(sc.chain)] \in Funs /\ sc.chain[Len(sc.chain)] \in Nat
        /\ sc.chain[Len(sc.chain)] < q
    BY <1>6, <1>8, <2>2, ChainFacts
  <2> QED  BY <2>2, <2>3, <2>4
<1>11. s \in locals[f] /\ s.fn = f /\ s.node = q /\ s.kind = "var"
  <2>1. Records(sc, script[q], q, locals, refs[q], <<>>)
    BY <1>6, <1>8, ReachedRecords
  <2>2. Variable(f, q, script[q].name) \in locals[f]
    BY <1>5, <1>9, <2>1 DEF Records
  <2>3. s \in locals[f]
    BY <1>3a, <2>2
  <2> QED  BY <1>3a, <2>3 DEF Variable
<1>12. Takes(e) = 1 /\ Leaves(e) = 1 /\ 1 \in Nat
  BY DEF Takes, Leaves
<1>13. 1 <= Len(ops) /\ Local(t, st[Len(st)])
  <2>1. Takes(st[Len(st)].todo[1]) = 1 /\ Takes(st[Len(st)].todo[1]) \in Nat
    BY <1>12
  <2>2. Takes(st[Len(st)].todo[1]) <= Len(ops)
        /\ \A k \in Len(ops) - Takes(st[Len(st)].todo[1]) + 1 .. Len(ops) : Local(ops[k], st[Len(st)])
    BY <1>1, <1>2, <2>1, TakenLocal
  <2>3. 1 <= Len(ops) /\ Len(ops) \in Len(ops) - 1 + 1 .. Len(ops)
    BY <1>1, <2>1, <2>2
  <2> QED  BY <2>1, <2>2, <2>3
<1>14. t \in Values /\ t.type # "unbound" /\ t.fn \in {f, NoFun}
  <2>1. Len(ops) \in 1 .. Len(ops)
    BY <1>1, <1>13
  <2> QED  BY <1>1, <1>2, <1>13, <2>1 DEF OperandsOK, Local
<1>15. Assigned(f, s, t, vals, vals2)
  BY <1>2, <1>10, <1>11, <1>14, Assignment
<1>16. \A g \in Funs : \A v \in locals[g] : v.node = q => ~ Bound(vals, g, v)
  BY <1>5
<1>17. Keeps(vals, fns, vals2, fns)
  <2>1. ~ Bound(vals, f, s)
    BY <1>10, <1>11, <1>16
  <2> QED  BY <1>15, <2>1 DEF Keeps, Assigned
<1>18. AddsOnly(q, vals, fns, vals2, fns)
  <2>1. ASSUME NEW g \in Funs, NEW v \in locals[g], Bound(vals2, g, v)
        PROVE  v.node = q \/ \E h \in Funs : v \in locals[h] /\ Bound(vals, h, v)
    <3>1. CASE g = f /\ v = s
      BY <1>11, <3>1
    <3>2. CASE ~ (g = f /\ v = s)
      <4>1. vals2[g][v] = vals[g][v]
        BY <1>15, <3>2 DEF Assigned
      <4> QED  BY <2>1, <4>1 DEF Bound
    <3> QED  BY <3>1, <3>2
  <2> QED  BY <2>1 DEF AddsOnly
<1>19. PICK n \in Nat : n = Len(ops)
  BY <1>1
<1>20. Drops(ops, 1, new)
  BY <1>1, <1>2, <1>13, Dropped DEF Shorter
<1>20a. PICK u : u = <<Expr>>
  OBVIOUS
<1>20b. u \in Seq(Tasks) /\ r = OpenLet(st, q, u)
  BY <1>3, <1>20a, ListOne
<1>21. /\ \E fr : Opens(st, r, fr) /\ fr.todo = <<Expr>> /\ fr.chain = st[Len(st)].chain
       /\ ScopeOf(r, Len(st) + 1) = LetScope(sc, q)
  <2>1. /\ script \in Seq(Nodes) /\ st \in Stacks /\ st[Len(st)].todo # <<>>
        /\ q \in 1 .. Len(script) /\ script[q].op = "let"
        /\ u \in Seq(Tasks) /\ r = OpenLet(st, q, u)
    BY <1>1, <1>5, <1>6, <1>20b
  <2>2. /\ \E fr : Opens(st, r, fr) /\ fr.todo = u
                   /\ fr.chain = st[Len(st)].chain
                   /\ fr.table = WithSymbol(st[Len(st)].table,
                        Variable(FunctionOn(st[Len(st)]), q, script[q].name))
        /\ ScopeOf(r, Len(st) + 1) = LetScope(ScopeOf(st, Len(st)), q)
    BY ONLY <2>1, LetOpened
  <2> QED  BY <1>7, <1>20a, <2>2
<1>22. PICK fr : Opens(st, r, fr) /\ fr.todo = <<Expr>> /\ fr.chain = st[Len(st)].chain
  BY <1>21
<1>23. StandsHome(r, p)
  <2>1. Works(st, p)
    BY <1>1 DEF Works
  <2>2. e.node \in 1 .. Len(script) /\ script[e.node].op = "let" /\ e.do \in {"in", "bind"}
    BY <1>3, <1>5, <1>6
  <2> QED  BY <1>1, <2>1, <2>2, EnteredLet
<1>24. Holding(r, new)
  <2>1. new \in Seq(Values) /\ Len(new) = Len(ops) - 1
        /\ \A k \in 1 .. Len(new) : new[k] = ops[k]
    BY <1>20 DEF Drops
  <2>2. PICK m \in Nat : m = Len(new)
    BY <2>1
  <2>3. Threads(Effects(m), <<Expr>>, m, m + 1)
    <3>1. \A c, x \in Nat : c <= x => Threads(Effects(c), <<Expr>>, x, x + 1)
      BY LiftsOne DEF Lifts
    <3>2. m \in Nat /\ m <= m
      BY <2>2
    <3> QED  BY <3>1, <3>2
  <2>4. FunctionOn(fr) = FunctionOn(st[Len(st)])
    BY <1>22 DEF FunctionOn
  <2>5. fr \in AnyFrames /\ r = Append(Instead(st, <<>>), fr)
    BY <1>22 DEF Opens
  <2>6. Threads(Effects(Len(new)), fr.todo, Len(new), Len(new) + 1)
    BY <1>22, <2>2, <2>3
  <2>7. Takes(st[Len(st)].todo[1]) = 1 /\ 1 = Leaves(st[Len(st)].todo[1]) /\ 1 \in Nat
    BY <1>12
  <2>8. Holding(Append(Instead(st, <<>>), fr), new)
    BY <1>1, <1>2, <2>1, <2>4, <2>5, <2>6, <2>7, HoldingOpen
  <2> QED  BY <2>5, <2>8
<1>25. DefinesAt(fr.todo, p + 1, 1)
  BY <1>22, ListOne
<1>26. Defines(e)
  BY DEF Defines
<1>27. ReadyStack(Instead(st, <<>>), p, vals2, fns)
  BY <1>1, <1>2, <1>3, <1>18, <1>26, ReadyAfter
<1>28. \A j \in 1 .. Len(fr.todo) : Ready(fr.todo[j], p, vals2, fns)
  <2>1. \A j \in 1 .. Len(<<Expr>>) : <<Expr>>[j] = Expr
    OBVIOUS
  <2> QED  BY <1>22, <2>1, ExprReady
<1>29. \A g \in Funs : ~ AboutToDefine(st, g)
  BY NotAboutTo
<1>29a. ASSUME NEW c, Settled(c, st, vals, fns) PROVE Settled(c, r, vals2, fns)
  <2>1. \A g \in Funs : AboutToDefine(st, g) => Created(fns, g)
    BY ONLY <1>29
  <2> QED  BY ONLY <1>17, <1>29a, <2>1, SettledKept
<1>30. \A i \in 1 .. Len(st) : Settled(ScopeOf(st, i), r, vals2, fns)
  <2> TAKE i \in 1 .. Len(st)
  <2>1. Settled(ScopeOf(st, i), st, vals, fns)
    BY <1>2 DEF SettledStack
  <2> QED  BY ONLY <1>29a, <2>1
<1>31. Settled(ScopeOf(r, Len(st) + 1), r, vals2, fns)
  <2>1. Settled(sc, st, vals, fns)
    BY <1>1, <1>2, <1>7, SettledTop
  <2>2. Settled(sc, r, vals2, fns)
    BY ONLY <1>29a, <2>1
  <2>3. PICK ls : ls = LetScope(sc, q)
    OBVIOUS
  <2>4. ls.chain = sc.chain /\ ls.table = WithSymbol(sc.table, s) /\ ls.seen = sc.seen \cup {s}
    <3>1. PICK v : v = Variable(Innermost(sc), q, script[q].name)
      OBVIOUS
    <3>2. ls.chain = sc.chain /\ ls.table = WithSymbol(sc.table, v) /\ ls.seen = sc.seen \cup {v}
      BY <2>3, <3>1, ScopeFields DEF LetScope
    <3>3. v = s
      BY <1>3a, <1>9, <3>1
    <3> QED  BY <3>2, <3>3
  <2>5. ASSUME NEW m \in 1 .. Len(ls.chain)
        PROVE  /\ ls.chain[m] \in Funs /\ Created(fns, ls.chain[m])
               /\ \A v \in ls.seen : v \in locals[ls.chain[m]] => Bound(vals2, ls.chain[m], v)
    <3>1. PICK g : g = sc.chain[m]
      OBVIOUS
    <3>2. m \in 1 .. Len(sc.chain)
      BY <2>4
    <3>3. g \in Funs /\ Created(fns, g)
          /\ \A v \in sc.seen : v \in locals[g] => Bound(vals2, g, v)
      BY <2>2, <3>1, <3>2 DEF Settled, VariablesSettled
    <3>4. ASSUME s \in locals[g] PROVE Bound(vals2, g, s)
      <4>1. g < q
        BY <1>6, <1>8, <3>1, <3>2, ChainFacts
      <4>2. g = f
        BY <1>6, <1>11, <3>3, <3>4, <4>1, HeldFurtherIn
      <4> QED  BY <1>14, <1>15, <4>2 DEF Assigned, Bound
    <3> QED  BY <2>4, <3>1, <3>3, <3>4
  <2>6. ASSUME NEW x \in Names, ls.table[x].kind = "fun"
        PROVE  /\ ls.table[x].node \in Funs
               /\ Created(fns, ls.table[x].node) \/ AboutToDefine(r, ls.table[x].node)
    <3>1. sc.table \in Tables
      BY <1>9, ScopeType
    <3>2. ls.table[x] = s \/ ls.table[x] = sc.table[x]
      BY <2>4, <3>1 DEF WithSymbol, Tables
    <3>3. ls.table[x] = sc.table[x]
      BY <1>11, <2>6, <3>2
    <3> QED  BY <2>2, <2>6, <3>3 DEF Settled, FunctionsSettled
  <2>7. VariablesSettled(ls, vals2, fns)
    BY <2>5 DEF VariablesSettled
  <2>8. FunctionsSettled(ls, r, fns)
    BY <2>6 DEF FunctionsSettled
  <2> QED  BY <1>21, <2>3, <2>7, <2>8 DEF Settled
<1>32. ValuesAgree(p, vals2, fns)
  <2>1. ASSUME NEW g \in Funs, NEW v \in locals[g] PROVE ValueAgrees(g, v, p, vals2, fns)
    <3>1. CASE g = f /\ v = s
      <4>1. vals2[g][v] = t /\ v.fn = g
        BY <1>11, <1>15, <3>1 DEF Assigned
      <4>2. Created(fns, f)
        <5>1. VariablesSettled(sc, vals, fns)
          BY <1>1, <1>2, <1>7, SettledTop DEF Settled
        <5> QED  BY <1>10, <5>1 DEF VariablesSettled
      <4>3. v.node \in 0 .. p
        <5>1. q \in 0 .. p
          BY <1>1, <1>5
        <5> QED  BY <1>11, <3>1, <5>1
      <4> QED  BY <1>14, <3>1, <4>1, <4>2, <4>3 DEF ValueAgrees
    <3>2. CASE ~ (g = f /\ v = s)
      <4>1. vals2[g][v] = vals[g][v]
        BY <1>15, <3>2 DEF Assigned
      <4> QED  BY <1>2, <1>17, <4>1, ValueKept
    <3> QED  BY <3>1, <3>2
  <2> QED  BY <1>15, <2>1 DEF ValuesAgree, Assigned
<1>33. FunctionsAgree(p, vals2, fns)
  <2>1. fns = [g \in Funs |-> fns[g]]
    BY <1>2 DEF FunctionsAgree
  <2> QED  BY <1>2, <1>17, <2>1, FunctionsAdded
<1>34. OperandsOK(new)
  BY <1>20 DEF Drops
<1> QED  BY <1>1, <1>2, <1>22, <1>23, <1>24, <1>25, <1>27, <1>28, <1>30, <1>31, <1>32,
     <1>33, <1>34, SoOpen

-----------------------------------------------------------------------------
LEMMA TypeOfParamType ==
    ASSUME NEW ps \in Seq(Params), NEW x \in ParamNames(ps)
    PROVE  TypeOfParam(ps, x) \in Types
<1>1. PICK n \in Nat : n = Len(ps) /\ DOMAIN ps = 1 .. n
  OBVIOUS
<1>2. PICK named : named = {i \in DOMAIN ps : ps[i].name = x}
  OBVIOUS
<1>3. PICK k \in DOMAIN ps : ps[k].name = x
  BY DEF ParamNames
<1> DEFINE T == {m \in Nat : n - m \in named}
<1>4. n - k \in T
  <2>1. n - k \in Nat /\ n - (n - k) = k
    BY <1>1
  <2> QED  BY <1>2, <1>3, <2>1
<1>5. PICK m \in T : \A y \in T : m <= y
  <2>1. T \subseteq Nat /\ T # {}
    BY <1>4
  <2> HIDE DEF T
  <2> QED  BY <2>1, LeastNumber
<1>6. n - m \in named /\ m \in Nat
  BY <1>5
<1>7. ASSUME NEW j \in named PROVE j <= n - m
  <2>1. j \in 1 .. n
    BY <1>1, <1>2
  <2>2. n - j \in Nat /\ n - (n - j) = j
    BY <2>1
  <2>3. n - j \in T
    BY <2>2
  <2>4. m <= n - j
    BY <1>5, <2>3
  <2> QED  BY <1>6, <2>1, <2>4
<1>8. \E i \in named : \A j \in named : j <= i
  BY <1>6, <1>7
<1>9. PICK c : c = CHOOSE i \in named : \A j \in named : j <= i
  OBVIOUS
<1>10. c \in named
  BY <1>8, <1>9
<1>11. ps[c].type \in Types
  <2>1. c \in DOMAIN ps
    BY <1>2, <1>10
  <2>2. ps[c] \in Params
    BY <2>1
  <2> QED  BY <2>2 DEF Params
<1> QED  BY <1>2, <1>9, <1>11 DEF TypeOfParam

(* The values of a function's copies and parameters, as it is created.     *)
RootTypes(q, vals) == [v \in Upvalues(q) |-> vals[v.fn][v].type]

Entry(q, vals) ==
    [v \in locals[q] |->
        IF v \in Upvalues(q) THEN Value(q, RootTypes(q, vals)[v])
        ELSE IF v \in Arguments(q, script[q].params)
             THEN Value(q, TypeOfParam(script[q].params, v.name))
        ELSE Unbound]

Prototype(q, vals) ==
    [params |-> ParamTypes(script[q].params), extra |-> RootTypes(q, vals),
     ret |-> script[q].ret]

LEMMA EntryValues ==
    ASSUME HandedOver, NEW q \in 1 .. Len(script), script[q].op = "fun",
           Reached(q), NEW p, NEW vals, NEW fns, ValuesAgree(p, vals, fns),
           VariablesSettled(ScopeAt(q), vals, fns),
           NEW row, row = Entry(q, vals)
    PROVE  /\ row \in [locals[q] -> Values]
           /\ \A v \in locals[q] :
                 /\ row[v].fn \in {q, NoFun}
                 /\ v \in Upvalues(q) =>
                       /\ row[v].type = vals[v.fn][v].type
                       /\ row[v].type # "unbound"
                       /\ v.fn \in Funs /\ v.fn < q /\ v \in locals[v.fn] /\ v.node < q
                       /\ Bound(vals, v.fn, v)
                 /\ v \in Arguments(q, script[q].params) =>
                       row[v].type # "unbound" /\ v.fn = q /\ v.node = q
                 /\ v \notin Upvalues(q) \cup Arguments(q, script[q].params) =>
                       row[v].type = "unbound"
<1>1. q \in Funs /\ q \in Nat /\ script[q] \in Nodes
  BY ReachedRecords
<1>2. PICK ps : ps = script[q].params
  OBVIOUS
<1>3. ps \in Seq(Params)
  BY <1>1, <1>2, NodeFields
<1>4. ASSUME NEW v \in locals[q], v \in Upvalues(q)
      PROVE  /\ row[v] = Value(q, vals[v.fn][v].type)
             /\ vals[v.fn][v].type \in Types \cup {"null", "unbound"}
             /\ vals[v.fn][v].type # "unbound"
             /\ v.fn \in Funs /\ v.fn < q /\ v \in locals[v.fn] /\ v.node < q
             /\ Bound(vals, v.fn, v)
  <2>1. v.fn # q
    BY <1>4 DEF Upvalues
  <2>2. v.fn \in Funs /\ v \in locals[v.fn] /\ v \in ScopeAt(q).seen /\ v.node < q /\ v.fn < q
    BY <1>1, <2>1, LocalRoot
  <2>3. Bound(vals, v.fn, v)
    BY <2>2, SeenBound
  <2>4. vals[v.fn] \in [locals[v.fn] -> Values]
    BY <2>2 DEF ValuesAgree
  <2>5. vals[v.fn][v] \in Values
    BY <2>2, <2>4
  <2>6. row[v] = Value(q, RootTypes(q, vals)[v]) /\ RootTypes(q, vals)[v] = vals[v.fn][v].type
    BY <1>4 DEF Entry, RootTypes
  <2> QED  BY <2>2, <2>3, <2>5, <2>6 DEF Bound, Values
<1>5. ASSUME NEW v \in locals[q], v \notin Upvalues(q), v \in Arguments(q, ps)
      PROVE  /\ row[v] = Value(q, TypeOfParam(ps, v.name))
             /\ TypeOfParam(ps, v.name) \in Types /\ v.fn = q /\ v.node = q
  <2>1. v.fn = q /\ v.node = q /\ v.name \in ParamNames(ps)
    BY <1>5 DEF Arguments, Variable
  <2>2. TypeOfParam(ps, v.name) \in Types
    BY <1>3, <2>1, TypeOfParamType
  <2>3. row[v] = Value(q, TypeOfParam(ps, v.name))
    BY <1>2, <1>5 DEF Entry
  <2> QED  BY <2>1, <2>2, <2>3
<1>6. ASSUME NEW v \in locals[q], v \notin Upvalues(q), v \notin Arguments(q, ps)
      PROVE  row[v] = Unbound
  BY <1>2, <1>6 DEF Entry
<1>7. ASSUME NEW v, v \in Arguments(q, ps) PROVE v \notin Upvalues(q)
  BY <1>7 DEF Arguments, Variable, Upvalues
<1>8. \A t : Value(q, t).fn = q /\ Value(q, t).type = t
  BY DEF Value
<1>9. Unbound.type = "unbound" /\ Unbound.fn = NoFun
  BY DEF Unbound, Constant, Value
<1>10. \A t \in Types : t # "unbound"
  BY DEF Types
<1>11. \A t \in Types \cup {"null", "unbound"} : Value(q, t) \in Values
  BY <1>1 DEF Values, Value
<1>12. Unbound \in Values
  BY DEF Unbound, Constant, Value, Values
<1>13. ASSUME NEW v \in locals[q] PROVE row[v] \in Values /\ row[v].fn \in {q, NoFun}
  <2>1. CASE v \in Upvalues(q)
    BY <1>4, <1>8, <1>11, <2>1
  <2>2. CASE v \notin Upvalues(q) /\ v \in Arguments(q, ps)
    BY <1>5, <1>8, <1>11, <2>2
  <2>3. CASE v \notin Upvalues(q) /\ v \notin Arguments(q, ps)
    BY <1>6, <1>9, <1>12, <2>3
  <2> QED  BY <2>1, <2>2, <2>3
<1>14. row \in [locals[q] -> Values]
  <2>1. row = [v \in locals[q] |-> row[v]]
    BY DEF Entry
  <2> QED  BY <1>13, <2>1
<1>15. ASSUME NEW v \in locals[q], v \in Upvalues(q)
       PROVE  /\ row[v].type = vals[v.fn][v].type
              /\ row[v].type # "unbound"
              /\ v.fn \in Funs /\ v.fn < q /\ v \in locals[v.fn] /\ v.node < q
              /\ Bound(vals, v.fn, v)
  BY <1>4, <1>8, <1>15
<1>16. ASSUME NEW v \in locals[q], v \in Arguments(q, ps)
       PROVE  row[v].type # "unbound" /\ v.fn = q /\ v.node = q
  BY <1>5, <1>7, <1>8, <1>10, <1>16
<1>17. ASSUME NEW v \in locals[q], v \notin Upvalues(q) \cup Arguments(q, ps)
       PROVE  row[v].type = "unbound"
  BY <1>6, <1>9, <1>17
<1> QED  BY <1>2, <1>13, <1>14, <1>15, <1>16, <1>17

-----------------------------------------------------------------------------
(* A function is created: its values and its type agree with those of the  *)
(* variables around it.                                                    *)
Creation(q, vals, fns, vals2, fns2) ==
    /\ vals2 = [f \in Funs |-> vals2[f]] /\ fns2 = [f \in Funs |-> fns2[f]]
    /\ vals2[q] = Entry(q, vals) /\ fns2[q] = Prototype(q, vals)
    /\ \A f \in Funs : f # q => vals2[f] = vals[f] /\ fns2[f] = fns[f]

LEMMA CreationOf ==
    ASSUME NEW q \in Funs, NEW p, NEW vals, NEW fns, ValuesAgree(p, vals, fns),
           FunctionsAgree(p, vals, fns),
           NEW vals2, vals2 = [vals EXCEPT ![q] = Entry(q, vals)],
           NEW fns2, fns2 = [fns EXCEPT ![q] = Prototype(q, vals)]
    PROVE  Creation(q, vals, fns, vals2, fns2)
<1>1. vals = [f \in Funs |-> vals[f]] /\ fns = [f \in Funs |-> fns[f]]
  BY DEF ValuesAgree, FunctionsAgree
<1>2. DOMAIN vals = Funs /\ DOMAIN fns = Funs
  BY <1>1
<1>3. PICK e : e = Entry(q, vals)
  OBVIOUS
<1>4. PICK t : t = Prototype(q, vals)
  OBVIOUS
<1>5. vals2 = [vals EXCEPT ![q] = e] /\ fns2 = [fns EXCEPT ![q] = t]
  BY <1>3, <1>4
<1>6. vals2 = [f \in Funs |-> vals2[f]] /\ vals2[q] = e
      /\ \A f \in Funs : f # q => vals2[f] = vals[f]
  BY <1>2, <1>5
<1>7. fns2 = [f \in Funs |-> fns2[f]] /\ fns2[q] = t
      /\ \A f \in Funs : f # q => fns2[f] = fns[f]
  BY <1>2, <1>5
<1> QED  BY <1>3, <1>4, <1>6, <1>7 DEF Creation

LEMMA CreationAgrees ==
    ASSUME HandedOver, NEW q \in 1 .. Len(script), script[q].op = "fun",
           Reached(q), NEW p \in Nat, q <= p, NEW vals, NEW fns,
           ValuesAgree(p, vals, fns), FunctionsAgree(p, vals, fns),
           VariablesSettled(ScopeAt(q), vals, fns), ~ Created(fns, q),
           NEW vals2, NEW fns2, Creation(q, vals, fns, vals2, fns2)
    PROVE  /\ Keeps(vals, fns, vals2, fns2) /\ AddsOnly(q, vals, fns, vals2, fns2)
           /\ ValuesAgree(p, vals2, fns2) /\ FunctionsAgree(p, vals2, fns2)
           /\ Created(fns2, q)
<1>1. q \in Funs /\ q \in Nat /\ script[q] \in Nodes
  BY ReachedRecords
<1>2. PICK row : row = Entry(q, vals)
  OBVIOUS
<1>3. PICK ps : ps = script[q].params
  OBVIOUS
<1>4. /\ row \in [locals[q] -> Values]
      /\ \A v \in locals[q] :
            /\ row[v].fn \in {q, NoFun}
            /\ v \in Upvalues(q) =>
                  /\ row[v].type = vals[v.fn][v].type
                  /\ row[v].type # "unbound"
                  /\ v.fn \in Funs /\ v.fn < q /\ v \in locals[v.fn] /\ v.node < q
                  /\ Bound(vals, v.fn, v)
            /\ v \in Arguments(q, ps) =>
                  row[v].type # "unbound" /\ v.fn = q /\ v.node = q
            /\ v \notin Upvalues(q) \cup Arguments(q, ps) =>
                  row[v].type = "unbound"
  BY <1>2, <1>3, EntryValues
<1>5. vals2[q] = row /\ fns2[q] = Prototype(q, vals)
      /\ \A f \in Funs : f # q => vals2[f] = vals[f] /\ fns2[f] = fns[f]
  BY <1>2 DEF Creation
<1>6. \A v \in locals[q] : ~ Bound(vals, q, v)
  BY <1>1 DEF ValuesAgree, ValueAgrees
<1>7. fns2[q].ret \in Types
  <2>1. fns2[q].ret = script[q].ret
    BY <1>5 DEF Prototype
  <2>2. script[q].ret \in Types
    BY <1>1 DEF Nodes
  <2> QED  BY <2>1, <2>2
<1>8. fns2[q] # NotCreated
  BY <1>7 DEF NotCreated, Types
<1>9. Created(fns2, q)
  BY <1>8 DEF Created
<1>10. Keeps(vals, fns, vals2, fns2)
  BY <1>5, <1>6, <1>1 DEF Keeps, Created
<1>11. AddsOnly(q, vals, fns, vals2, fns2)
  <2>1. ASSUME NEW f \in Funs, NEW v \in locals[f], Bound(vals2, f, v)
        PROVE  v.node = q \/ \E g \in Funs : v \in locals[g] /\ Bound(vals, g, v)
    <3>1. CASE f = q
      <4>1. row[v].type # "unbound"
        BY <1>5, <2>1, <3>1 DEF Bound
      <4> QED  BY <1>4, <3>1, <4>1
    <3>2. CASE f # q
      BY <1>5, <2>1, <3>2 DEF Bound
    <3> QED  BY <3>1, <3>2
  <2>2. \A f \in Funs : Created(fns2, f) => f = q \/ Created(fns, f)
    BY <1>5 DEF Created
  <2> QED  BY <2>1, <2>2 DEF AddsOnly
<1>12. ASSUME NEW f \in Funs, NEW v \in locals[f] PROVE ValueAgrees(f, v, p, vals2, fns2)
  <2>1. CASE f # q
    BY <1>5, <1>10, <2>1, ValueKept
  <2>2. CASE f = q
    <3>1. vals2[f][v] = row[v] /\ row[v].fn \in {q, NoFun}
      BY <1>4, <1>5, <2>2
    <3>2. ASSUME Bound(vals2, f, v)
          PROVE  v.node \in 0 .. p /\ vals2[f][v].type = vals2[v.fn][v].type
      <4>1. v \in Upvalues(q) \/ v \in Arguments(q, ps)
        BY <1>4, <2>2, <3>1, <3>2 DEF Bound
      <4>2. CASE v \in Upvalues(q)
        <5>1. row[v].type = vals[v.fn][v].type /\ v.fn \in Funs /\ v.fn < q /\ v.node < q
              /\ v \in locals[v.fn]
          BY <1>4, <2>2, <4>2
        <5>2. PICK g \in Funs : g = v.fn
          BY <5>1
        <5>2a. g # q
          BY <1>1, <5>1, <5>2
        <5>2b. vals2[g] = vals[g]
          BY <1>5, <5>2a
        <5>3. v.node \in Nat
          BY <2>2, LocalRoot
        <5> QED  BY <1>1, <3>1, <5>1, <5>2, <5>2b, <5>3
      <4>3. CASE v \in Arguments(q, ps)
        BY <1>1, <1>4, <2>2, <4>3
      <4> QED  BY <4>1, <4>2, <4>3
    <3> QED  BY <1>9, <2>2, <3>1, <3>2 DEF ValueAgrees
  <2> QED  BY <2>1, <2>2
<1>13. ASSUME NEW f \in Funs PROVE vals2[f] \in [locals[f] -> Values]
  BY <1>4, <1>5 DEF ValuesAgree
<1>14. ValuesAgree(p, vals2, fns2)
  BY <1>12, <1>13 DEF ValuesAgree, Creation
<1>15. FunctionAgrees(q, p, vals2, fns2)
  <2>1. ASSUME NEW v \in Upvalues(q)
        PROVE  vals2[v.fn][v].type = vals[v.fn][v].type /\ Bound(vals2, v.fn, v)
    <3>1. v \in locals[q] /\ v.fn \in Funs /\ v.fn < q /\ Bound(vals, v.fn, v)
      BY <1>4 DEF Upvalues
    <3>2. PICK g \in Funs : g = v.fn
      BY <3>1
    <3>3. g # q
      BY <1>1, <3>1, <3>2
    <3>4. vals2[g] = vals[g]
      BY <1>5, <3>3
    <3> QED  BY <3>1, <3>2, <3>4 DEF Bound
  <2>2. RootTypes(q, vals2) = RootTypes(q, vals)
    BY <2>1 DEF RootTypes
  <2>3. fns2[q].params = ParamTypes(script[q].params) /\ fns2[q].extra = RootTypes(q, vals)
    BY <1>5 DEF Prototype
  <2>4. fns2[q].extra = [v \in Upvalues(q) |-> vals2[v.fn][v].type]
    BY <2>2, <2>3 DEF RootTypes
  <2>5. q \in 1 .. p
    BY <1>1
  <2> QED  BY <2>1, <2>3, <2>4, <2>5 DEF FunctionAgrees
<1>16. FunctionsAgree(p, vals2, fns2)
  <2>1. fns2 = [f \in Funs |-> fns2[f]]
    BY DEF Creation
  <2>2. \A f \in Funs : fns2[f] # NotCreated =>
            fns[f] # NotCreated \/ FunctionAgrees(f, p, vals2, fns2)
    BY <1>5, <1>15
  <2> QED  BY <1>10, <2>1, <2>2, FunctionsAdded
<1> QED  BY <1>9, <1>10, <1>11, <1>14, <1>16

-----------------------------------------------------------------------------
(* What the definition of a function that is created can see has its value *)
(* in all functions around.                                                *)
LEMMA BodySettled ==
    ASSUME HandedOver, NEW q \in 1 .. Len(script), script[q].op = "fun",
           Reached(q), NEW p \in Nat, q <= p, NEW vals, NEW fns,
           ValuesAgree(p, vals, fns), FunctionsAgree(p, vals, fns),
           VariablesSettled(ScopeAt(q), vals, fns), ~ Created(fns, q),
           NEW vals2, NEW fns2, Creation(q, vals, fns, vals2, fns2),
           NEW bs, bs = BodyScope(NamedScope(ScopeAt(q), q), q)
    PROVE  VariablesSettled(bs, vals2, fns2)
<1>1. PICK sc : sc = ScopeAt(q)
  OBVIOUS
<1>2. PICK n \in Nat : n = Len(sc.chain)
  BY <1>1, ChainFacts
<1>3. PICK ps : ps = script[q].params
  OBVIOUS
<1>4. bs.chain = Append(sc.chain, q) /\ bs.seen = sc.seen \cup Arguments(q, ps)
  <2>1. PICK nc : nc = NamedScope(sc, q)
    OBVIOUS
  <2>2. nc.chain = sc.chain /\ nc.seen = sc.seen
    BY <2>1, ScopeFields DEF NamedScope
  <2>3. bs = BodyScope(nc, q)
    BY <1>1, <2>1
  <2> QED  BY <1>3, <2>2, <2>3 DEF BodyScope, Scope
<1>5. sc.chain \in Seq(Nat)
  BY <1>1, ChainFacts, ScopeType
<1>6. Len(bs.chain) = n + 1 /\ bs.chain[n + 1] = q
      /\ \A k \in 1 .. n : bs.chain[k] = sc.chain[k]
  BY <1>2, <1>4, <1>5
<1>7. q \in Funs /\ q \in Nat
  BY ReachedRecords
<1>8. /\ Keeps(vals, fns, vals2, fns2) /\ Created(fns2, q)
  BY CreationAgrees
<1>9. VariablesSettled(sc, vals2, fns2)
  BY <1>1, <1>8, VariablesKept
<1>10. ASSUME NEW k \in 1 .. n
       PROVE  /\ bs.chain[k] \in Funs /\ Created(fns2, bs.chain[k])
              /\ \A v \in bs.seen : v \in locals[bs.chain[k]] => Bound(vals2, bs.chain[k], v)
  <2>1. PICK g : g = sc.chain[k]
    OBVIOUS
  <2>2. g \in Funs /\ Created(fns2, g)
        /\ \A v \in sc.seen : v \in locals[g] => Bound(vals2, g, v)
    BY <1>2, <1>9, <2>1 DEF VariablesSettled
  <2>3. g < q /\ g \in Nat
    BY <1>1, <1>2, <2>1, ChainFacts
  <2>4. ASSUME NEW v \in Arguments(q, ps), v \in locals[g] PROVE FALSE
    <3>1. v.fn = q /\ v.node = q
      BY DEF Arguments, Variable
    <3>2. v.fn = g
      BY <2>2, <2>3, <2>4, <3>1, HeldFurtherIn
    <3> QED  BY <1>7, <2>3, <3>1, <3>2
  <2> QED  BY <1>4, <1>6, <2>1, <2>2, <2>4
<1>11. ASSUME NEW v \in bs.seen, v \in locals[q] PROVE Bound(vals2, q, v)
  <2>1. PICK row : row = Entry(q, vals)
    OBVIOUS
  <2>2. /\ v \in Upvalues(q) => row[v].type # "unbound"
        /\ v \in Arguments(q, ps) => row[v].type # "unbound"
    BY <1>3, <1>11, <2>1, EntryValues
  <2>3. v \in Upvalues(q) \/ v \in Arguments(q, ps)
    <3>1. CASE v \in sc.seen
      <4>1. \E k \in 1 .. n : sc.chain[k] = v.fn
        BY <1>1, <1>2, <3>1, ChainFacts
      <4>2. PICK k \in 1 .. n : sc.chain[k] = v.fn
        BY <4>1
      <4>3. sc.chain[k] < q /\ sc.chain[k] \in Nat
        BY <1>1, <1>2, ChainFacts
      <4>4. v.fn # q
        BY <1>7, <4>2, <4>3
      <4> QED  BY <1>11, <4>4 DEF Upvalues
    <3>2. CASE v \in Arguments(q, ps)
      BY <3>2
    <3> QED  BY <1>4, <1>11, <3>1, <3>2
  <2>4. vals2[q] = row
    BY <2>1 DEF Creation
  <2> QED  BY <2>2, <2>3, <2>4 DEF Bound
<1>12. ASSUME NEW k \in 1 .. Len(bs.chain)
       PROVE  /\ bs.chain[k] \in Funs /\ Created(fns2, bs.chain[k])
              /\ \A v \in bs.seen : v \in locals[bs.chain[k]] => Bound(vals2, bs.chain[k], v)
  <2>1. k \in 1 .. n \/ k = n + 1
    BY <1>6
  <2>2. CASE k = n + 1
    BY <1>6, <1>7, <1>8, <1>11, <2>2
  <2> QED  BY <1>10, <2>1, <2>2
<1> QED  BY <1>12 DEF VariablesSettled

LEMMA TwoParts ==
    ASSUME NEW e \in Tasks
    PROVE  /\ <<Expr, e>> \in Seq(Tasks) /\ Len(<<Expr, e>>) = 2
           /\ \A j \in 1 .. Len(<<Expr, e>>) : <<Expr, e>>[j] = Expr \/ <<Expr, e>>[j] = e
  BY ExprTask, ListTwo

Creates(q, vals, fns, vals2, fns2) ==
    /\ vals2 = [vals EXCEPT ![q] = Entry(q, vals)]
    /\ fns2 = [fns EXCEPT ![q] = Prototype(q, vals)]

Ending(q, i) == [do |-> "ret", node |-> q, resume |-> i]

LEMMA SoDefine ==
    ASSUME HandedOver, NEW st, NEW p, NEW ops, NEW vals, NEW fns, NEW em, NEW sts,
           GeneratedSo(st, p, ops, vals, fns, em, sts),
           st[Len(st)].todo # <<>>, NEW e, e = st[Len(st)].todo[1], e.do = "define",
           NEW q, q = e.node, NEW i \in Nat,
           NEW vals2, NEW fns2, Creates(q, vals, fns, vals2, fns2),
           NEW x, x = Ending(q, i), NEW r, r = OpenBody(st, q, <<Expr, x>>)
    PROVE  GeneratedSo(r, p, ops, vals2, fns2, em, sts)
<1>1. /\ script \in Seq(Nodes) /\ Len(script) \in Nat
      /\ p \in Nat /\ p \in 0 .. Len(script) /\ p <= Len(script)
      /\ st \in Stacks /\ Standing(st, Walk[p]) /\ HomeStack(st)
      /\ ops \in Seq(Values) /\ Len(ops) \in Nat
  BY SoParts
<1>2. /\ Holding(st, ops) /\ OperandsOK(ops) /\ Made(em, sts, fns) /\ Once(st)
      /\ ReadyStack(st, p, vals, fns) /\ SettledStack(st, vals, fns)
      /\ ValuesAgree(p, vals, fns) /\ FunctionsAgree(p, vals, fns)
  BY DEF GeneratedSo
<1>3. Ready(e, p, vals, fns)
  BY <1>1, <1>2, ReadyOf
<1>4. q \in 1 .. p /\ script[q].op = "fun" /\ ~ Created(fns, q)
  BY <1>3 DEF Ready
<1>5. q \in 1 .. Len(script) /\ q \in Funs /\ q \in Nat /\ q <= p
  BY <1>1, <1>4 DEF Funs
<1>6. PICK sc : sc = ScopeOf(st, Len(st))
  OBVIOUS
<1>7. Reached(q) /\ sc = NamedScope(ScopeAt(q), q)
  <2>1. AtHome(sc, e)
    BY <1>1, <1>6, HomeFirst
  <2> QED  BY <2>1 DEF AtHome
<1>8. Settled(sc, st, vals, fns) /\ sc \in Scopes
  BY <1>1, <1>2, <1>6, SettledTop, TopType
<1>9. VariablesSettled(ScopeAt(q), vals, fns)
  <2>1. PICK hs : hs = ScopeAt(q)
    OBVIOUS
  <2>2. sc.chain = hs.chain /\ sc.seen = hs.seen
    BY <1>7, <2>1 DEF NamedScope, Scope
  <2>3. VariablesSettled(hs, vals, fns)
    BY <1>8, <2>2 DEF Settled, VariablesSettled
  <2> QED  BY <2>1, <2>3
<1>10. Creation(q, vals, fns, vals2, fns2)
  BY <1>2, <1>5, CreationOf DEF Creates
<1>11. /\ Keeps(vals, fns, vals2, fns2) /\ AddsOnly(q, vals, fns, vals2, fns2)
       /\ ValuesAgree(p, vals2, fns2) /\ FunctionsAgree(p, vals2, fns2)
       /\ Created(fns2, q)
  BY <1>1, <1>2, <1>4, <1>5, <1>7, <1>9, <1>10, CreationAgrees
<1>12. x \in Tasks /\ ~ Waits(x) /\ x.do = "ret" /\ x.node = q
  BY <1>5, ReturnTask DEF Ending
<1>13. PICK u : u = <<Expr, x>>
  OBVIOUS
<1>14. u \in Seq(Tasks) /\ Len(u) = 2 /\ \A j \in 1 .. Len(u) : u[j] = Expr \/ u[j] = x
  BY <1>12, <1>13, TwoParts
<1>15. r = OpenBody(st, q, u)
  BY <1>13
<1>16. PICK bs : bs = BodyScope(sc, q)
  OBVIOUS
<1>17. /\ \E fr : Opens(st, r, fr) /\ fr.todo = u
                  /\ fr.chain = Append(st[Len(st)].chain, q)
       /\ ScopeOf(r, Len(st) + 1) = bs
  <2>1. /\ script \in Seq(Nodes) /\ st \in Stacks /\ st[Len(st)].todo # <<>>
        /\ q \in 1 .. Len(script) /\ script[q].op = "fun"
        /\ u \in Seq(Tasks) /\ r = OpenBody(st, q, u)
    BY <1>1, <1>4, <1>5, <1>14, <1>15
  <2>2. /\ \E fr : Opens(st, r, fr) /\ fr.todo = u
                   /\ fr.chain = Append(st[Len(st)].chain, q)
                   /\ fr.table = WithArguments(st[Len(st)].table, q, script[q].params)
        /\ ScopeOf(r, Len(st) + 1) = BodyScope(ScopeOf(st, Len(st)), q)
    BY ONLY <2>1, BodyOpened
  <2> QED  BY <1>6, <1>16, <2>2
<1>18. PICK fr : Opens(st, r, fr) /\ fr.todo = u
  BY <1>17
<1>19. StandsHome(r, p)
  <2>1. Works(st, p)
    BY <1>1 DEF Works
  <2>2. Suits(u, BodyScope(ScopeOf(st, Len(st)), q), 1)
    BY <1>12, <1>13, SuitReturn
  <2>3. AtHome(bs, x)
    BY <1>5, <1>7, <1>12, <1>16 DEF AtHome
  <2>4. \A k \in 1 .. Len(u) : AtHome(BodyScope(ScopeOf(st, Len(st)), q), u[k])
    BY <1>6, <1>14, <1>16, <2>3, ExprAtHome
  <2>5. e.do \in {"body", "define"} /\ e.node \in 1 .. Len(script) /\ script[e.node].op = "fun"
    BY <1>4, <1>5
  <2>6. StandsHome(OpenBody(st, e.node, u), p)
    BY <1>1, <2>1, <2>2, <2>4, <2>5, EnteredBody
  <2> QED  BY <1>15, <2>6
<1>20. Holding(r, ops)
  <2>1. Takes(e) = 0 /\ Leaves(e) = 0
    BY DEF Takes, Leaves
  <2>2. PICK n \in Nat : n = Len(ops)
    BY <1>1
  <2>3. Threads(Effects(n), u, n, n)
    BY <1>12, <1>13, <2>2, LevelReturn
  <2>4. PICK a \in Nat : a = 0
    OBVIOUS
  <2>5. Len(ops) = Len(ops) - a /\ Len(ops) + a = Len(ops)
    BY <1>1, <2>4
  <2>6. fr \in AnyFrames /\ r = Append(Instead(st, <<>>), fr)
    BY <1>18 DEF Opens
  <2>7. Takes(st[Len(st)].todo[1]) = a /\ a = Leaves(st[Len(st)].todo[1]) /\ a # 1
    BY <2>1, <2>4
  <2>8. Threads(Effects(Len(ops)), fr.todo, Len(ops), Len(ops) + a)
    BY <1>18, <2>2, <2>3, <2>5
  <2>9. Holding(Append(Instead(st, <<>>), fr), ops)
    BY <1>1, <1>2, <2>5, <2>6, <2>7, <2>8, HoldingOpen
  <2> QED  BY <2>6, <2>9
<1>21. DefinesAt(fr.todo, p + 1, 1)
  <2>1. ~ Defines(Expr) /\ ~ Defines(x)
    BY <1>12 DEF Defines, Expr
  <2> QED  BY <1>14, <1>18, <2>1 DEF DefinesAt
<1>22. Defines(e)
  BY DEF Defines
<1>23. ReadyStack(Instead(st, <<>>), p, vals2, fns2)
  BY <1>1, <1>2, <1>11, <1>22, ReadyAfter
<1>24. \A j \in 1 .. Len(fr.todo) : Ready(fr.todo[j], p, vals2, fns2)
  <2>1. Ready(x, p, vals2, fns2)
    BY <1>4, <1>12 DEF Ready
  <2> QED  BY <1>14, <1>18, <2>1, ExprReady
<1>25. \A g \in Funs : AboutToDefine(st, g) => Created(fns2, g)
  <2>1. ASSUME NEW g \in Funs, AboutToDefine(st, g) PROVE g = q
    <3>1. e = Work("define", g)
      BY <2>1 DEF AboutToDefine
    <3> QED  BY <3>1 DEF Work
  <2> QED  BY <1>11, <2>1
<1>26. \A k \in 1 .. Len(st) : Settled(ScopeOf(st, k), r, vals2, fns2)
  <2> TAKE k \in 1 .. Len(st)
  <2>1. Settled(ScopeOf(st, k), st, vals, fns)
    BY <1>2 DEF SettledStack
  <2>2. Keeps(vals, fns, vals2, fns2)
    BY <1>11
  <2> QED  BY ONLY <1>25, <2>1, <2>2, SettledKept
<1>27. Settled(ScopeOf(r, Len(st) + 1), r, vals2, fns2)
  <2>1. VariablesSettled(bs, vals2, fns2)
    BY <1>1, <1>2, <1>4, <1>5, <1>7, <1>9, <1>10, <1>16, BodySettled
  <2>2. FunctionsSettled(sc, r, fns2)
    <3>1. Keeps(vals, fns, vals2, fns2) /\ FunctionsSettled(sc, st, fns)
      BY <1>8, <1>11 DEF Settled
    <3> QED  BY ONLY <1>25, <3>1, FunctionsKept
  <2>3. bs.table = WithArguments(sc.table, q, script[q].params)
    BY <1>16 DEF BodyScope, Scope
  <2>4. ASSUME NEW y \in Names, bs.table[y].kind = "fun"
        PROVE  /\ bs.table[y].node \in Funs
               /\ Created(fns2, bs.table[y].node) \/ AboutToDefine(r, bs.table[y].node)
    <3>1. bs.table[y] = sc.table[y] \/ bs.table[y].kind = "var"
      BY <2>3 DEF WithArguments, Variable
    <3>2. bs.table[y] = sc.table[y]
      BY <2>4, <3>1
    <3> QED  BY <2>2, <2>4, <3>2 DEF FunctionsSettled
  <2>5. FunctionsSettled(bs, r, fns2)
    BY <2>4 DEF FunctionsSettled
  <2> QED  BY <1>17, <2>1, <2>5 DEF Settled
<1>28. Made(em, sts, fns2)
  BY <1>2, <1>11, MadeKept
<1> QED  BY <1>1, <1>2, <1>11, <1>18, <1>19, <1>20, <1>21, <1>23, <1>24, <1>26, <1>27,
     <1>28, SoOpen

-----------------------------------------------------------------------------
(* What the second pass leaves alone means the same after a step of it.    *)
LEMMA EffectsFixed ==
    ASSUME script' = script
    PROVE  \A c : Effects(c)' = Effects(c)
<1>1. \A e : Takes(e)' = Takes(e)
  BY DEF Takes
<1>2. \A e : Leaves(e)' = Leaves(e)
  BY DEF Leaves
<1> QED  BY <1>1, <1>2 DEF Effects

LEMMA UnderFixed ==
    ASSUME script' = script
    PROVE  \A st, ops, e, h : Under(st, ops, e, h)' <=> Under(st, ops, e, h)
<1> SUFFICES ASSUME NEW st, NEW ops, NEW e, NEW h
             PROVE  Under(st, ops, e, h)' <=> Under(st, ops, e, h)
  OBVIOUS
<1>1. \A i : Threads(Effects(e[i - 1]), st[i - 1].todo, h[i], h[i - 1])'
             <=> Threads(Effects(e[i - 1]), st[i - 1].todo, h[i], h[i - 1])
  <2>1. \A i : Effects(e[i - 1])' = Effects(e[i - 1])
    BY EffectsFixed
  <2> QED  BY <2>1
<1>2. \A k, i : Local(ops[k], st[i - 1])' <=> Local(ops[k], st[i - 1])
  BY DEF Local, FunctionOn
<1>3. \A i : FunctionOn(st[i])' = FunctionOn(st[i])
  BY DEF FunctionOn
<1> QED  BY <1>1, <1>2, <1>3 DEF Under, FunctionOn

LEMMA HoldingFixed ==
    ASSUME script' = script
    PROVE  \A st, ops : Holding(st, ops)' <=> Holding(st, ops)
<1> SUFFICES ASSUME NEW st, NEW ops PROVE Holding(st, ops)' <=> Holding(st, ops)
  OBVIOUS
<1>1. \A e, h : Under(st, ops, e, h)' <=> Under(st, ops, e, h)
  BY UnderFixed
<1>2. \A e, h : Threads(Effects(e[Len(st)]), st[Len(st)].todo, Len(ops), h[Len(st)])'
                <=> Threads(Effects(e[Len(st)]), st[Len(st)].todo, Len(ops), h[Len(st)])
  <2>1. \A e : Effects(e[Len(st)])' = Effects(e[Len(st)])
    BY EffectsFixed
  <2> QED  BY <2>1
<1>3. \A k : Local(ops[k], st[Len(st)])' <=> Local(ops[k], st[Len(st)])
  BY DEF Local, FunctionOn
<1> QED  BY <1>1, <1>2, <1>3 DEF Holding

Kept == UNCHANGED <<script, locals, refs>>

LEMMA ReadyFixed ==
    ASSUME Kept
    PROVE  \A st, p, vals, fns :
              ReadyStack(st, p, vals, fns)' <=> ReadyStack(st, p, vals, fns)
<1>1. script' = script /\ locals' = locals /\ refs' = refs /\ Funs' = Funs
  BY DEF Kept, Funs
<1>2. \A s : Formals(s)' = Formals(s)
  BY <1>1 DEF Formals
<1>3. \A e, p, vals, fns : Ready(e, p, vals, fns)' <=> Ready(e, p, vals, fns)
  BY <1>1, <1>2 DEF Ready, Bound, Created, Arity
<1>4. \A st, sc, e : InWork(st, sc, e)' <=> InWork(st, sc, e)
  BY DEF InWork, ScopeOf, Seen
<1> QED  BY <1>3, <1>4 DEF ReadyStack

LEMMA SettledFixed ==
    ASSUME Kept
    PROVE  \A st, vals, fns : SettledStack(st, vals, fns)' <=> SettledStack(st, vals, fns)
<1>1. script' = script /\ locals' = locals /\ refs' = refs /\ Funs' = Funs
  BY DEF Kept, Funs
<1>2. \A sc, vals, fns : VariablesSettled(sc, vals, fns)' <=> VariablesSettled(sc, vals, fns)
  BY <1>1 DEF VariablesSettled, Bound, Created
<1>3. \A sc, st, fns : FunctionsSettled(sc, st, fns)' <=> FunctionsSettled(sc, st, fns)
  BY <1>1 DEF FunctionsSettled, Created, AboutToDefine
<1>4. \A sc, st, vals, fns : Settled(sc, st, vals, fns)' <=> Settled(sc, st, vals, fns)
  BY <1>2, <1>3 DEF Settled
<1>5. \A st, i : ScopeOf(st, i)' = ScopeOf(st, i)
  BY DEF ScopeOf, Seen
<1> QED  BY <1>4, <1>5 DEF SettledStack

LEMMA AgreeFixed ==
    ASSUME Kept
    PROVE  /\ \A p, vals, fns : ValuesAgree(p, vals, fns)' <=> ValuesAgree(p, vals, fns)
           /\ \A p, vals, fns : FunctionsAgree(p, vals, fns)' <=> FunctionsAgree(p, vals, fns)
           /\ \A em, sts, fns : Made(em, sts, fns)' <=> Made(em, sts, fns)
           /\ \A ops : OperandsOK(ops)' <=> OperandsOK(ops)
           /\ \A st : Once(st)' <=> Once(st)
<1>1. script' = script /\ locals' = locals /\ refs' = refs /\ Funs' = Funs /\ Values' = Values
  BY DEF Kept, Funs, Values
<1>2. \A f, v, p, vals, fns : ValueAgrees(f, v, p, vals, fns)' <=> ValueAgrees(f, v, p, vals, fns)
  BY DEF ValueAgrees, Bound, Created
<1>3. \A p, vals, fns : ValuesAgree(p, vals, fns)' <=> ValuesAgree(p, vals, fns)
  BY <1>1, <1>2 DEF ValuesAgree
<1>4. \A f : Upvalues(f)' = Upvalues(f)
  BY <1>1 DEF Upvalues
<1>5. \A f, vals : [v \in Upvalues(f) |-> vals[v.fn][v].type]' = [v \in Upvalues(f) |-> vals[v.fn][v].type]
  BY <1>4
<1>6. \A f, p, vals, fns : FunctionAgrees(f, p, vals, fns)' <=> FunctionAgrees(f, p, vals, fns)
  BY <1>1, <1>4, <1>5 DEF FunctionAgrees, Bound
<1>7. \A p, vals, fns : FunctionsAgree(p, vals, fns)' <=> FunctionsAgree(p, vals, fns)
  BY <1>1, <1>6 DEF FunctionsAgree
<1>8. \A c, fns : CallAgrees(c, fns)' <=> CallAgrees(c, fns)
  BY <1>1 DEF CallAgrees
<1>9. \A em, sts, fns : Made(em, sts, fns)' <=> Made(em, sts, fns)
  BY <1>8 DEF Made
<1>10. \A ops : OperandsOK(ops)' <=> OperandsOK(ops)
  BY <1>1 DEF OperandsOK
<1>11. \A st : Once(st)' <=> Once(st)
  BY DEF Once, Defines
<1> QED  BY <1>3, <1>7, <1>9, <1>10, <1>11

LEMMA HandedOverFixed ==
    ASSUME HandedOver, Kept, pos' = pos, climb' = climb
    PROVE  HandedOver'
<1>1. script' = script /\ locals' = locals /\ refs' = refs /\ Funs' = Funs
  BY DEF Kept, Funs
<1>2. script \in Seq(Nodes) /\ pos \in 0 .. Len(script)
  BY HandedParts
<1>3. Walk' = Walk
  BY <1>1, <1>2, WalkFixed
<1>4. \A p : Resolved(p)' <=> Resolved(p)
  BY <1>1, <1>2, ResolvedFixed DEF Resolved
<1>5. LocalsScoped' <=> LocalsScoped
  BY <1>1, <1>2, ResolvedFixed DEF LocalsScoped
<1>6. Recorded'
  BY <1>1, <1>4, <1>5 DEF HandedOver, Recorded
<1>7. (Walk[pos] = <<>>)'
  BY <1>3 DEF HandedOver
<1> QED  BY <1>1, <1>6, <1>7 DEF HandedOver

LEMMA GeneratedFrom ==
    ASSUME HandedOver, Kept, pos' = pos, climb' = climb,
           NEW st, st = gstack', NEW p, p = gpos', NEW ops, ops = operands',
           NEW vals, vals = values', NEW fns, fns = llvm',
           NEW em, em = emitted', NEW sts, sts = stores',
           GeneratedSo(st, p, ops, vals, fns, em, sts)
    PROVE  Generated'
<1>1. script' = script /\ script \in Seq(Nodes)
  BY HandedParts DEF Kept
<1>2. HandedOver'
  BY HandedOverFixed
<1>3. PICK w : w = Walk[p]
  OBVIOUS
<1>4. w = Walk[gpos]'
  BY <1>1, <1>3, WalkFixed
<1>5. StandsHome(st, p) /\ Standing(st, w) /\ HomeStack(st)
  BY <1>3 DEF GeneratedSo, StandsHome
<1>6. Standing(st, w)' /\ HomeStack(st)'
  BY <1>1, <1>5, StandingFixed, HomeFixed
<1>7. StandsHome(gstack, gpos)'
  BY <1>4, <1>6 DEF StandsHome
<1>8. Holding(st, ops)' /\ OperandsOK(ops)' /\ Once(st)'
  BY <1>1, HoldingFixed, AgreeFixed DEF GeneratedSo
<1>9. ReadyStack(st, p, vals, fns)' /\ SettledStack(st, vals, fns)'
  BY ReadyFixed, SettledFixed DEF GeneratedSo
<1>10. ValuesAgree(p, vals, fns)' /\ FunctionsAgree(p, vals, fns)' /\ Made(em, sts, fns)'
  BY AgreeFixed DEF GeneratedSo
<1>11. (p \in 0 .. Len(script))'
  BY <1>1 DEF GeneratedSo
<1>12. (st \in Stacks)'
  BY DEF GeneratedSo
<1>13. GeneratedSo(gstack, gpos, operands, values, llvm, emitted, stores)'
  BY <1>7, <1>8, <1>9, <1>10, <1>11, <1>12 DEF GeneratedSo
<1> QED  BY <1>2, <1>13 DEF Generated

-----------------------------------------------------------------------------
(* The second pass in a state, and a step of it.                           *)
From(st, p, ops, vals, fns, em, sts) ==
    /\ st = gstack /\ p = gpos /\ ops = operands /\ vals = values
    /\ fns = llvm /\ em = emitted /\ sts = stores
    /\ HandedOver /\ Inserting
    /\ GeneratedSo(st, p, ops, vals, fns, em, sts)
    /\ Kept /\ pos' = pos /\ climb' = climb

LEMMA FromParts ==
    ASSUME NEW st, NEW p, NEW ops, NEW vals, NEW fns, NEW em, NEW sts,
           From(st, p, ops, vals, fns, em, sts)
    PROVE  /\ HandedOver /\ Inserting /\ GeneratedSo(st, p, ops, vals, fns, em, sts)
           /\ script \in Seq(Nodes) /\ Len(script) \in Nat
           /\ p \in Nat /\ p \in 0 .. Len(script)
           /\ st \in Stacks /\ Standing(st, Walk[p]) /\ HomeStack(st)
           /\ ops \in Seq(Values) /\ Len(ops) \in Nat /\ OperandsOK(ops)
           /\ Holding(st, ops) /\ Made(em, sts, fns) /\ SettledStack(st, vals, fns)
           /\ ReadyStack(st, p, vals, fns)
           /\ ValuesAgree(p, vals, fns) /\ FunctionsAgree(p, vals, fns)
<1>1. HandedOver /\ Inserting /\ GeneratedSo(st, p, ops, vals, fns, em, sts)
  BY DEF From
<1>2. /\ OperandsOK(ops) /\ Holding(st, ops) /\ Made(em, sts, fns)
      /\ ReadyStack(st, p, vals, fns)
      /\ ValuesAgree(p, vals, fns) /\ FunctionsAgree(p, vals, fns)
  BY <1>1 DEF GeneratedSo
<1> QED  BY <1>1, <1>2, SoParts

LEMMA TopOfGenerated ==
    ASSUME NEW st \in Stacks, st = gstack
    PROVE  /\ GTop = st[Len(st)] /\ GTodo = st[Len(st)].todo
           /\ GTable = st[Len(st)].table /\ GFunction = FunctionOn(st[Len(st)])
           /\ \A w : GRest(w) = Instead(st, w)
           /\ GTodo # <<>> => Head(GTodo) = st[Len(st)].todo[1]
<1>1. GTop = st[Len(st)] /\ GTodo = st[Len(st)].todo
      /\ GTable = st[Len(st)].table /\ GFunction = FunctionOn(st[Len(st)])
  BY DEF GTop, GTodo, GTable, GFunction, FunctionOn
<1>2. \A w : GRest(w) = Instead(st, w)
  BY <1>1 DEF GRest, Instead
<1>3. GTodo \in Seq(Tasks)
  BY <1>1, TopType
<1> QED  BY <1>1, <1>2, <1>3

LEMMA VisitFrom ==
    ASSUME NEW st, NEW p, NEW ops, NEW vals, NEW fns, NEW em, NEW sts,
           From(st, p, ops, vals, fns, em, sts), NEW w, Generate(w)
    PROVE  /\ Visits(st, p) /\ GHere = p + 1 /\ gpos' = p + 1
           /\ p + 1 \in 1 .. Len(script) /\ script[p + 1] \in Nodes
           /\ script[p + 1].op \in w
           /\ Reached(p + 1) /\ ScopeAt(p + 1) = ScopeOf(st, Len(st))
<1>1. /\ script \in Seq(Nodes) /\ Len(script) \in Nat /\ p \in Nat
      /\ st \in Stacks /\ Standing(st, Walk[p]) /\ st = gstack /\ p = gpos
  BY FromParts DEF From
<1>2. GTodo # <<>> /\ Head(GTodo) = Expr /\ gpos < Len(script)
      /\ script[GHere].op \in w /\ gpos' = GHere
  BY DEF Generate
<1>3. Visits(st, p)
  BY <1>1, <1>2, TopOfGenerated DEF Visits
<1>4. p + 1 \in 1 .. Len(script) /\ Reached(p + 1) /\ ScopeAt(p + 1) = ScopeOf(st, Len(st))
  BY <1>1, <1>3, VisitsHere
<1>5. script[p + 1] \in Nodes
  BY <1>1, <1>4, NodeAt
<1> QED  BY <1>1, <1>2, <1>3, <1>4, <1>5 DEF GHere

LEMMA WorkFrom ==
    ASSUME NEW st, NEW p, NEW ops, NEW vals, NEW fns, NEW em, NEW sts,
           From(st, p, ops, vals, fns, em, sts), NEW w, Finish(w)
    PROVE  /\ st[Len(st)].todo # <<>> /\ Head(GTodo) = st[Len(st)].todo[1]
           /\ st[Len(st)].todo[1].do \in w /\ gpos' = p
           /\ GNode = st[Len(st)].todo[1].node
           /\ st[Len(st)].todo[1] \in Tasks
           /\ Ready(st[Len(st)].todo[1], p, vals, fns)
           /\ AtHome(ScopeOf(st, Len(st)), st[Len(st)].todo[1])
           /\ insert = FunctionOn(st[Len(st)])
<1>1. /\ st \in Stacks /\ HomeStack(st) /\ st = gstack /\ p = gpos
      /\ ReadyStack(st, p, vals, fns) /\ Inserting
  BY FromParts DEF From
<1>2. Generating /\ GTodo # <<>> /\ Head(GTodo).do \in w /\ gpos' = gpos
  BY DEF Finish
<1>3. st[Len(st)].todo # <<>> /\ Head(GTodo) = st[Len(st)].todo[1]
  BY <1>1, <1>2, TopOfGenerated
<1>4. st[Len(st)].todo[1] \in Tasks
  <2>1. st[Len(st)].todo \in Seq(Tasks)
    BY <1>1, TopType
  <2> QED  BY <1>3, <2>1
<1>5. Ready(st[Len(st)].todo[1], p, vals, fns)
  BY <1>1, <1>3, ReadyOf
<1>6. AtHome(ScopeOf(st, Len(st)), st[Len(st)].todo[1])
  BY <1>1, <1>3, HomeFirst
<1>7. insert = FunctionOn(st[Len(st)])
  BY <1>1, <1>2, InsertsHere, TopOfGenerated
<1> QED  BY <1>1, <1>2, <1>3, <1>4, <1>5, <1>6, <1>7 DEF GNode

(* A step to an invariant state.                                           *)
LEMMA StepTo ==
    ASSUME NEW st, NEW p, NEW ops, NEW vals, NEW fns, NEW em, NEW sts,
           From(st, p, ops, vals, fns, em, sts),
           NEW st2, st2 = gstack', NEW p2, p2 = gpos', NEW ops2, ops2 = operands',
           NEW vals2, vals2 = values', NEW fns2, fns2 = llvm',
           NEW em2, em2 = emitted', NEW sts2, sts2 = stores',
           GeneratedSo(st2, p2, ops2, vals2, fns2, em2, sts2)
    PROVE  Generated'
BY GeneratedFrom DEF From

(* A step that pushes a value for a node without subtrees.                 *)
Answers(v, ops, sts2) ==
    /\ gstack' = GRest(<<>>) /\ operands' = Append(ops, v)
    /\ UNCHANGED <<values, llvm, emitted>> /\ stores' = sts2

LEMMA LeafStep ==
    ASSUME NEW st, NEW p, NEW ops, NEW vals, NEW fns, NEW em, NEW sts,
           From(st, p, ops, vals, fns, em, sts), NEW w, Generate(w),
           w \subseteq {"const", "var", "return"}, Arity(script[p + 1]) = 0,
           NEW v \in Values, v.type # "unbound", Local(v, st[Len(st)]),
           NEW sts2, Made(em, sts2, fns), Answers(v, ops, sts2)
    PROVE  Generated'
<1>1. HandedOver /\ GeneratedSo(st, p, ops, vals, fns, em, sts) /\ st \in Stacks
  BY FromParts
<1>2. Visits(st, p) /\ gpos' = p + 1 /\ script[p + 1].op \notin {"let", "fun"}
  BY VisitFrom
<1>4. PICK st2 : st2 = Instead(st, <<>>)
  OBVIOUS
<1>5. PICK p2 : p2 = p + 1
  OBVIOUS
<1>6. PICK ops2 : ops2 = Append(ops, v)
  OBVIOUS
<1>7. GeneratedSo(st2, p2, ops2, vals, fns, em, sts2)
  BY <1>1, <1>2, <1>4, <1>5, <1>6, SoLeaf
<1>8. st2 = gstack'
  BY <1>1, <1>4, TopOfGenerated DEF From, Answers
<1>9. p2 = gpos' /\ ops2 = operands' /\ vals = values' /\ fns = llvm' /\ em = emitted'
      /\ sts2 = stores'
  BY <1>2, <1>5, <1>6 DEF From, Answers
<1> QED  BY <1>7, <1>8, <1>9, StepTo

LEMMA ConstantGenerated ==
    ASSUME NEW st, NEW p, NEW ops, NEW vals, NEW fns, NEW em, NEW sts,
           From(st, p, ops, vals, fns, em, sts), GenerateConstant
    PROVE  Generated'
<1>1. Generate({"const"})
  BY DEF GenerateConstant
<1>2. GHere = p + 1 /\ script[p + 1] \in Nodes /\ script[p + 1].op \in {"const"}
  BY <1>1, VisitFrom
<1>3. script[p + 1].type \in Types /\ Arity(script[p + 1]) = 0
  BY <1>2 DEF Nodes, Arity
<1>4. PICK v : v = Constant(script[p + 1].type)
  OBVIOUS
<1>5. v \in Values /\ v.type # "unbound" /\ Local(v, st[Len(st)])
  BY <1>3, <1>4 DEF Constant, Value, Values, Types, Local
<1>6. Answers(v, ops, sts)
  BY <1>2, <1>4 DEF GenerateConstant, Continue, From, Answers
<1>7. Made(em, sts, fns)
  BY FromParts
<1>8. PICK w : w = {"const"}
  OBVIOUS
<1>9. Generate(w) /\ w \subseteq {"const", "var", "return"}
  BY <1>1, <1>8
<1> QED  BY <1>3, <1>5, <1>6, <1>7, <1>9, LeafStep

(* What is known of the symbols that a node can see.                       *)
LEMMA SeenFrom ==
    ASSUME NEW st, NEW p, NEW ops, NEW vals, NEW fns, NEW em, NEW sts,
           From(st, p, ops, vals, fns, em, sts), NEW w, Generate(w),
           NEW q, q = p + 1, NEW sc, sc = ScopeAt(q)
    PROVE  /\ VariablesSettled(sc, vals, fns)
           /\ Records(sc, script[q], q, locals, refs[q], <<>>)
           /\ Innermost(sc) = FunctionOn(st[Len(st)])
           /\ sc.table = GTable
           /\ \A x \in Names : sc.table[x].kind = "var" => sc.table[x] \in sc.seen
<1>1. /\ HandedOver /\ st \in Stacks /\ SettledStack(st, vals, fns) /\ st = gstack
  BY FromParts DEF From
<1>2. /\ q \in 1 .. Len(script) /\ Reached(q) /\ sc = ScopeOf(st, Len(st))
  BY VisitFrom
<1>3. Settled(sc, st, vals, fns)
  BY <1>1, <1>2, SettledTop
<1>4. Records(sc, script[q], q, locals, refs[q], <<>>)
  BY <1>1, <1>2, ReachedRecords
<1>5. Innermost(sc) = FunctionOn(st[Len(st)]) /\ sc.table = st[Len(st)].table
  BY <1>1, <1>2, TopType
<1>6. \A x \in Names : NameScoped(sc, sc.table[x], q - 1)
  BY <1>1, <1>2, ChainFacts
<1> QED  BY <1>1, <1>3, <1>4, <1>5, <1>6, TopOfGenerated DEF Settled, NameScoped

LEMMA VariableGenerated ==
    ASSUME NEW st, NEW p, NEW ops, NEW vals, NEW fns, NEW em, NEW sts,
           From(st, p, ops, vals, fns, em, sts), GenerateVariable
    PROVE  Generated'
<1>1. Generate({"var"})
  BY DEF GenerateVariable
<1>2. PICK q : q = p + 1
  OBVIOUS
<1>3. GHere = q /\ q \in 1 .. Len(script) /\ Reached(q)
      /\ script[q] \in Nodes /\ script[q].op \in {"var"}
  BY <1>1, <1>2, VisitFrom
<1>4. Arity(script[q]) = 0 /\ script[q].name \in Names
  BY <1>3, NodeFields DEF Arity
<1>5. PICK sc : sc = ScopeAt(q)
  OBVIOUS
<1>6. /\ VariablesSettled(sc, vals, fns)
      /\ Records(sc, script[q], q, locals, refs[q], <<>>)
      /\ Innermost(sc) = FunctionOn(st[Len(st)])
      /\ \A x \in Names : sc.table[x].kind = "var" => sc.table[x] \in sc.seen
  BY <1>1, <1>2, <1>5, SeenFrom
<1>7. PICK s : s = refs[q]
  OBVIOUS
<1>8. s.kind = "var" => s \in sc.seen /\ s \in locals[Innermost(sc)]
  BY <1>3, <1>4, <1>6, <1>7 DEF Records
<1>9. PICK f : f = Innermost(sc)
  OBVIOUS
<1>10. HandedOver /\ ValuesAgree(p, vals, fns) /\ Made(em, sts, fns) /\ st \in Stacks
  BY FromParts
<1>11. GFunction = f
  BY <1>6, <1>9, <1>10, TopOfGenerated DEF From
<1>12. PICK v : v = IF s.kind = "var" THEN vals[f][s] ELSE Constant("real")
  OBVIOUS
<1>13. v \in Values /\ v.type # "unbound" /\ v.fn \in {FunctionOn(st[Len(st)]), NoFun}
  <2>1. CASE s.kind = "var"
    <3>1. s \in sc.seen /\ s \in locals[f]
      BY <1>8, <1>9, <2>1
    <3>2. /\ vals[f][s] \in Values /\ vals[f][s].type # "unbound"
          /\ vals[f][s].fn \in {f, NoFun}
      BY <1>3, <1>5, <1>6, <1>9, <1>10, <3>1, CopyRead
    <3> QED  BY <1>6, <1>9, <1>12, <2>1, <3>2
  <2>2. CASE s.kind # "var"
    BY <1>12, <2>2 DEF Constant, Value, Values, Types
  <2> QED  BY <2>1, <2>2
<1>14. Answers(v, ops, sts)
  BY <1>3, <1>7, <1>11, <1>12 DEF GenerateVariable, Continue, From, Answers
<1>15. PICK w : w = {"var"}
  OBVIOUS
<1>16. Generate(w) /\ w \subseteq {"const", "var", "return"}
  BY <1>1, <1>15
<1>17. Arity(script[p + 1]) = 0 /\ Made(em, sts, fns)
  BY <1>2, <1>4, <1>10
<1>18. Local(v, st[Len(st)])
  BY <1>13 DEF Local
<1>19. Generated'
  BY <1>13, <1>14, <1>16, <1>17, <1>18, LeafStep
<1> QED  BY <1>19

\* What a `return' finds are locals of the toplevel function, with values.
LEMMA SeenAtReturn ==
    ASSUME NEW st, NEW p, NEW ops, NEW vals, NEW fns, NEW em, NEW sts,
           From(st, p, ops, vals, fns, em, sts), Generate({"return"}),
           NEW q, q = p + 1, NEW sc, sc = ScopeAt(q), NEW v \in sc.seen
    PROVE  v.fn = 0 /\ v \in locals[0] /\ Bound(vals, 0, v)
<1>1. /\ q \in 1 .. Len(script) /\ Reached(q) /\ script[q].op \in {"return"}
  BY VisitFrom
<1>2. VariablesSettled(sc, vals, fns) /\ Records(sc, script[q], q, locals, refs[q], <<>>)
  BY SeenFrom
<1>3. Innermost(sc) = 0 /\ v \in locals[v.fn]
  BY <1>1, <1>2 DEF Records
<1>4. HandedOver
  BY FromParts
<1>5. v.fn = 0
  <2>1. PICK n \in Nat : n = Len(sc.chain)
    BY <1>1, <1>4, ChainFacts
  <2>2. /\ n >= 1 /\ sc.chain[n] = 0
        /\ \A k \in 1 .. n : sc.chain[k] \in Nat
        /\ \A k, m \in 1 .. n : k < m => sc.chain[k] < sc.chain[m]
        /\ \E k \in 1 .. n : sc.chain[k] = v.fn
    BY <1>1, <1>3, <1>4, <2>1, ChainFacts
  <2>3. PICK k \in 1 .. n : sc.chain[k] = v.fn
    BY <2>2
  <2>4. ~ k < n
    <3>1. ASSUME k < n PROVE FALSE
      <4>1. sc.chain[k] < sc.chain[n] /\ sc.chain[k] \in Nat
        BY <2>2, <3>1
      <4> QED  BY <2>2, <4>1
    <3> QED  BY <3>1
  <2> QED  BY <2>2, <2>3, <2>4
<1>6. Bound(vals, v.fn, v)
  BY <1>1, <1>2, <1>4, SeenBound
<1> QED  BY <1>3, <1>5, <1>6

LEMMA ReturnGenerated ==
    ASSUME NEW st, NEW p, NEW ops, NEW vals, NEW fns, NEW em, NEW sts,
           From(st, p, ops, vals, fns, em, sts), GenerateReturn, Generating'
    PROVE  Generated'
<1>1. Generate({"return"})
  BY DEF GenerateReturn
<1>2. PICK q : q = p + 1
  OBVIOUS
<1>3. q \in 1 .. Len(script) /\ Reached(q)
      /\ script[q] \in Nodes /\ script[q].op \in {"return"}
  BY <1>1, <1>2, VisitFrom
<1>4. Arity(script[q]) = 0
  BY <1>3 DEF Arity
<1>5. PICK sc : sc = ScopeAt(q)
  OBVIOUS
<1>6. /\ VariablesSettled(sc, vals, fns)
      /\ Records(sc, script[q], q, locals, refs[q], <<>>)
      /\ sc.table = GTable
      /\ \A x \in Names : sc.table[x].kind = "var" => sc.table[x] \in sc.seen
  BY <1>1, <1>2, <1>5, SeenFrom
<1>7. Innermost(sc) = 0
  BY <1>3, <1>6 DEF Records
<1>8. HandedOver /\ Made(em, sts, fns) /\ st \in Stacks
  BY FromParts
<1>10. ASSUME NEW v \in sc.seen PROVE vals[0][v].type # "unbound"
  BY <1>1, <1>2, <1>5, SeenAtReturn DEF Bound
<1>11. /\ \A i \in DOMAIN Outputs : IsValued(GTable[Outputs[i].name])
       /\ stores' = [i \in DOMAIN Outputs |->
             IF GTable[Outputs[i].name].kind = "var"
             THEN values[0][GTable[Outputs[i].name]].type ELSE "real"]
       /\ gstack' = GRest(<<>>) /\ operands' = Append(operands, Null)
       /\ UNCHANGED <<values, llvm, emitted>>
  BY DEF GenerateReturn, Stop, Generating, Continue
<1>12. PICK sts2 : sts2 = stores'
  OBVIOUS
<1>13. ASSUME NEW i \in DOMAIN sts2 PROVE sts2[i] # "unbound"
  <2>1. i \in DOMAIN Outputs
    BY <1>11, <1>12
  <2>2. Outputs[i].name \in Names
    <3>1. Outputs[i] \in Params
      BY <2>1, OutputsAssumption
    <3> QED  BY <3>1 DEF Params
  <2>3. PICK s : s = sc.table[Outputs[i].name]
    OBVIOUS
  <2>4. sts2[i] = IF s.kind = "var" THEN vals[0][s].type ELSE "real"
    BY <1>6, <1>11, <1>12, <2>1, <2>3 DEF From
  <2>5. s.kind = "var" => s \in sc.seen
    BY <1>6, <2>2, <2>3
  <2> QED  BY <1>10, <2>4, <2>5
<1>14. Made(em, sts2, fns)
  BY <1>8, <1>13 DEF Made
<1>15. Null \in Values /\ Null.type # "unbound" /\ Null.fn = NoFun
  BY DEF Null, Constant, Value, Values
<1>16. PICK v : v = Null
  OBVIOUS
<1>17. operands' = Append(ops, v)
  BY <1>11, <1>16 DEF From
<1>18. PICK w : w = {"return"}
  OBVIOUS
<1>19. Generate(w) /\ w \subseteq {"const", "var", "return"}
  BY <1>1, <1>18
<1>20. Arity(script[p + 1]) = 0
  BY <1>2, <1>4
<1>21. v \in Values /\ v.type # "unbound" /\ Local(v, st[Len(st)])
  BY <1>15, <1>16 DEF Local
<1>22. Answers(v, ops, sts2)
  BY <1>11, <1>12, <1>17 DEF Answers
<1>23. Generated'
  BY <1>14, <1>19, <1>20, <1>21, <1>22, LeafStep
<1> QED  BY <1>23

-----------------------------------------------------------------------------
(* Steps that plan the work on a node's subtrees.                          *)
Plans(u) == gstack' = GRest(u) /\ UNCHANGED <<operands, values, llvm, emitted, stores>>

LEMMA ListGenerated ==
    ASSUME NEW st, NEW p, NEW ops, NEW vals, NEW fns, NEW em, NEW sts,
           From(st, p, ops, vals, fns, em, sts), NEW w, Generate(w),
           NEW u, Lifts(u, 1), StandsHome(Instead(st, u), p + 1),
           NEW k, DefinesAt(u, p + 1, k),
           \A j \in 1 .. Len(u) : Ready(u[j], p + 1, vals, fns), Plans(u)
    PROVE  Generated'
<1>1. HandedOver /\ GeneratedSo(st, p, ops, vals, fns, em, sts) /\ st \in Stacks
  BY FromParts
<1>2. Visits(st, p) /\ gpos' = p + 1
  BY VisitFrom
<1>3. GeneratedSo(Instead(st, u), p + 1, ops, vals, fns, em, sts)
  BY <1>1, <1>2, SoList
<1>4. PICK st2 : st2 = Instead(st, u)
  OBVIOUS
<1>5. PICK p2 : p2 = p + 1
  OBVIOUS
<1>6. st2 = gstack'
  BY <1>1, <1>4, TopOfGenerated DEF From, Plans
<1>7. p2 = gpos' /\ ops = operands' /\ vals = values' /\ fns = llvm' /\ em = emitted'
      /\ sts = stores'
  BY <1>2, <1>5 DEF From, Plans
<1> QED  BY <1>3, <1>4, <1>5, <1>6, <1>7, StepTo

(* Work that is done in the scope of the node it is about.                 *)
HomeWork(e, q) ==
    /\ e \in Tasks /\ e.node = q
    /\ \/ e.do \in {"real", "boolean", "merge"}
       \/ e.do = "build" /\ script[q].op \in {"vector", "splat"}
       \/ /\ e.do = "emit" /\ script[q].op = "call"
          /\ Len(Formals(refs[q])) = script[q].argc

LEMMA HomeFacts ==
    ASSUME NEW q, q \in 1 .. Len(script), Reached(q), NEW e, HomeWork(e, q)
    PROVE  /\ AtHome(ScopeAt(q), e) /\ ~ Defines(e) /\ ~ Waits(e)
           /\ \A p, vals, fns : q \in 1 .. p => Ready(e, p, vals, fns)
<1>1. AtHome(ScopeAt(q), e)
  BY DEF HomeWork, AtHome
<1>2. ~ Defines(e) /\ ~ Waits(e)
  BY DEF HomeWork, Defines, Waits
<1>3. \A p, vals, fns : q \in 1 .. p => Ready(e, p, vals, fns)
  BY DEF HomeWork, Ready
<1> QED  BY <1>1, <1>2, <1>3

LEMMA PlanGenerated ==
    ASSUME NEW st, NEW p, NEW ops, NEW vals, NEW fns, NEW em, NEW sts,
           From(st, p, ops, vals, fns, em, sts), NEW w, Generate(w),
           script[p + 1].op \notin {"let", "fun"},
           NEW u, Lifts(u, 1), Suits(u, ScopeOf(st, Len(st)), Arity(script[p + 1])),
           NEW d, NEW e, HomeWork(d, p + 1), HomeWork(e, p + 1),
           \A j \in 1 .. Len(u) : u[j] = Expr \/ u[j] = d \/ u[j] = e, Plans(u)
    PROVE  Generated'
<1>1. /\ script \in Seq(Nodes) /\ st \in Stacks /\ HomeStack(st) /\ p \in Nat
  BY FromParts
<1>2. /\ Visits(st, p) /\ p + 1 \in 1 .. Len(script) /\ Reached(p + 1)
      /\ ScopeAt(p + 1) = ScopeOf(st, Len(st))
  BY VisitFrom
<1>3. PICK q : q = p + 1
  OBVIOUS
<1>4. /\ AtHome(ScopeAt(q), d) /\ ~ Defines(d)
      /\ \A m, vs, fs : q \in 1 .. m => Ready(d, m, vs, fs)
  BY <1>2, <1>3, HomeFacts
<1>5. /\ AtHome(ScopeAt(q), e) /\ ~ Defines(e)
      /\ \A m, vs, fs : q \in 1 .. m => Ready(e, m, vs, fs)
  BY <1>2, <1>3, HomeFacts
<1>6. q \in 1 .. q
  BY <1>1, <1>3
<1>7. \A j \in 1 .. Len(u) : AtHome(ScopeOf(st, Len(st)), u[j])
  BY <1>2, <1>3, <1>4, <1>5, ExprAtHome
<1>8. StandsHome(Instead(st, u), p + 1)
  BY <1>1, <1>2, <1>7, VisitedUniform
<1>9. ~ Defines(Expr)
  BY DEF Expr, Defines
<1>10. DefinesAt(u, p + 1, 1)
  BY <1>4, <1>5, <1>9 DEF DefinesAt, Lifts
<1>11. \A j \in 1 .. Len(u) : Ready(u[j], p + 1, vals, fns)
  BY <1>3, <1>4, <1>5, <1>6, ExprReady
<1> QED  BY <1>8, <1>10, <1>11, ListGenerated

\* What a vector, a conditional or a call plans.
Planned(st, p) ==
    \E u, d, e :
        /\ Lifts(u, 1) /\ Suits(u, ScopeOf(st, Len(st)), Arity(script[p + 1]))
        /\ HomeWork(d, p + 1) /\ HomeWork(e, p + 1)
        /\ \A j \in 1 .. Len(u) : u[j] = Expr \/ u[j] = d \/ u[j] = e
        /\ Plans(u)

LEMMA OperandsPlanned ==
    ASSUME NEW st, NEW p, NEW ops, NEW vals, NEW fns, NEW em, NEW sts,
           From(st, p, ops, vals, fns, em, sts), GenerateOperands
    PROVE  Planned(st, p)
<1>1. Generate({"vector", "splat", "if"})
  BY DEF GenerateOperands
<1>2. PICK q : q = p + 1
  OBVIOUS
<1>3. /\ GHere = q /\ q \in 1 .. Len(script) /\ script[q] \in Nodes
      /\ script[q].op \in {"vector", "splat", "if"} /\ q \in Nat
  <2>1. p \in Nat
    BY FromParts
  <2> QED  BY <1>1, <1>2, <2>1, VisitFrom
<1>7. PICK sc : sc = ScopeOf(st, Len(st))
  OBVIOUS
<1>8. CASE script[q].op = "if"
  <2>1. PICK d : d = Work("boolean", q)
    OBVIOUS
  <2>2. PICK e : e = Work("merge", q)
    OBVIOUS
  <2>3. d \in Tasks /\ d.do = "boolean" /\ d.node = q /\ e \in Tasks /\ e.do = "merge" /\ e.node = q
    <3>1. "boolean" \in Doings /\ "merge" \in Doings
      BY DEF Doings
    <3> QED  BY <1>3, <2>1, <2>2, <3>1, WorkTask
  <2>4. HomeWork(d, p + 1) /\ HomeWork(e, p + 1) /\ ~ Waits(d) /\ ~ Waits(e)
    BY <1>2, <2>3 DEF HomeWork, Waits
  <2>5. PICK u : u = Conditional(d, e)
    OBVIOUS
  <2>6. Plans(u)
    BY <1>3, <1>8, <2>1, <2>2, <2>5 DEF GenerateOperands, Continue, Plans, Conditional
  <2>7. Lifts(u, 1)
    BY <2>3, <2>5, LiftsConditional
  <2>8. Suits(u, sc, 3)
    BY <2>3, <2>4, <2>5, SuitConditional
  <2>9. Arity(script[p + 1]) = 3
    BY <1>2, <1>8 DEF Arity
  <2>10. \A j \in 1 .. Len(u) : u[j] = Expr \/ u[j] = d \/ u[j] = e
    <3>1. Len(u) = 5 /\ u[1] = Expr /\ u[2] = d /\ u[3] = Expr /\ u[4] = Expr /\ u[5] = e
      BY <2>3, <2>5, ConditionalItems
    <3>2. ASSUME NEW j \in 1 .. 5 PROVE u[j] = Expr \/ u[j] = d \/ u[j] = e
      <4>1. j = 1 \/ j = 2 \/ j = 3 \/ j = 4 \/ j = 5
        BY FiveItems
      <4> QED  BY <3>1, <4>1
    <3> QED  BY <3>1, <3>2
  <2>11. Suits(u, ScopeOf(st, Len(st)), Arity(script[p + 1]))
    BY <1>7, <2>8, <2>9
  <2> QED  BY <2>4, <2>6, <2>7, <2>10, <2>11, Zenon DEF Planned
<1>9. CASE script[q].op # "if"
  <2>1. PICK d : d = Work("real", q)
    OBVIOUS
  <2>2. PICK e : e = Work("build", q)
    OBVIOUS
  <2>3. d \in Tasks /\ d.do = "real" /\ d.node = q /\ e \in Tasks /\ e.do = "build" /\ e.node = q
    <3>1. "real" \in Doings /\ "build" \in Doings
      BY DEF Doings
    <3> QED  BY <1>3, <2>1, <2>2, <3>1, WorkTask
  <2>4. HomeWork(d, p + 1) /\ HomeWork(e, p + 1) /\ ~ Waits(d) /\ ~ Waits(e)
    BY <1>2, <1>3, <1>9, <2>3 DEF HomeWork, Waits
  <2>5. PICK n \in Nat : n = Arity(script[q])
    BY <1>3, NodeFields
  <2>6. PICK c : c = Checked(n, d)
    OBVIOUS
  <2>7. PICK u : u = c \o <<e>>
    OBVIOUS
  <2>8. Plans(u)
    BY <1>3, <1>9, <2>1, <2>2, <2>5, <2>6, <2>7 DEF GenerateOperands, Continue, Plans, Checked
  <2>9. Lifts(u, 1)
    <3>1. Lifts(c, n)
      BY <2>3, <2>6, LiftsChecked
    <3>2. Takes(e) = n /\ Leaves(e) = 1
      BY <2>3, <2>5 DEF Takes, Leaves
    <3>3. Takes(e) \in Nat /\ Takes(e) <= n
      BY <3>2
    <3>4. Lifts(c \o <<e>>, n - Takes(e) + Leaves(e))
      BY <2>3, <3>1, <3>3, LiftsThen
    <3>5. n - Takes(e) + Leaves(e) = 1
      BY <3>2
    <3> QED  BY <2>7, <3>4, <3>5
  <2>10. Suits(u, sc, n)
    <3>1. Suits(c, sc, n)
      BY <2>3, <2>4, <2>6, SuitChecked
    <3> QED  BY <2>3, <2>4, <2>7, <3>1, SuitWith
  <2>11. \A j \in 1 .. Len(u) : u[j] = Expr \/ u[j] = d \/ u[j] = e
    <3>1. c \in Seq(Tasks) /\ Len(c) = 2 * n
          /\ \A j \in 1 .. 2 * n : c[j] = Expr \/ c[j] = d
      BY <2>3, <2>6, CheckedItems
    <3>2. \A j \in 1 .. Len(u) : (j \in 1 .. 2 * n /\ u[j] = c[j]) \/ u[j] = e
      BY <2>7, <3>1
    <3> QED  BY <3>1, <3>2
  <2>12. Suits(u, ScopeOf(st, Len(st)), Arity(script[p + 1]))
    BY <1>2, <1>7, <2>5, <2>10
  <2> QED  BY <2>4, <2>8, <2>9, <2>11, <2>12, Zenon DEF Planned
<1> QED  BY <1>8, <1>9

LEMMA OperandsGenerated ==
    ASSUME NEW st, NEW p, NEW ops, NEW vals, NEW fns, NEW em, NEW sts,
           From(st, p, ops, vals, fns, em, sts), GenerateOperands
    PROVE  Generated'
<1>1. PICK w : w = {"vector", "splat", "if"}
  OBVIOUS
<1>2. Generate(w)
  BY <1>1 DEF GenerateOperands
<1>3. script[p + 1].op \notin {"let", "fun"}
  BY <1>1, <1>2, VisitFrom
<1>4. Planned(st, p)
  BY OperandsPlanned
<1> QED  BY <1>2, <1>3, <1>4, PlanGenerated DEF Planned

LEMMA CallPlanned ==
    ASSUME NEW st, NEW p, NEW ops, NEW vals, NEW fns, NEW em, NEW sts,
           From(st, p, ops, vals, fns, em, sts), GenerateCall, Generating'
    PROVE  Planned(st, p)
<1>1. Generate({"call"})
  BY DEF GenerateCall
<1>2. PICK q : q = p + 1
  OBVIOUS
<1>3. /\ GHere = q /\ q \in 1 .. Len(script) /\ script[q] \in Nodes
      /\ script[q].op \in {"call"} /\ q \in Nat
  <2>1. p \in Nat
    BY FromParts
  <2> QED  BY <1>1, <1>2, <2>1, VisitFrom
<1>7. PICK n \in Nat : n = script[q].argc
  BY <1>3, NodeFields
<1>8. Arity(script[q]) = n
  BY <1>3, <1>7 DEF Arity
<1>9. PICK e : e = Work("emit", q)
  OBVIOUS
<1>10. e \in Tasks /\ e.do = "emit" /\ e.node = q
  <2>1. "emit" \in Doings
    BY DEF Doings
  <2> QED  BY <1>3, <1>9, <2>1, WorkTask
<1>11. PICK u : u = Exprs(n) \o <<e>>
  OBVIOUS
<1>12. Len(Formals(refs[q])) = n /\ Plans(u)
  BY <1>3, <1>7, <1>9, <1>11 DEF GenerateCall, Continue, Plans, Stop, Generating
<1>13. HomeWork(e, p + 1) /\ ~ Waits(e)
  BY <1>2, <1>3, <1>7, <1>10, <1>12 DEF HomeWork, Waits
<1>14. Lifts(u, 1)
  <2>1. Lifts(Exprs(n), n)
    BY LiftsExprs
  <2>2. Takes(e) = n /\ Leaves(e) = 1
    BY <1>7, <1>10 DEF Takes, Leaves
  <2>3. Takes(e) \in Nat /\ Takes(e) <= n
    BY <2>2
  <2>4. PICK x : x = Exprs(n)
    OBVIOUS
  <2>5. Lifts(x \o <<e>>, n - Takes(e) + Leaves(e))
    BY <1>10, <2>1, <2>3, <2>4, LiftsThen
  <2>6. n - Takes(e) + Leaves(e) = 1
    BY <2>2
  <2> QED  BY <1>11, <2>4, <2>5, <2>6
<1>15. Suits(u, ScopeOf(st, Len(st)), Arity(script[p + 1]))
  <2>1. PICK sc : sc = ScopeOf(st, Len(st))
    OBVIOUS
  <2>2. PICK x : x = Exprs(n)
    OBVIOUS
  <2>3. Suits(x, sc, n)
    BY <2>2, SuitExprs
  <2>4. Suits(x \o <<e>>, sc, n)
    BY <1>10, <1>13, <2>3, SuitWith
  <2> QED  BY <1>2, <1>8, <1>11, <2>1, <2>2, <2>4
<1>16. \A j \in 1 .. Len(u) : u[j] = Expr \/ u[j] = e \/ u[j] = e
  <2>1. Exprs(n) \in Seq(Tasks) /\ Len(Exprs(n)) = n /\ \A j \in 1 .. n : Exprs(n)[j] = Expr
    BY ExprTask DEF Exprs
  <2>2. PICK x : x = Exprs(n)
    OBVIOUS
  <2>3. \A j \in 1 .. Len(u) : (j \in 1 .. n /\ u[j] = x[j]) \/ u[j] = e
    BY <1>11, <2>1, <2>2
  <2> QED  BY <2>1, <2>2, <2>3
<1> QED  BY <1>12, <1>13, <1>14, <1>15, <1>16, Zenon DEF Planned

LEMMA CallGenerated ==
    ASSUME NEW st, NEW p, NEW ops, NEW vals, NEW fns, NEW em, NEW sts,
           From(st, p, ops, vals, fns, em, sts), GenerateCall, Generating'
    PROVE  Generated'
<1>1. PICK w : w = {"call"}
  OBVIOUS
<1>2. Generate(w)
  BY <1>1 DEF GenerateCall
<1>3. script[p + 1].op \notin {"let", "fun"}
  BY <1>1, <1>2, VisitFrom
<1>4. Planned(st, p)
  BY CallPlanned
<1> QED  BY <1>2, <1>3, <1>4, PlanGenerated DEF Planned

LEMMA LetGenerated ==
    ASSUME NEW st, NEW p, NEW ops, NEW vals, NEW fns, NEW em, NEW sts,
           From(st, p, ops, vals, fns, em, sts), GenerateLet
    PROVE  Generated'
<1>1. Generate({"let"})
  BY DEF GenerateLet
<1>2. PICK q : q = p + 1
  OBVIOUS
<1>3. /\ script \in Seq(Nodes) /\ st \in Stacks /\ HomeStack(st) /\ p \in Nat
      /\ ValuesAgree(p, vals, fns)
  BY FromParts
<1>4. /\ Visits(st, p) /\ GHere = q /\ q \in 1 .. Len(script)
      /\ script[q].op \in {"let"}
  BY <1>1, <1>2, VisitFrom
<1>5. PICK e : e = Work("bind", q)
  OBVIOUS
<1>6. e \in Tasks /\ e.do = "bind" /\ e.node = q
  <2>1. "bind" \in Doings /\ q \in Nat
    BY <1>2, <1>3 DEF Doings
  <2> QED  BY <1>5, <2>1, WorkTask
<1>7. PICK u : u = <<Expr, e>>
  OBVIOUS
<1>8. u \in Seq(Tasks) /\ Len(u) = 2 /\ u[1] = Expr /\ u[2] = e
      /\ \A j \in 1 .. Len(u) : u[j] = Expr \/ u[j] = e
  BY <1>6, <1>7, ExprTask, ListTwo
<1>9. Plans(u)
  BY <1>4, <1>5, <1>7 DEF GenerateLet, Continue, Plans
<1>10. Lifts(u, 1)
  BY <1>6, <1>7, LiftsBind
<1>11. StandsHome(Instead(st, u), p + 1)
  <2>1. script[p + 1].op = "let" /\ e.do \in {"in", "bind"} /\ e.node = p + 1
    BY <1>2, <1>4, <1>6
  <2>2. StandsHome(Instead(st, <<Expr, e>>), p + 1)
    BY <1>3, <1>4, <1>6, <2>1, VisitedLet
  <2> QED  BY <1>7, <2>2
<1>12. DefinesAt(u, p + 1, 2)
  <2>1. ~ Defines(Expr) /\ \A j \in 1 .. 2 : j = 1 \/ j = 2
    BY DEF Expr, Defines
  <2>2. \A j \in 1 .. Len(u) : Defines(u[j]) => j = 2 /\ u[j].node = q
    BY <1>6, <1>8, <2>1
  <2> QED  BY <1>2, <1>8, <2>2 DEF DefinesAt
<1>13. \A j \in 1 .. Len(u) : Ready(u[j], p + 1, vals, fns)
  <2>1. ASSUME NEW f \in Funs, NEW v \in locals[f], v.node = q PROVE ~ Bound(vals, f, v)
    <3>1. Bound(vals, f, v) => v.node \in 0 .. p
      BY <1>3 DEF ValuesAgree, ValueAgrees
    <3> QED  BY <1>2, <1>3, <2>1, <3>1
  <2>2. q \in 1 .. p + 1
    BY <1>2, <1>3
  <2>3. Ready(e, p + 1, vals, fns)
    BY <1>4, <1>6, <2>1, <2>2 DEF Ready
  <2> QED  BY <1>8, <2>3, ExprReady
<1>14. PICK w : w = {"let"}
  OBVIOUS
<1>15. Generate(w)
  BY <1>1, <1>14
<1> QED  BY <1>9, <1>10, <1>11, <1>12, <1>13, <1>15, ListGenerated

-----------------------------------------------------------------------------
(* Work that takes operands and leaves others.                             *)
Finishes(new, em2) ==
    /\ gstack' = GRest(<<>>) /\ operands' = new /\ emitted' = em2
    /\ UNCHANGED <<values, llvm, stores>>

(* The last so many operands are replaced by others of the frame.          *)
Replaces(ops, a, new, n, fr) ==
    /\ OperandsOK(new) /\ Len(new) = Len(ops) - a + n
    /\ \A k \in 1 .. Len(ops) - a : new[k] = ops[k]
    /\ \A k \in Len(ops) - a + 1 .. Len(new) : Local(new[k], fr)

LEMMA DoneGenerated ==
    ASSUME NEW st, NEW p, NEW ops, NEW vals, NEW fns, NEW em, NEW sts,
           From(st, p, ops, vals, fns, em, sts), NEW w, Finish(w),
           NEW e, e = st[Len(st)].todo[1], ~ Waits(e), NEW a \in Nat, Takes(e) = a,
           NEW new, Replaces(ops, a, new, Leaves(e), st[Len(st)]),
           NEW em2, Made(em2, sts, fns), Finishes(new, em2)
    PROVE  Generated'
<1>1. HandedOver /\ GeneratedSo(st, p, ops, vals, fns, em, sts) /\ st \in Stacks
  BY FromParts
<1>2. st[Len(st)].todo # <<>> /\ gpos' = p
  BY WorkFrom
<1>3. PICK st2 : st2 = Instead(st, <<>>)
  OBVIOUS
<1>4. GeneratedSo(st2, p, new, vals, fns, em2, sts)
  BY <1>1, <1>2, <1>3, SoDone DEF Replaces
<1>5. st2 = gstack'
  BY <1>1, <1>3, TopOfGenerated DEF From, Finishes
<1>6. p = gpos' /\ new = operands' /\ vals = values' /\ fns = llvm' /\ em2 = emitted'
      /\ sts = stores'
  BY <1>2 DEF From, Finishes
<1> QED  BY <1>4, <1>5, <1>6, StepTo

LEMMA TakenFrom ==
    ASSUME NEW st, NEW p, NEW ops, NEW vals, NEW fns, NEW em, NEW sts,
           From(st, p, ops, vals, fns, em, sts), NEW w, Finish(w),
           NEW e, e = st[Len(st)].todo[1], NEW a \in Nat, Takes(e) = a
    PROVE  /\ a <= Len(ops) /\ Len(ops) \in Nat
           /\ \A k \in Len(ops) - a + 1 .. Len(ops) :
                 /\ Local(ops[k], st[Len(st)]) /\ k \in 1 .. Len(ops)
                 /\ ops[k] \in Values /\ ops[k].type # "unbound"
                 /\ ops[k].fn \in {FunctionOn(st[Len(st)]), NoFun}
<1>1. /\ st \in Stacks /\ Holding(st, ops) /\ ops \in Seq(Values) /\ Len(ops) \in Nat
      /\ OperandsOK(ops) /\ st[Len(st)].todo # <<>>
  BY FromParts, WorkFrom
<1>2. Takes(st[Len(st)].todo[1]) = a /\ Takes(st[Len(st)].todo[1]) \in Nat
  OBVIOUS
<1>3. /\ a <= Len(ops)
      /\ \A k \in Len(ops) - a + 1 .. Len(ops) : Local(ops[k], st[Len(st)])
  BY <1>1, <1>2, TakenLocal
<1>4. ASSUME NEW k \in Len(ops) - a + 1 .. Len(ops)
      PROVE  /\ Local(ops[k], st[Len(st)]) /\ k \in 1 .. Len(ops)
             /\ ops[k] \in Values /\ ops[k].type # "unbound"
             /\ ops[k].fn \in {FunctionOn(st[Len(st)]), NoFun}
  <2>1. k \in 1 .. Len(ops)
    BY <1>1, <1>3
  <2> QED  BY <1>1, <1>3, <2>1 DEF OperandsOK, Local
<1> QED  BY <1>1, <1>3, <1>4

LEMMA InsertFun ==
    ASSUME NEW st, NEW p, NEW ops, NEW vals, NEW fns, NEW em, NEW sts,
           From(st, p, ops, vals, fns, em, sts)
    PROVE  FunctionOn(st[Len(st)]) \in Funs /\ FunctionOn(st[Len(st)]) \in Nat
<1>1. st \in Stacks /\ SettledStack(st, vals, fns)
  BY FromParts
<1>2. PICK sc : sc = ScopeOf(st, Len(st))
  OBVIOUS
<1>3. VariablesSettled(sc, vals, fns) /\ sc \in Scopes /\ Innermost(sc) = FunctionOn(st[Len(st)])
  BY <1>1, <1>2, SettledTop, TopType DEF Settled
<1>4. sc.chain[Len(sc.chain)] \in Funs
  <2>1. Len(sc.chain) \in 1 .. Len(sc.chain)
    BY <1>3, ScopeType
  <2> QED  BY <1>3, <2>1 DEF VariablesSettled
<1> QED  BY <1>1, <1>3, <1>4, TopType DEF Innermost

(* Work that leaves one value.                                             *)
LEMMA GivesGenerated ==
    ASSUME NEW st, NEW p, NEW ops, NEW vals, NEW fns, NEW em, NEW sts,
           From(st, p, ops, vals, fns, em, sts), NEW w, Finish(w),
           NEW e, e = st[Len(st)].todo[1], ~ Waits(e), NEW a \in Nat, Takes(e) = a,
           Leaves(e) = 1, NEW v \in Values, v.type # "unbound", Local(v, st[Len(st)]),
           NEW new, new = Append(SubSeq(ops, 1, Len(ops) - a), v),
           NEW em2, Made(em2, sts, fns), Finishes(new, em2)
    PROVE  Generated'
<1>1. ops \in Seq(Values) /\ Len(ops) \in Nat /\ OperandsOK(ops)
  BY FromParts
<1>2. a <= Len(ops)
  BY TakenFrom
<1>3. Gives(ops, a, v, new)
  BY <1>1, <1>2, Given
<1>4. PICK n \in Nat : n = Len(ops)
  BY <1>1
<1>5. /\ OperandsOK(new) /\ Len(new) = n - a + 1
      /\ \A k \in 1 .. n - a : new[k] = ops[k]
      /\ new[n - a + 1] = v
  BY <1>3, <1>4 DEF Gives
<1>6. \A k \in n - a + 1 .. Len(new) : Local(new[k], st[Len(st)])
  <2> TAKE k \in n - a + 1 .. Len(new)
  <2>1. k = n - a + 1
    BY <1>5
  <2> QED  BY <1>5, <2>1
<1>7. \A k \in Len(ops) - a + 1 .. Len(new) : Local(new[k], st[Len(st)])
  BY <1>4, <1>6
<1>8. \A k \in 1 .. Len(ops) - a : new[k] = ops[k]
  BY <1>4, <1>5
<1>9. OperandsOK(new) /\ Len(new) = Len(ops) - a + Leaves(e)
  BY <1>4, <1>5
<1>10. Replaces(ops, a, new, Leaves(e), st[Len(st)])
  BY <1>7, <1>8, <1>9 DEF Replaces
<1> QED  BY <1>10, DoneGenerated

LEMMA BuildGenerated ==
    ASSUME NEW st, NEW p, NEW ops, NEW vals, NEW fns, NEW em, NEW sts,
           From(st, p, ops, vals, fns, em, sts), BuildVector
    PROVE  Generated'
<1>1. Finish({"build"})
  BY DEF BuildVector
<1>2. PICK w : w = {"build"}
  OBVIOUS
<1>3. PICK e : e = st[Len(st)].todo[1]
  OBVIOUS
<1>4. /\ e.do \in {"build"} /\ GNode = e.node /\ insert = FunctionOn(st[Len(st)])
      /\ Ready(e, p, vals, fns)
  BY <1>1, <1>3, WorkFrom
<1>5. PICK a \in Nat : a = Arity(script[e.node])
  <2>1. e.node \in 1 .. Len(script) /\ script \in Seq(Nodes)
    <3>1. e.do # "expr"
      BY <1>4
    <3>2. e.node \in 1 .. p /\ p \in 0 .. Len(script) /\ script \in Seq(Nodes)
      BY <1>4, <3>1, FromParts DEF Ready
    <3> QED  BY <3>2
  <2>2. script[e.node] \in Nodes
    BY <2>1, NodeAt
  <2> QED  BY <2>2, NodeFields
<1>6. Takes(e) = a /\ Leaves(e) = 1 /\ ~ Waits(e)
  BY <1>4, <1>5 DEF Takes, Leaves, Waits
<1>7. PICK v : v = Value(insert, "vector")
  OBVIOUS
<1>8. v \in Values /\ v.type # "unbound" /\ Local(v, st[Len(st)])
  BY <1>4, <1>7, InsertFun DEF Value, Values, Types, Local
<1>9. PICK new : new = Append(SubSeq(ops, 1, Len(ops) - a), v)
  OBVIOUS
<1>10. Finishes(new, em)
  <2>1. operands' = Append(Drop(Arity(script[GNode])), Value(insert, "vector"))
        /\ gstack' = GRest(<<>>) /\ UNCHANGED <<values, llvm, emitted, stores>>
    BY DEF BuildVector, Continue
  <2>2. Drop(Arity(script[GNode])) = SubSeq(ops, 1, Len(ops) - a)
    BY <1>4, <1>5 DEF Drop, From
  <2> QED  BY <1>7, <1>9, <2>1, <2>2 DEF Finishes, From
<1>11. Made(em, sts, fns) /\ Finish(w)
  BY <1>1, <1>2, FromParts
<1> QED  BY <1>3, <1>6, <1>8, <1>9, <1>10, <1>11, GivesGenerated

LEMMA MergeGenerated ==
    ASSUME NEW st, NEW p, NEW ops, NEW vals, NEW fns, NEW em, NEW sts,
           From(st, p, ops, vals, fns, em, sts), MergeBranches, Generating'
    PROVE  Generated'
<1>1. Finish({"merge"})
  BY DEF MergeBranches
<1>2. PICK w : w = {"merge"}
  OBVIOUS
<1>3. PICK e : e = st[Len(st)].todo[1]
  OBVIOUS
<1>4. e.do \in {"merge"} /\ insert = FunctionOn(st[Len(st)])
  BY <1>1, <1>3, WorkFrom
<1>5. PICK a \in Nat : a = 3
  OBVIOUS
<1>6. Takes(e) = a /\ Leaves(e) = 1 /\ ~ Waits(e)
  BY <1>4, <1>5 DEF Takes, Leaves, Waits
<1>7. PICK n \in Nat : n = Len(ops)
  BY FromParts
<1>8. PICK o : o = ops[n - 1]
  OBVIOUS
<1>9. o \in Values /\ o.type # "unbound" /\ 3 <= n
  <2>1. /\ a <= Len(ops) /\ Len(ops) \in Nat
        /\ \A k \in Len(ops) - a + 1 .. Len(ops) :
              ops[k] \in Values /\ ops[k].type # "unbound"
    BY <1>1, <1>3, <1>6, TakenFrom
  <2>2. n - 1 \in Len(ops) - a + 1 .. Len(ops)
    BY <1>5, <1>7, <2>1
  <2> QED  BY <1>5, <1>7, <1>8, <2>1, <2>2
<1>10. Taken(2)[1] = o
  <2>1. ops \in Seq(Values) /\ ops = operands
    BY FromParts DEF From
  <2>2. SubSeq(ops, n - 1, n)[1] = ops[n - 1]
    BY <1>7, <1>9, <2>1
  <2>3. Taken(2) = SubSeq(ops, n - 1, n)
    BY <1>7, <2>1 DEF Taken
  <2> QED  BY <1>8, <2>2, <2>3
<1>11. PICK v : v = Value(insert, o.type)
  OBVIOUS
<1>12. v \in Values /\ v.type # "unbound" /\ Local(v, st[Len(st)])
  <2>1. o.type \in Types \cup {"null", "unbound"}
    BY <1>9 DEF Values
  <2> QED  BY <1>4, <1>9, <1>11, <2>1, InsertFun DEF Value, Values, Local
<1>13. PICK new : new = Append(SubSeq(ops, 1, Len(ops) - a), v)
  OBVIOUS
<1>14. Finishes(new, em)
  <2>1. operands' = Append(Drop(3), Value(insert, Taken(2)[1].type))
        /\ gstack' = GRest(<<>>) /\ UNCHANGED <<values, llvm, emitted, stores>>
    BY DEF MergeBranches, Continue, Stop, Generating
  <2>2. Drop(3) = SubSeq(ops, 1, Len(ops) - a)
    BY <1>5 DEF Drop, From
  <2> QED  BY <1>10, <1>11, <1>13, <2>1, <2>2 DEF Finishes, From
<1>15. Made(em, sts, fns) /\ Finish(w)
  BY <1>1, <1>2, FromParts
<1> QED  BY <1>3, <1>6, <1>12, <1>13, <1>14, <1>15, GivesGenerated

LEMMA ExpectGenerated ==
    ASSUME NEW st, NEW p, NEW ops, NEW vals, NEW fns, NEW em, NEW sts,
           From(st, p, ops, vals, fns, em, sts), ExpectType, Generating'
    PROVE  Generated'
<1>1. Finish({"real", "boolean"})
  BY DEF ExpectType
<1>2. PICK w : w = {"real", "boolean"}
  OBVIOUS
<1>3. PICK e : e = st[Len(st)].todo[1]
  OBVIOUS
<1>4. e.do \in {"real", "boolean"}
  BY <1>1, <1>3, WorkFrom
<1>5. PICK a \in Nat : a = 1
  OBVIOUS
<1>6. Takes(e) = a /\ Leaves(e) = 1 /\ ~ Waits(e)
  BY <1>4, <1>5 DEF Takes, Leaves, Waits
<1>7. /\ Len(ops) \in Nat
      /\ \A k \in Len(ops) - a + 1 .. Len(ops) : Local(ops[k], st[Len(st)])
  BY <1>1, <1>3, <1>6, TakenFrom
<1>8. Len(ops) = Len(ops) - a + Leaves(e)
  BY <1>5, <1>6, <1>7
<1>9. Finishes(ops, em)
  BY DEF ExpectType, Continue, Stop, Generating, Finishes, From
<1>10. Made(em, sts, fns) /\ OperandsOK(ops) /\ Finish(w)
  BY <1>1, <1>2, FromParts
<1>11. \A k \in 1 .. Len(ops) - a : ops[k] = ops[k]
  OBVIOUS
<1>12. Replaces(ops, a, ops, Leaves(e), st[Len(st)])
  BY <1>7, <1>8, <1>10, <1>11 DEF Replaces
<1> QED  BY <1>3, <1>6, <1>9, <1>10, <1>12, DoneGenerated

LEMMA ReturnedGenerated ==
    ASSUME NEW st, NEW p, NEW ops, NEW vals, NEW fns, NEW em, NEW sts,
           From(st, p, ops, vals, fns, em, sts), ReturnValue, Generating'
    PROVE  Generated'
<1>1. Finish({"ret"})
  BY DEF ReturnValue
<1>2. PICK w : w = {"ret"}
  OBVIOUS
<1>3. PICK e : e = st[Len(st)].todo[1]
  OBVIOUS
<1>4. e.do \in {"ret"}
  BY <1>1, <1>3, WorkFrom
<1>5. PICK a \in Nat : a = 1
  OBVIOUS
<1>6. Takes(e) = a /\ Leaves(e) = 0 /\ ~ Waits(e)
  BY <1>4, <1>5 DEF Takes, Leaves, Waits
<1>7. a <= Len(ops) /\ Len(ops) \in Nat
  BY <1>1, <1>3, <1>6, TakenFrom
<1>8. PICK new : new = SubSeq(ops, 1, Len(ops) - a)
  OBVIOUS
<1>9. Drops(ops, a, new)
  BY <1>7, <1>8, Dropped, FromParts
<1>10. PICK n \in Nat : n = Len(ops)
  BY <1>7
<1>11. /\ OperandsOK(new) /\ Len(new) = n - a + Leaves(e)
       /\ \A k \in 1 .. n - a : new[k] = ops[k]
  BY <1>6, <1>9, <1>10 DEF Drops
<1>12. \A k \in n - a + 1 .. Len(new) : Local(new[k], st[Len(st)])
  BY <1>6, <1>7, <1>10, <1>11
<1>13. Finishes(new, em)
  BY <1>5, <1>8 DEF ReturnValue, Continue, Stop, Generating, Finishes, From, Drop
<1>14. Made(em, sts, fns) /\ Finish(w)
  BY <1>1, <1>2, FromParts
<1>15. Replaces(ops, a, new, Leaves(e), st[Len(st)])
  BY <1>10, <1>11, <1>12 DEF Replaces
<1> QED  BY <1>3, <1>6, <1>13, <1>14, <1>15, DoneGenerated

-----------------------------------------------------------------------------
(* The steps that open a frame or close one.                               *)
LEMMA BindGenerated ==
    ASSUME NEW st, NEW p, NEW ops, NEW vals, NEW fns, NEW em, NEW sts,
           From(st, p, ops, vals, fns, em, sts), BindVariable, Generating'
    PROVE  Generated'
<1>1. Finish({"bind"})
  BY DEF BindVariable
<1>2. PICK w : w = {"bind"}
  OBVIOUS
<1>3. PICK e : e = st[Len(st)].todo[1]
  OBVIOUS
<1>4. /\ e.do = "bind" /\ GNode = e.node /\ st[Len(st)].todo # <<>> /\ gpos' = p
  BY <1>1, <1>3, WorkFrom
<1>5. HandedOver /\ GeneratedSo(st, p, ops, vals, fns, em, sts) /\ st \in Stacks
  BY FromParts
<1>6. /\ GTop = st[Len(st)] /\ GTable = st[Len(st)].table
      /\ GFunction = FunctionOn(st[Len(st)]) /\ GRest(<<>>) = Instead(st, <<>>)
  BY <1>5, TopOfGenerated DEF From
<1>7. PICK f : f = FunctionOn(st[Len(st)])
  OBVIOUS
<1>8. PICK s : s = Variable(f, e.node, script[e.node].name)
  OBVIOUS
<1>9. PICK t : t = ops[Len(ops)]
  OBVIOUS
<1>10. PICK vals2 : vals2 = [vals EXCEPT ![f][s] = t]
  OBVIOUS
<1>11. PICK r : r = OpenLet(st, e.node, <<Expr>>)
  OBVIOUS
<1>12. PICK new : new = SubSeq(ops, 1, Len(ops) - 1)
  OBVIOUS
<1>13. GeneratedSo(r, p, new, vals2, fns, em, sts)
  <2>1. Stored(f, s, t, vals, vals2)
    BY <1>10 DEF Stored
  <2>2. /\ HandedOver /\ GeneratedSo(st, p, ops, vals, fns, em, sts)
        /\ st[Len(st)].todo # <<>> /\ e.do = "bind"
    BY <1>4, <1>5
  <2>3. Shorter(ops, 1, new) /\ s = LetVariable(f, e.node)
    BY <1>8, <1>12 DEF Shorter, LetVariable
  <2> QED  BY ONLY <1>3, <1>7, <1>9, <1>11, <2>1, <2>2, <2>3, SoBind
<1>14. /\ values' = [values EXCEPT ![GFunction][Variable(GFunction, GNode, script[GNode].name)] = Top]
       /\ operands' = Drop(1)
       /\ gstack' = Append(GRest(<<>>),
              Frame(GTop.chain,
                    WithSymbol(GTable, Variable(GFunction, GNode, script[GNode].name)),
                    <<Expr>>))
       /\ UNCHANGED <<llvm, emitted, stores>>
  BY DEF BindVariable, Stop, Generating
<1>15. r = gstack'
  BY <1>4, <1>6, <1>7, <1>8, <1>11, <1>14 DEF OpenLet
<1>16. new = operands' /\ vals2 = values'
  BY <1>4, <1>6, <1>7, <1>8, <1>9, <1>10, <1>12, <1>14 DEF Drop, Top, From
<1>17. p = gpos' /\ fns = llvm' /\ em = emitted' /\ sts = stores'
  BY <1>4, <1>14 DEF From
<1> QED  BY <1>13, <1>15, <1>16, <1>17, StepTo

LEMMA FunctionGenerated ==
    ASSUME NEW st, NEW p, NEW ops, NEW vals, NEW fns, NEW em, NEW sts,
           From(st, p, ops, vals, fns, em, sts), GenerateFunction
    PROVE  Generated'
<1>1. Generate({"fun"})
  BY DEF GenerateFunction
<1>2. PICK q : q = p + 1
  OBVIOUS
<1>3. Visits(st, p) /\ GHere = q /\ script[p + 1].op \in {"fun"} /\ gpos' = q
  BY <1>1, <1>2, VisitFrom
<1>4. HandedOver /\ GeneratedSo(st, p, ops, vals, fns, em, sts) /\ st \in Stacks
  BY FromParts
<1>5. /\ GTop = st[Len(st)] /\ GTable = st[Len(st)].table
      /\ GFunction = FunctionOn(st[Len(st)]) /\ GRest(<<>>) = Instead(st, <<>>)
  BY <1>4, TopOfGenerated DEF From
<1>6. PICK r : r = OpenNamed(st, p + 1, <<Work("define", p + 1), Expr>>)
  OBVIOUS
<1>7. script[p + 1].op = "fun"
  BY <1>3
<1>8. GeneratedSo(r, p + 1, ops, vals, fns, em, sts)
  BY <1>3, <1>4, <1>6, <1>7, SoNamed
<1>9. r = gstack'
  BY <1>2, <1>3, <1>5, <1>6 DEF GenerateFunction, OpenNamed
<1>10. /\ q = gpos' /\ ops = operands' /\ vals = values' /\ fns = llvm'
       /\ em = emitted' /\ sts = stores'
  BY <1>3 DEF GenerateFunction, From
<1>11. GeneratedSo(r, q, ops, vals, fns, em, sts)
  BY <1>2, <1>8
<1> QED  BY <1>9, <1>10, <1>11, StepTo

LEMMA DefineGenerated ==
    ASSUME NEW st, NEW p, NEW ops, NEW vals, NEW fns, NEW em, NEW sts,
           From(st, p, ops, vals, fns, em, sts), DefineFunction
    PROVE  Generated'
<1>1. Finish({"define"})
  BY DEF DefineFunction
<1>2. PICK w : w = {"define"}
  OBVIOUS
<1>3. PICK e : e = st[Len(st)].todo[1]
  OBVIOUS
<1>4. /\ e.do = "define" /\ GNode = e.node /\ st[Len(st)].todo # <<>> /\ gpos' = p
      /\ insert = FunctionOn(st[Len(st)])
  BY <1>1, <1>3, WorkFrom
<1>5. HandedOver /\ GeneratedSo(st, p, ops, vals, fns, em, sts) /\ st \in Stacks
  BY FromParts
<1>6. /\ GTop = st[Len(st)] /\ GTable = st[Len(st)].table
      /\ GRest(<<>>) = Instead(st, <<>>)
  BY <1>5, TopOfGenerated DEF From
<1>7. PICK q : q = e.node
  OBVIOUS
<1>8. PICK i \in Nat : i = insert
  BY <1>4, InsertFun
<1>9. PICK vals2 : vals2 = [vals EXCEPT ![q] = Entry(q, vals)]
  OBVIOUS
<1>10. PICK fns2 : fns2 = [fns EXCEPT ![q] = Prototype(q, vals)]
  OBVIOUS
<1>11. PICK x : x = Ending(q, i)
  OBVIOUS
<1>12. PICK r : r = OpenBody(st, q, <<Expr, x>>)
  OBVIOUS
<1>13. GeneratedSo(r, p, ops, vals2, fns2, em, sts)
  <2>1. Creates(q, vals, fns, vals2, fns2)
    BY <1>9, <1>10 DEF Creates
  <2> QED  BY <1>3, <1>4, <1>5, <1>7, <1>8, <1>11, <1>12, <2>1, SoDefine
<1>14. r = gstack'
  BY <1>4, <1>6, <1>7, <1>8, <1>11, <1>12 DEF DefineFunction, OpenBody, Ending
<1>15. fns2 = llvm'
  BY <1>4, <1>7, <1>10 DEF DefineFunction, Prototype, RootTypes, From
<1>16. vals2 = values'
  BY <1>4, <1>7, <1>9 DEF DefineFunction, Entry, RootTypes, From
<1>17. p = gpos' /\ ops = operands' /\ em = emitted' /\ sts = stores'
  BY <1>4 DEF DefineFunction, From
<1> QED  BY <1>13, <1>14, <1>15, <1>16, <1>17, StepTo

LEMMA CloseGenerated ==
    ASSUME NEW st, NEW p, NEW ops, NEW vals, NEW fns, NEW em, NEW sts,
           From(st, p, ops, vals, fns, em, sts), CloseGeneratedFrame, Generating'
    PROVE  Generated'
<1>1. HandedOver /\ GeneratedSo(st, p, ops, vals, fns, em, sts) /\ st \in Stacks
  BY FromParts
<1>2. st[Len(st)].todo = <<>>
  BY <1>1, TopOfGenerated DEF CloseGeneratedFrame, From
<1>3. /\ Len(gstack) > 1 /\ gstack' = SubSeq(gstack, 1, Len(gstack) - 1)
      /\ UNCHANGED <<gpos, operands, values, llvm, emitted, stores>>
  BY DEF CloseGeneratedFrame, Stop, Generating
<1>4. PICK r : r = SubSeq(st, 1, Len(st) - 1)
  OBVIOUS
<1>5. Len(st) > 1 /\ r = gstack'
  BY <1>3, <1>4 DEF From
<1>6. GeneratedSo(r, p, ops, vals, fns, em, sts)
  BY <1>1, <1>2, <1>4, <1>5, SoPop
<1>7. /\ p = gpos' /\ ops = operands' /\ vals = values' /\ fns = llvm'
      /\ em = emitted' /\ sts = stores'
  BY <1>3 DEF From
<1> QED  BY <1>5, <1>6, <1>7, StepTo

-----------------------------------------------------------------------------
(* The calls that are emitted.                                             *)
LEMMA EmittedItem ==
    ASSUME NEW st, NEW p, NEW ops, NEW vals, NEW fns, NEW em, NEW sts,
           From(st, p, ops, vals, fns, em, sts), Finish({"emit"}),
           NEW q, q = GNode
    PROVE  /\ st[Len(st)].todo # <<>> /\ st[Len(st)].todo[1].do = "emit"
           /\ st[Len(st)].todo[1].node = q
           /\ q \in 1 .. Len(script) /\ q \in 1 .. p /\ Reached(q) /\ script[q].op = "call"
           /\ script[q] \in Nodes /\ script[q].argc \in Nat /\ script[q].name \in Names
           /\ Len(Formals(refs[q])) = script[q].argc
           /\ ScopeOf(st, Len(st)) = ScopeAt(q)
           /\ insert = FunctionOn(st[Len(st)])
<1>1. PICK e : e = st[Len(st)].todo[1]
  OBVIOUS
<1>2. /\ st[Len(st)].todo # <<>> /\ e.do \in {"emit"} /\ q = e.node
      /\ Ready(e, p, vals, fns) /\ AtHome(ScopeOf(st, Len(st)), e)
      /\ insert = FunctionOn(st[Len(st)])
  BY <1>1, WorkFrom
<1>3. /\ q \in 1 .. p /\ script[q].op = "call"
      /\ Len(Formals(refs[q])) = script[q].argc
  BY <1>2 DEF Ready
<1>4. script \in Seq(Nodes) /\ p \in 0 .. Len(script) /\ Len(script) \in Nat
  BY FromParts
<1>5. q \in 1 .. Len(script) /\ script[q] \in Nodes
  BY <1>3, <1>4, NodeAt
<1>6. Reached(q) /\ ScopeOf(st, Len(st)) = ScopeAt(q)
  BY <1>2 DEF AtHome
<1>7. script[q].argc \in Nat /\ script[q].name \in Names
  BY <1>3, <1>5, NodeFields
<1> QED  BY <1>1, <1>2, <1>3, <1>5, <1>6, <1>7

(* The arguments are as many as the parameters, and of this function.      *)
LEMMA ArgumentsTaken ==
    ASSUME NEW st, NEW p, NEW ops, NEW vals, NEW fns, NEW em, NEW sts,
           From(st, p, ops, vals, fns, em, sts), Finish({"emit"}),
           NEW a, a = script[GNode].argc, NEW args, args = Taken(a)
    PROVE  /\ a \in Nat /\ a <= Len(ops) /\ args \in Seq(Values) /\ Len(args) = a
           /\ \A i \in 1 .. a : args[i].fn \in {insert, NoFun} /\ args[i].type # "unbound"
           /\ Takes(st[Len(st)].todo[1]) = a
<1>1. PICK q : q = GNode
  OBVIOUS
<1>2. PICK e : e = st[Len(st)].todo[1]
  OBVIOUS
<1>3. /\ e.do = "emit" /\ e.node = q /\ script[q].argc \in Nat
      /\ insert = FunctionOn(st[Len(st)])
  BY <1>1, <1>2, EmittedItem
<1>4. Takes(e) = a /\ a \in Nat
  BY <1>1, <1>3 DEF Takes
<1>5. PICK w : w = {"emit"}
  OBVIOUS
<1>6. /\ a <= Len(ops) /\ Len(ops) \in Nat
      /\ \A k \in Len(ops) - a + 1 .. Len(ops) :
            ops[k] \in Values /\ ops[k].fn \in {FunctionOn(st[Len(st)]), NoFun}
  BY <1>2, <1>4, <1>5, TakenFrom
<1>7. PICK n \in Nat : n = Len(ops)
  BY <1>6
<1>8. ops \in Seq(Values) /\ \A k \in 1 .. Len(ops) : ops[k].type # "unbound"
  BY FromParts DEF OperandsOK
<1>9. args = SubSeq(ops, n - a + 1, n)
  BY <1>7 DEF Taken, From
<1>10. Len(args) = a /\ args \in Seq(Values) /\ \A i \in 1 .. a : args[i] = ops[n - a + i]
  <2>1. PICK m \in Int : m = n - a + 1
    BY <1>4
  <2>2. \A i \in m .. n : ops[i] \in Values
    BY <1>6, <1>7, <2>1
  <2>3. /\ args \in Seq(Values) /\ Len(args) = IF m <= n THEN n - m + 1 ELSE 0
        /\ \A i \in 1 .. n - m + 1 : args[i] = ops[m + i - 1]
    <3>1. n \in Nat /\ \A i \in m .. n : ops[i] \in Values
      BY <2>2
    <3>2. args = SubSeq(ops, m, n)
      BY ONLY <1>9, <2>1
    <3> QED  BY ONLY <3>1, <3>2, <2>1, SubSeqProperties
  <2>4. n - m + 1 = a /\ \A i \in 1 .. a : m + i - 1 = n - a + i
    BY <1>4, <2>1
  <2>5. Len(args) = a
    <3>1. a <= n /\ a \in Nat /\ n \in Nat
      BY <1>4, <1>6, <1>7
    <3>2. PICK l : l = Len(args)
      OBVIOUS
    <3>3. l = IF m <= n THEN n - m + 1 ELSE 0
      BY <2>3, <3>2
    <3>4. l = a
      BY ONLY <2>1, <3>1, <3>3
    <3> QED  BY <3>2, <3>4
  <2> QED  BY <2>3, <2>4, <2>5
<1>11. \A i \in 1 .. a : n - a + i \in n - a + 1 .. n
  BY <1>4
<1>12. ASSUME NEW i \in 1 .. a PROVE args[i].type # "unbound"
  <2>1. n - a + i \in 1 .. n
    BY <1>4, <1>6, <1>7
  <2> QED  BY <1>7, <1>8, <1>10, <2>1
<1> QED  BY <1>2, <1>3, <1>4, <1>6, <1>7, <1>10, <1>11, <1>12

LEMMA EmitGenerated ==
    ASSUME NEW st, NEW p, NEW ops, NEW vals, NEW fns, NEW em, NEW sts,
           From(st, p, ops, vals, fns, em, sts), Finish({"emit"}),
           NEW args, args = Taken(script[GNode].argc), NEW extra,
           NEW ret \in Types \cup {"null"},
           NEW c, c = [node |-> GNode, caller |-> insert, args |-> args, extra |-> extra],
           CallAgrees(c, fns), NEW s, Emit(s, args, extra, ret)
    PROVE  Generated'
<1>1. PICK w : w = {"emit"}
  OBVIOUS
<1>2. PICK e : e = st[Len(st)].todo[1]
  OBVIOUS
<1>3. PICK a : a = script[GNode].argc
  OBVIOUS
<1>4. a \in Nat /\ a <= Len(ops) /\ Len(args) = a /\ Takes(e) = a
  BY <1>2, <1>3, ArgumentsTaken
<1>5. e.do = "emit" /\ insert = FunctionOn(st[Len(st)])
  BY <1>2, EmittedItem
<1>6. Leaves(e) = 1 /\ ~ Waits(e) /\ Finish(w)
  BY <1>1, <1>5 DEF Leaves, Waits
<1>7. PICK v : v = Value(insert, ret)
  OBVIOUS
<1>8. v \in Values /\ v.type # "unbound" /\ Local(v, st[Len(st)])
  BY <1>5, <1>7, InsertFun DEF Value, Values, Types, Local
<1>9. PICK new : new = Append(SubSeq(ops, 1, Len(ops) - a), v)
  OBVIOUS
<1>10. PICK em2 : em2 = em \cup {c}
  OBVIOUS
<1>11. Made(em2, sts, fns)
  <2>1. Made(em, sts, fns)
    BY FromParts
  <2> QED  BY <1>10, <2>1 DEF Made
<1>12. Finishes(new, em2)
  <2>1. Drop(Len(args)) = SubSeq(ops, 1, Len(ops) - a)
    BY <1>4 DEF Drop, From
  <2> QED  BY <1>7, <1>9, <1>10, <2>1 DEF Emit, Continue, Finishes, From
<1> QED  BY <1>2, <1>4, <1>6, <1>8, <1>9, <1>11, <1>12, GivesGenerated

(* What a call refers to can be seen where the call is.                    *)
LEMMA CalleeFrom ==
    ASSUME NEW st, NEW p, NEW ops, NEW vals, NEW fns, NEW em, NEW sts,
           From(st, p, ops, vals, fns, em, sts), Finish({"emit"}),
           NEW q, q = GNode, NEW sc, sc = ScopeAt(q)
    PROVE  /\ VariablesSettled(sc, vals, fns)
           /\ Innermost(sc) = FunctionOn(st[Len(st)])
           /\ refs[q].kind = "callable" => refs[q].name \in GlobalCalls
           /\ refs[q].kind = "fun" =>
                 /\ refs[q].node \in Funs /\ fns[refs[q].node] # NotCreated
                 /\ refs[q].node \in 1 .. Len(script)
                 /\ ScopeAt(refs[q].node).seen \subseteq sc.seen
<1>1. HandedOver /\ SettledStack(st, vals, fns) /\ st \in Stacks
  BY FromParts
<1>2. /\ q \in 1 .. Len(script) /\ Reached(q) /\ script[q].op = "call"
      /\ script[q].name \in Names /\ sc = ScopeOf(st, Len(st))
      /\ st[Len(st)].todo[1].do # "define"
  BY EmittedItem
<1>3. Settled(sc, st, vals, fns) /\ Innermost(sc) = FunctionOn(st[Len(st)])
  BY <1>1, <1>2, SettledTop, TopType
<1>4. refs[q] = sc.table[script[q].name]
  <2>1. Records(sc, script[q], q, locals, refs[q], <<>>)
    BY <1>1, <1>2, ReachedRecords
  <2> QED  BY <1>2, <2>1 DEF Records
<1>5. NameScoped(sc, refs[q], q - 1)
  BY <1>1, <1>2, <1>4, ChainFacts
<1>6. ASSUME refs[q].kind = "fun"
      PROVE  /\ refs[q].node \in Funs /\ fns[refs[q].node] # NotCreated
             /\ refs[q].node \in 1 .. Len(script)
             /\ ScopeAt(refs[q].node).seen \subseteq sc.seen
  <2>1. /\ refs[q].node \in 1 .. q - 1
        /\ ScopeAt(refs[q].node).seen \subseteq sc.seen
    BY <1>5, <1>6 DEF NameScoped
  <2>2. refs[q].node \in 1 .. Len(script) /\ refs[q].node # 0
    BY <1>2, <2>1
  <2>3. /\ Created(fns, refs[q].node) \/ AboutToDefine(st, refs[q].node)
        /\ refs[q].node \in Funs
    BY <1>2, <1>3, <1>4, <1>6 DEF Settled, FunctionsSettled
  <2>4. ~ AboutToDefine(st, refs[q].node)
    BY <1>2, NotAboutTo
  <2> QED  BY <2>1, <2>2, <2>3, <2>4 DEF Created, Funs
<1> QED  BY <1>3, <1>5, <1>6 DEF Settled, NameScoped

(* The value of an intrinsic has a type, whether its arguments are checked *)
(* or not.                                                                 *)
LEMMA IntrinsicEmits ==
    ASSUME NEW st, NEW p, NEW ops, NEW vals, NEW fns, NEW em, NEW sts,
           From(st, p, ops, vals, fns, em, sts), EmitIntrinsicCall, Generating',
           NEW args, args = Taken(script[GNode].argc), NEW extra, extra = <<>>
    PROVE  \E ret \in Types \cup {"null"} : Emit(refs[GNode], args, extra, ret)
<1>1. Finish({"emit"}) /\ refs[GNode].kind = "callable"
  BY DEF EmitIntrinsicCall
<1>2. PICK q : q = GNode
  OBVIOUS
<1>3. PICK sig : sig = Signature[refs[q].name]
  OBVIOUS
<1>4. /\ sig.ret \in Types /\ sig.params \in Seq(Types)
      /\ sig.wrong = "emitted" => sig.params # <<>>
  <2>1. refs[q].name \in GlobalCalls
    BY <1>1, <1>2, CalleeFrom
  <2> QED  BY <1>3, <2>1, SignatureAssumption, UncheckedAssumption
<1>5. IF sig.wrong = "emitted"
      THEN /\ Null \notin {args[i] : i \in DOMAIN args}
           /\ Emit(refs[q], args, extra, args[1].type)
      ELSE Emit(refs[q], args, extra, sig.ret)
  <2>1. PICK types : types = Formals(refs[q])
    OBVIOUS
  <2>2. ~ Stop("refused") /\ ~ Stop("failed") /\ ~ Stop("crashed")
        /\ ~ Stop("type mismatch")
    BY DEF Stop, Generating
  <2>3. ASSUME NEW error \in {"type mismatch", "failed"},
               CheckArguments(args, types, error, Emit(refs[q], args, extra, sig.ret))
        PROVE  Emit(refs[q], args, extra, sig.ret)
    BY <2>2, <2>3 DEF CheckArguments
  <2>4. ASSUME EmitUnchecked(refs[q], args)
        PROVE  /\ Null \notin {args[i] : i \in DOMAIN args}
               /\ Emit(refs[q], args, extra, args[1].type)
    BY <2>2, <2>4 DEF EmitUnchecked
  <2>5. \/ sig.wrong = "emitted" /\ EmitUnchecked(refs[q], args)
        \/ \E error \in {"type mismatch", "failed"} :
              /\ sig.wrong = error
              /\ CheckArguments(args, types, error, Emit(refs[q], args, extra, sig.ret))
    BY <1>2, <1>3, <2>1, <2>2 DEF EmitIntrinsicCall
  <2> QED  BY <2>3, <2>4, <2>5
<1>6. ASSUME sig.wrong = "emitted" PROVE args[1].type \in Types \cup {"null"}
  <2>1. PICK a : a = script[GNode].argc
    OBVIOUS
  <2>2. /\ a \in Nat /\ args \in Seq(Values) /\ Len(args) = a
        /\ \A i \in 1 .. a : args[i].fn \in {insert, NoFun} /\ args[i].type # "unbound"
    BY <1>1, <2>1, ArgumentsTaken
  <2>3. Len(sig.params) = a
    BY <1>1, <1>2, <1>3, <2>1, EmittedItem DEF Formals
  <2>4. 1 \in 1 .. a
    BY <1>4, <1>6, <2>2, <2>3
  <2>5. args[1] \in Values /\ args[1].type # "unbound"
    BY <2>2, <2>4
  <2> QED  BY <2>5 DEF Values
<1> QED  BY <1>2, <1>4, <1>5, <1>6

LEMMA EmitIntrinsicGenerated ==
    ASSUME NEW st, NEW p, NEW ops, NEW vals, NEW fns, NEW em, NEW sts,
           From(st, p, ops, vals, fns, em, sts), EmitIntrinsicCall, Generating'
    PROVE  Generated'
<1>1. Finish({"emit"}) /\ refs[GNode].kind = "callable"
  BY DEF EmitIntrinsicCall
<1>2. PICK q : q = GNode
  OBVIOUS
<1>3. PICK args : args = Taken(script[GNode].argc)
  OBVIOUS
<1>5. PICK extra : extra = <<>>
  OBVIOUS
<1>6. PICK ret \in Types \cup {"null"} : Emit(refs[q], args, extra, ret)
  BY <1>2, <1>3, <1>5, IntrinsicEmits
<1>8. PICK c : c = [node |-> GNode, caller |-> insert, args |-> args, extra |-> extra]
  OBVIOUS
<1>9. CallAgrees(c, fns)
  <2>1. PICK a : a = script[GNode].argc
    OBVIOUS
  <2>2. /\ args \in Seq(Values) /\ Len(args) = a
        /\ \A i \in 1 .. a : args[i].fn \in {insert, NoFun}
    BY <1>1, <1>3, <2>1, ArgumentsTaken
  <2>3. DOMAIN args = 1 .. a /\ DOMAIN extra = {}
    BY <1>5, <2>2
  <2>4. refs[c.node].kind # "fun"
    BY <1>1, <1>8
  <2> QED  BY <1>8, <2>2, <2>3, <2>4 DEF CallAgrees
<1> QED  BY <1>1, <1>3, <1>6, <1>8, <1>9, EmitGenerated

(* The caller's copies are those that the callee's type was made from.     *)
LEMMA ExtraAgrees ==
    ASSUME NEW st, NEW p, NEW ops, NEW vals, NEW fns, NEW em, NEW sts,
           From(st, p, ops, vals, fns, em, sts), Finish({"emit"}),
           NEW q, q = GNode, refs[q].kind = "fun", NEW f, f = refs[q].node,
           NEW g, g = FunctionOn(st[Len(st)]), Upvalues(f) \subseteq locals[g],
           NEW v \in Upvalues(f)
    PROVE  /\ vals[g][v].fn \in {g, NoFun} /\ vals[g][v].type # "unbound"
           /\ vals[g][v].type = vals[v.fn][v].type
<1>1. PICK sc : sc = ScopeAt(q)
  OBVIOUS
<1>2. /\ HandedOver /\ ValuesAgree(p, vals, fns) /\ q \in 1 .. Len(script) /\ Reached(q)
  BY FromParts, EmittedItem
<1>3. /\ VariablesSettled(sc, vals, fns) /\ g = Innermost(sc)
      /\ f \in Funs /\ ScopeAt(f).seen \subseteq sc.seen
  BY <1>1, CalleeFrom
<1>4. v \in sc.seen /\ v \in locals[g]
  <2>1. v \in locals[f] /\ v.fn # f
    BY DEF Upvalues
  <2>2. v \in ScopeAt(f).seen
    BY <1>2, <1>3, <2>1, LocalRoot
  <2> QED  BY <1>3, <2>2
<1> QED  BY <1>1, <1>2, <1>3, <1>4, CopyRead

LEMMA ArgumentTypes ==
    ASSUME NEW args, NEW a \in Nat, DOMAIN args = 1 .. a,
           NEW ps \in Seq(Params), Len(ParamTypes(ps)) = a,
           \A i \in DOMAIN ParamTypes(ps) : args[i].type = ParamTypes(ps)[i]
    PROVE  [i \in DOMAIN args |-> args[i].type] = ParamTypes(ps)
<1>1. DOMAIN ps = 1 .. Len(ps) /\ Len(ps) \in Nat
  OBVIOUS
<1>2. ParamTypes(ps) \in Seq(Types) /\ DOMAIN ParamTypes(ps) = 1 .. Len(ps)
  <2>1. PICK m \in Nat : m = Len(ps)
    BY <1>1
  <2>2. ASSUME NEW i \in 1 .. m PROVE ps[i].type \in Types
    <3>1. ps[i] \in Params
      BY <1>1, <2>1, ElementOfSeq
    <3> QED  BY <3>1 DEF Params
  <2>3. ParamTypes(ps) = [i \in 1 .. m |-> ps[i].type]
    BY <1>1, <2>1 DEF ParamTypes
  <2>4. ParamTypes(ps) \in [1 .. m -> Types]
    BY <2>2, <2>3
  <2> QED  BY <2>1, <2>4
<1>3. Len(ParamTypes(ps)) = Len(ps)
  BY <1>2
<1>4. DOMAIN ParamTypes(ps) = 1 .. a
  BY <1>2, <1>3
<1>5. ParamTypes(ps) = [i \in 1 .. a |-> ParamTypes(ps)[i]]
  BY <1>4 DEF ParamTypes
<1> QED  BY <1>4, <1>5

LEMMA EmitFunctionGenerated ==
    ASSUME NEW st, NEW p, NEW ops, NEW vals, NEW fns, NEW em, NEW sts,
           From(st, p, ops, vals, fns, em, sts), EmitFunctionCall, Generating'
    PROVE  Generated'
<1>1. Finish({"emit"}) /\ refs[GNode].kind = "fun"
  BY DEF EmitFunctionCall
<1>2. PICK q : q = GNode
  OBVIOUS
<1>3. PICK f : f = refs[q].node
  OBVIOUS
<1>4. PICK args : args = Taken(script[GNode].argc)
  OBVIOUS
<1>5. PICK g : g = FunctionOn(st[Len(st)])
  OBVIOUS
<1>6. GFunction = g /\ insert = g /\ vals = values
  BY <1>1, <1>5, FromParts, TopOfGenerated, EmittedItem DEF From
<1>7. PICK extra : extra = [v \in Upvalues(f) |-> vals[g][v]]
  OBVIOUS
<1>8. PICK ret : ret = script[f].ret
  OBVIOUS
<1>9. Upvalues(f) \subseteq locals[g]
  BY <1>2, <1>3, <1>6 DEF EmitFunctionCall, Stop, Generating
<1>10. CheckArguments(args, Formals(refs[q]), "type mismatch",
                       Emit(refs[q], args, extra, ret))
  BY <1>2, <1>3, <1>4, <1>6, <1>7, <1>8, <1>9 DEF EmitFunctionCall
<1>11. /\ Emit(refs[q], args, extra, ret)
       /\ \A i \in DOMAIN Formals(refs[q]) : args[i].type = Formals(refs[q])[i]
  BY <1>10 DEF CheckArguments, Stop, Generating
<1>12. f \in Funs /\ fns[f] # NotCreated /\ f \in 1 .. Len(script)
  BY <1>1, <1>2, <1>3, CalleeFrom
<1>13. FunctionAgrees(f, p, vals, fns)
  BY <1>12, FromParts DEF FunctionsAgree
<1>14. script[f] \in Nodes /\ script[f].op = "fun"
  BY <1>12, <1>13, FromParts, NodeAt DEF FunctionAgrees
<1>15. ret \in Types /\ script[f].params \in Seq(Params)
  <2>1. script[f].ret \in Types
    BY <1>14 DEF Nodes
  <2> QED  BY <1>8, <1>14, <2>1, NodeFields
<1>16. PICK c : c = [node |-> GNode, caller |-> insert, args |-> args, extra |-> extra]
  OBVIOUS
<1>17. PICK a : a = script[GNode].argc
  OBVIOUS
<1>18. /\ args \in Seq(Values) /\ Len(args) = a /\ a \in Nat
       /\ \A i \in 1 .. a : args[i].fn \in {insert, NoFun}
  BY <1>1, <1>4, <1>17, ArgumentsTaken
<1>19. DOMAIN args = 1 .. a
  BY <1>18
<1>20. [i \in DOMAIN args |-> args[i].type] = fns[f].params
  <2>1. Formals(refs[q]) = ParamTypes(script[f].params)
    BY <1>1, <1>2, <1>3 DEF Formals
  <2>2. Len(ParamTypes(script[f].params)) = a
    BY <1>1, <1>2, <1>17, <2>1, EmittedItem
  <2>3. PICK ps : ps = script[f].params
    OBVIOUS
  <2>4. \A i \in DOMAIN ParamTypes(ps) : args[i].type = ParamTypes(ps)[i]
    BY <1>11, <2>1, <2>3
  <2>5. [i \in DOMAIN args |-> args[i].type] = ParamTypes(ps)
    <3>1. /\ a \in Nat /\ DOMAIN args = 1 .. a /\ ps \in Seq(Params)
          /\ Len(ParamTypes(ps)) = a
          /\ \A i \in DOMAIN ParamTypes(ps) : args[i].type = ParamTypes(ps)[i]
      BY <1>15, <1>18, <1>19, <2>2, <2>3, <2>4
    <3> QED  BY ONLY <3>1, ArgumentTypes
  <2> QED  BY <1>13, <2>3, <2>5 DEF FunctionAgrees
<1>21. \A v \in Upvalues(f) :
          /\ vals[g][v].fn \in {g, NoFun} /\ vals[g][v].type # "unbound"
          /\ vals[g][v].type = vals[v.fn][v].type
  BY <1>1, <1>2, <1>3, <1>5, <1>9, ExtraAgrees
<1>22. [v \in DOMAIN extra |-> extra[v].type] = fns[f].extra
  <2>1. fns[f].extra = [v \in Upvalues(f) |-> vals[v.fn][v].type]
    BY <1>13 DEF FunctionAgrees
  <2>2. DOMAIN extra = Upvalues(f)
    BY <1>7
  <2> QED  BY <1>7, <1>21, <2>1, <2>2
<1>23. CallAgrees(c, fns)
  <2>1. c.node = q /\ c.caller = g /\ c.args = args /\ c.extra = extra
    BY <1>2, <1>6, <1>16
  <2>2. \A i \in DOMAIN c.args : c.args[i].fn \in {c.caller, NoFun}
    BY <1>6, <1>18, <1>19, <2>1
  <2>3. \A v \in DOMAIN c.extra : c.extra[v].fn \in {c.caller, NoFun}
                                  /\ c.extra[v].type # "unbound"
    BY <1>7, <1>21, <2>1
  <2> QED  BY <1>3, <1>12, <1>20, <1>22, <2>1, <2>2, <2>3 DEF CallAgrees
<1> QED  BY <1>1, <1>4, <1>11, <1>15, <1>16, <1>23, EmitGenerated

-----------------------------------------------------------------------------
(* The second pass begins where the first one has ended.                   *)
LEMMA PassEnded ==
    ASSUME Inductive, InStep, status = "resolved"
    PROVE  HandedOver
<1>1. /\ script \in Seq(Nodes) /\ pos \in 0 .. Len(script)
      /\ locals \in [Funs -> SUBSET Symbols]
      /\ refs \in [DOMAIN script -> Symbols \cup {NoRef}]
  BY DEF Inductive, TypeOK
<1>2. climb = <<>> /\ Recorded /\ Len(stack) = 1 /\ Todo = <<>>
      /\ Standing(stack, Walk[pos])
  BY DEF InStep
<1>3. PICK w : w = Walk[pos]
  OBVIOUS
<1>4. w \in Seq(Scopes)
  BY <1>1, <1>3, WalkType
<1>5. stack[1].todo = <<>>
  BY <1>2 DEF Todo, TopFrame
<1>6. PICK b \in [0 .. Len(stack) -> Nat] :
         /\ b[0] = 0 /\ b[Len(stack)] = Len(w)
         /\ \A i \in 1 .. Len(stack) :
               Threads(Positions(w, ScopeOf(stack, i)), stack[i].todo, b[i], b[i - 1])
  BY <1>2, <1>3 DEF Standing
<1>7. PICK sc : sc = ScopeOf(stack, 1)
  OBVIOUS
<1>8. b[0] = 0 /\ b[1] = Len(w) /\ Threads(Positions(w, sc), <<>>, b[1], b[0])
  <2>1. 1 \in 1 .. Len(stack) /\ 1 - 1 = 0
    BY <1>2
  <2>2. Threads(Positions(w, ScopeOf(stack, 1)), stack[1].todo, b[1], b[1 - 1])
    BY <1>6, <2>1
  <2> QED  BY <1>2, <1>5, <1>6, <1>7, <2>1, <2>2
<1>9. b[1] = b[0]
  <2>1. PICK g \in [1 .. Len(<<>>) + 1 -> Nat] : g[1] = b[1] /\ g[Len(<<>>) + 1] = b[0]
    BY <1>8 DEF Threads
  <2>2. Len(<<>>) + 1 = 1
    BY NothingSeq
  <2> QED  BY <2>1, <2>2
<1>10. w = <<>>
  BY <1>4, <1>8, <1>9
<1> QED  BY <1>1, <1>2, <1>3, <1>10 DEF HandedOver

(* The values that compile() has bound.                                    *)
Inherited ==
    [f \in Funs |-> [v \in locals[f] |->
        IF f = 0 /\ v \in Arguments(0, Inputs)
        THEN Value(0, TypeOfParam(Inputs, v.name)) ELSE Unbound]]

LEMMA InheritedValues ==
    ASSUME HandedOver, NEW vals, vals = Inherited, NEW fns, fns = [f \in Funs |-> NotCreated]
    PROVE  /\ \A v \in Arguments(0, Inputs) : v \in locals[0] => Bound(vals, 0, v)
           /\ ValuesAgree(0, vals, fns) /\ FunctionsAgree(0, vals, fns)
<1>1. \A f \in Funs : \A v \in locals[f] :
         vals[f][v] = IF f = 0 /\ v \in Arguments(0, Inputs)
                      THEN Value(0, TypeOfParam(Inputs, v.name)) ELSE Unbound
  BY DEF Inherited
<1>2. /\ vals = [f \in Funs |-> vals[f]]
      /\ \A f \in Funs : vals[f] = [v \in locals[f] |-> vals[f][v]]
  BY DEF Inherited
<1>3. 0 \in Funs
  BY HandedParts DEF Funs
<1>4. ASSUME NEW v \in Arguments(0, Inputs)
      PROVE  /\ v.fn = 0 /\ v.node = 0
             /\ Value(0, TypeOfParam(Inputs, v.name)) \in Values
             /\ Value(0, TypeOfParam(Inputs, v.name)).fn = 0
             /\ Value(0, TypeOfParam(Inputs, v.name)).type # "unbound"
  <2>1. v.fn = 0 /\ v.node = 0 /\ v.name \in ParamNames(Inputs)
    BY DEF Arguments, Variable
  <2>2. PICK x : x = v.name
    OBVIOUS
  <2>3. PICK t : t = TypeOfParam(Inputs, x)
    OBVIOUS
  <2>4. t \in Types
    BY <2>1, <2>2, <2>3, InputsAssumption, TypeOfParamType
  <2>5. Value(0, t) \in Values /\ Value(0, t).fn = 0 /\ Value(0, t).type # "unbound"
    BY <1>3, <2>4 DEF Value, Values, Types
  <2> QED  BY <2>1, <2>2, <2>3, <2>5
<1>5. Unbound \in Values /\ Unbound.type = "unbound" /\ Unbound.fn = NoFun
  BY DEF Unbound, Constant, Value, Values
<1>6. ASSUME NEW f \in Funs, NEW v \in locals[f]
      PROVE  vals[f][v] \in Values /\ ValueAgrees(f, v, 0, vals, fns)
  <2>1. CASE f = 0 /\ v \in Arguments(0, Inputs)
    <3>1. vals[f][v] = Value(0, TypeOfParam(Inputs, v.name))
      BY <1>1, <2>1
    <3>2. vals[f][v] \in Values /\ vals[f][v].fn = 0 /\ v.fn = 0 /\ v.node = 0
      BY <1>4, <2>1, <3>1
    <3>3. Created(fns, f) /\ 0 \in 0 .. 0
      BY <2>1 DEF Created
    <3> QED  BY <2>1, <3>2, <3>3 DEF ValueAgrees
  <2>2. CASE ~ (f = 0 /\ v \in Arguments(0, Inputs))
    <3>1. vals[f][v] = Unbound
      BY <1>1, <2>2
    <3> QED  BY <1>5, <3>1 DEF ValueAgrees, Bound
  <2> QED  BY <2>1, <2>2
<1>7. ValuesAgree(0, vals, fns)
  <2>1. ASSUME NEW f \in Funs PROVE vals[f] \in [locals[f] -> Values]
    <3>1. \A v \in locals[f] : vals[f][v] \in Values
      BY <1>6
    <3> QED  BY <1>2, <3>1
  <2> QED  BY <1>2, <1>6, <2>1 DEF ValuesAgree
<1>8. FunctionsAgree(0, vals, fns)
  BY DEF FunctionsAgree
<1>9. \A v \in Arguments(0, Inputs) : v \in locals[0] => Bound(vals, 0, v)
  BY <1>1, <1>3, <1>4 DEF Bound
<1> QED  BY <1>7, <1>8, <1>9

LEMMA ToplevelHolding ==
    ASSUME NEW st \in Stacks, Len(st) = 1, st[1].todo = <<Expr>>,
           NEW ops, ops = NoneMade
    PROVE  Holding(st, ops)
<1>1. Len(ops) = 0
  BY NothingMade
<1>2. PICK z \in Nat : z = 0
  OBVIOUS
<1>3. Threads(Effects(z), <<Expr>>, z, z + 1)
  <2>1. z <= z
    OBVIOUS
  <2> QED  BY <2>1, LiftsOne DEF Lifts
<1>4. Threads(Effects(0), <<Expr>>, 0, 1)
  BY <1>2, <1>3
<1> DEFINE e == [i \in 1 .. 1 |-> 0]  h == [i \in 1 .. 1 |-> 1]
<1>5. e \in [1 .. 1 -> Nat] /\ h \in [1 .. 1 -> Nat] /\ e[1] = 0 /\ h[1] = 1
  OBVIOUS
<1> HIDE DEF e, h
<1>6. \A i \in 1 .. 1 : i = 1
  OBVIOUS
<1>7. \A i \in 2 .. 1 : FALSE
  OBVIOUS
<1>8. Under(st, ops, e, h)
  BY <1>5, <1>6, <1>7 DEF Under
<1>9. \A k \in 1 .. 0 : FALSE
  OBVIOUS
<1> QED  BY <1>1, <1>4, <1>5, <1>8, <1>9 DEF Holding

LEMMA SoBegin ==
    ASSUME HandedOver, NEW st, st = FirstStack,
           NEW ops, ops = NoneMade, NEW vals, vals = Inherited,
           NEW fns, fns = [f \in Funs |-> NotCreated],
           NEW em, em = {}, NEW sts, sts = NoneMade
    PROVE  GeneratedSo(st, 0, ops, vals, fns, em, sts)
<1>1. script \in Seq(Nodes) /\ Len(script) \in Nat /\ 0 \in Funs
  BY HandedParts DEF Funs
<1>2. /\ st \in Stacks /\ Len(st) = 1 /\ st[1].chain = <<0>> /\ st[1].todo = <<Expr>>
      /\ ScopeOf(st, 1) = Toplevel /\ StandsHome(st, 0)
  BY <1>1, AtToplevel DEF ToplevelChain
<1>3. \A i \in 1 .. 1 : i = 1
  OBVIOUS
<1>4. Holding(st, ops)
  BY <1>2, ToplevelHolding
<1>5. OperandsOK(ops)
  <2>1. ops \in Seq(Values) /\ Len(ops) = 0
    BY DEF NoneMade
  <2> QED  BY <2>1 DEF OperandsOK
<1>6. \A j \in 1 .. Len(st[1].todo) : st[1].todo[j] = Expr
  <2>1. Len(<<Expr>>) = 1 /\ <<Expr>>[1] = Expr
    BY SingletonSeq
  <2> QED  BY <1>2, <1>3, <2>1
<1>7. Once(st)
  <2>1. ~ Defines(Expr)
    BY DEF Defines, Expr
  <2> QED  BY <1>2, <1>3, <1>6, <2>1 DEF Once
<1>8. ReadyStack(st, 0, vals, fns)
  <2>1. ASSUME NEW sc, NEW e, InWork(st, sc, e) PROVE e = Expr
    BY <1>2, <1>3, <1>6, <2>1 DEF InWork
  <2> QED  BY <2>1, ExprReady DEF ReadyStack
<1>9. ValuesAgree(0, vals, fns) /\ FunctionsAgree(0, vals, fns)
  BY InheritedValues
<1>10. SettledStack(st, vals, fns)
  <2>1. Toplevel.chain = <<0>> /\ Toplevel.table = ToplevelTable
        /\ Toplevel.seen = Arguments(0, Inputs)
    BY DEF Toplevel, Scope
  <2>2. Len(<<0>>) = 1 /\ <<0>>[1] = 0
    OBVIOUS
  <2>3. \A v \in Arguments(0, Inputs) : v \in locals[0] => Bound(vals, 0, v)
    BY InheritedValues
  <2>4. VariablesSettled(Toplevel, vals, fns)
    <3>1. Created(fns, 0)
      BY DEF Created
    <3> QED  BY <1>1, <1>3, <2>1, <2>2, <2>3, <3>1 DEF VariablesSettled
  <2>5. \A x \in Names : ToplevelTable[x].kind # "fun"
    BY DEF ToplevelTable, WithArguments, Variable, Global
  <2>6. FunctionsSettled(Toplevel, st, fns)
    BY <2>1, <2>5 DEF FunctionsSettled
  <2> QED  BY <1>2, <1>3, <2>4, <2>6 DEF SettledStack, Settled
<1>11. Made(em, sts, fns)
  <2>1. DOMAIN sts = {}
    BY DEF NoneMade
  <2> QED  BY <2>1 DEF Made
<1>12. 0 \in 0 .. Len(script)
  BY <1>1
<1> QED  BY <1>2, <1>4, <1>5, <1>7, <1>8, <1>9, <1>10, <1>11, <1>12 DEF GeneratedSo

LEMMA BeginGenerated ==
    ASSUME Inductive, InStep, CodegenInit, Kept, pos' = pos, climb' = climb, BeginCodegen
    PROVE  Generated'
<1>1. HandedOver
  BY PassEnded DEF BeginCodegen
<1>2. PICK st : st = <<Frame(<<0>>, ToplevelTable, <<Expr>>)>>
  OBVIOUS
<1>3. PICK vals : vals = Inherited
  OBVIOUS
<1>4. PICK fns : fns = [f \in Funs |-> NotCreated]
  OBVIOUS
<1>5. PICK ops : ops = NoneMade
  OBVIOUS
<1>6. PICK em : em = {}
  OBVIOUS
<1>7. PICK p : p = 0
  OBVIOUS
<1>8. PICK sts : sts = NoneMade
  OBVIOUS
<1>9. GeneratedSo(st, p, ops, vals, fns, em, sts)
  BY <1>1, <1>2, <1>3, <1>4, <1>5, <1>6, <1>7, <1>8, SoBegin
     DEF FirstStack, ToplevelChain
<1>10. /\ st = gstack' /\ p = gpos' /\ ops = operands' /\ fns = llvm' /\ em = emitted'
       /\ sts = stores'
  BY <1>2, <1>4, <1>5, <1>6, <1>7, <1>8 DEF BeginCodegen, CodegenInit, NoneMade
<1>11. vals = values'
  BY <1>3 DEF BeginCodegen, Inherited
<1> QED  BY <1>1, <1>9, <1>10, <1>11, GeneratedFrom

-----------------------------------------------------------------------------
(* What a state that is generated so means for the properties.             *)
LEMMA ParamTypesType ==
    ASSUME NEW ps \in Seq(Params)
    PROVE  ParamTypes(ps) \in Seq(Types)
<1>1. PICK m \in Nat : m = Len(ps)
  OBVIOUS
<1>2. ASSUME NEW i \in 1 .. m PROVE ps[i].type \in Types
  <2>1. ps[i] \in Params
    BY <1>1, ElementOfSeq
  <2> QED  BY <2>1 DEF Params
<1>3. DOMAIN ps = 1 .. m
  BY <1>1
<1>4. ParamTypes(ps) \in [1 .. m -> Types]
  BY <1>2, <1>3 DEF ParamTypes
<1> QED  BY <1>4

LEMMA FramesSound ==
    ASSUME HandedOver, NEW st, NEW p, NEW ops, NEW vals, NEW fns, NEW em, NEW sts,
           GeneratedSo(st, p, ops, vals, fns, em, sts), NEW i \in 1 .. Len(st)
    PROVE  /\ st[i].chain \in Seq(Funs) /\ st[i].table \in Tables
           /\ FunctionOn(st[i]) \in Funs
           /\ \A j \in DOMAIN st[i].todo : st[i].todo[j].node \in Funs
<1>1. /\ st \in Stacks /\ Len(script) \in Nat /\ p \in 0 .. Len(script)
      /\ SettledStack(st, vals, fns) /\ ReadyStack(st, p, vals, fns)
  BY SoParts DEF GeneratedSo
<1>2. /\ st[i].chain \in Seq(Nat) /\ st[i].chain # <<>> /\ st[i].table \in Tables
      /\ st[i].todo \in Seq(Tasks)
  BY <1>1, StackType
<1>3. PICK c : c = st[i].chain
  OBVIOUS
<1>4. \A n \in 1 .. Len(c) : c[n] \in Funs
  <2>1. VariablesSettled(ScopeOf(st, i), vals, fns)
    BY <1>1 DEF SettledStack, Settled
  <2>2. ScopeOf(st, i).chain = c
    BY <1>3, ScopeFields DEF ScopeOf
  <2> QED  BY <2>1, <2>2 DEF VariablesSettled
<1>5. c \in Seq(Funs) /\ Len(c) \in 1 .. Len(c)
  BY <1>2, <1>3, <1>4
<1>6. FunctionOn(st[i]) \in Funs
  BY <1>3, <1>4, <1>5 DEF FunctionOn
<1>7. ASSUME NEW j \in DOMAIN st[i].todo PROVE st[i].todo[j].node \in Funs
  <2>1. PICK e : e = st[i].todo[j]
    OBVIOUS
  <2>2. j \in 1 .. Len(st[i].todo)
    BY <1>2
  <2>3. InWork(st, ScopeOf(st, i), e)
    BY <2>1, <2>2 DEF InWork
  <2>4. Ready(e, p, vals, fns)
    BY <1>1, <2>3 DEF ReadyStack
  <2>5. e = Expr \/ e.node \in 1 .. p
    BY <2>4 DEF Ready
  <2>6. Expr.node = 0
    BY DEF Expr
  <2> QED  BY <1>1, <2>1, <2>5, <2>6 DEF Funs
<1> QED  BY <1>2, <1>3, <1>5, <1>6, <1>7

LEMMA TypesSound ==
    ASSUME Generating, Generated, Inserting
    PROVE  CodegenTypeOK
<1>1. HandedOver /\ GeneratedSo(gstack, gpos, operands, values, llvm, emitted, stores)
  BY DEF Generated
<1>2. /\ script \in Seq(Nodes) /\ gpos \in 0 .. Len(script) /\ operands \in Seq(Values)
      /\ gstack \in Stacks
  BY <1>1, SoParts
<1>3. ValuesAgree(gpos, values, llvm) /\ FunctionsAgree(gpos, values, llvm)
  BY <1>1 DEF GeneratedSo
<1>4. /\ \A i \in 1 .. Len(gstack) :
            /\ gstack[i].chain \in Seq(Funs) /\ gstack[i].table \in Tables
            /\ FunctionOn(gstack[i]) \in Funs
            /\ \A j \in DOMAIN gstack[i].todo : gstack[i].todo[j].node \in Funs
      /\ Len(gstack) \in Nat /\ Len(gstack) >= 1 /\ DOMAIN gstack = 1 .. Len(gstack)
  BY <1>1, <1>2, FramesSound, StackType
<1>5. insert \in Funs
  <2>1. PICK n \in Nat : n = Len(gstack) /\ n >= 1
    BY <1>4
  <2>2. insert = IF gstack[n].todo # <<>> \/ n = 1 THEN FunctionOn(gstack[n])
                 ELSE FunctionOn(gstack[n - 1])
    BY <2>1 DEF Inserting, InsertionOK
  <2>3. n \in 1 .. n /\ (n # 1 => n - 1 \in 1 .. n)
    BY <2>1
  <2> QED  BY <1>4, <2>1, <2>2, <2>3
<1>6. \A f \in DOMAIN values : values[f] \in [locals[f] -> Values]
  BY <1>3 DEF ValuesAgree
<1>7. ASSUME NEW f \in DOMAIN llvm, llvm[f] # NotCreated
      PROVE  llvm[f].params \in Seq(Types) /\ DOMAIN llvm[f].extra = Upvalues(f)
  <2>1. f \in Funs
    BY <1>3, <1>7 DEF FunctionsAgree
  <2>2. FunctionAgrees(f, gpos, values, llvm)
    BY <1>3, <1>7, <2>1 DEF FunctionsAgree
  <2>3. f \in 1 .. Len(script) /\ script[f].op = "fun"
    <3>1. Len(script) \in Nat
      BY <1>2
    <3> QED  BY <1>2, <2>2, <3>1 DEF FunctionAgrees
  <2>4. script[f].params \in Seq(Params)
    BY <1>2, <2>3, NodeAt, NodeFields
  <2>5. PICK ps : ps = script[f].params
    OBVIOUS
  <2>6. llvm[f].params = ParamTypes(ps)
    BY <2>2, <2>5 DEF FunctionAgrees
  <2>7. ParamTypes(ps) \in Seq(Types)
    BY <2>4, <2>5, ParamTypesType
  <2> QED  BY <2>2, <2>6, <2>7 DEF FunctionAgrees
<1> QED  BY <1>2, <1>4, <1>5, <1>6, <1>7 DEF CodegenTypeOK, Generating

LEMMA SoundGenerated ==
    Generating /\ Generated /\ Inserting => Sound
<1> SUFFICES ASSUME Generating, Generated, Inserting PROVE Sound
  OBVIOUS
<1>1. HandedOver /\ GeneratedSo(gstack, gpos, operands, values, llvm, emitted, stores)
  BY DEF Generated
<1>2. /\ ValuesAgree(gpos, values, llvm) /\ FunctionsAgree(gpos, values, llvm)
      /\ Made(emitted, stores, llvm) /\ OperandsOK(operands)
  BY <1>1 DEF GeneratedSo
<1>3. OperandsLocal
  <2>1. \A c \in emitted :
           /\ \A i \in DOMAIN c.args : c.args[i].fn \in {c.caller, NoFun}
           /\ \A v \in DOMAIN c.extra : c.extra[v].fn \in {c.caller, NoFun}
    BY <1>2 DEF Made, CallAgrees
  <2>2. ASSUME NEW f \in DOMAIN values, NEW v \in DOMAIN values[f]
        PROVE  values[f][v].fn \in {f, NoFun}
    <3>1. f \in Funs
      BY <1>2 DEF ValuesAgree
    <3>2. v \in locals[f]
      BY <1>2, <3>1 DEF ValuesAgree
    <3> QED  BY <1>2, <3>1, <3>2 DEF ValuesAgree, ValueAgrees
  <2> QED  BY <2>1, <2>2 DEF OperandsLocal
<1>4. CallsMatchSignatures
  BY <1>2 DEF CallsMatchSignatures, Made, CallAgrees
<1>5. NothingUnbound
  <2>1. Unbound.type = "unbound"
    BY DEF Unbound, Constant, Value
  <2>2. Unbound \notin {operands[i] : i \in DOMAIN operands}
    BY <1>2, <2>1 DEF OperandsOK
  <2>3. \A c \in emitted : Unbound \notin {c.extra[v] : v \in DOMAIN c.extra}
    BY <1>2, <2>1 DEF Made, CallAgrees
  <2>4. ASSUME NEW f \in DOMAIN llvm, llvm[f] # NotCreated, NEW v \in DOMAIN llvm[f].extra
        PROVE  llvm[f].extra[v] # "unbound"
    <3>1. f \in Funs
      BY <1>2, <2>4 DEF FunctionsAgree
    <3>2. FunctionAgrees(f, gpos, values, llvm)
      BY <1>2, <2>4, <3>1 DEF FunctionsAgree
    <3>3. llvm[f].extra = [u \in Upvalues(f) |-> values[u.fn][u].type]
      BY <3>2 DEF FunctionAgrees
    <3>4. v \in Upvalues(f)
      BY <2>4, <3>3
    <3> QED  BY <3>2, <3>3, <3>4 DEF FunctionAgrees, Bound
  <2>5. "unbound" \notin {stores[i] : i \in DOMAIN stores}
    BY <1>2 DEF Made
  <2> QED  BY <2>2, <2>3, <2>4, <2>5 DEF NothingUnbound
<1>6. CodegenTypeOK
  BY TypesSound
<1> QED  BY <1>3, <1>4, <1>5, <1>6 DEF Sound

(* Before the second pass there is nothing.                                *)
LEMMA SoundBefore ==
    CodegenInit /\ TypeOK => Sound
<1> SUFFICES ASSUME CodegenInit, TypeOK PROVE Sound
  OBVIOUS
<1>1. Len(script) \in Nat /\ 0 \in Funs /\ 0 \in 0 .. Len(script)
  BY LenProperties DEF TypeOK, Funs
<1>2. /\ gpos = 0 /\ gstack = <<>> /\ operands = <<>> /\ values = <<>> /\ llvm = <<>>
      /\ insert = 0 /\ emitted = {} /\ stores = <<>>
  BY DEF CodegenInit
<1>3. DOMAIN <<>> = {} /\ <<>> \in Seq(Values)
  OBVIOUS
<1>4. status \in {"resolving", "resolved", "generating"} \cup Outcomes
  BY DEF TypeOK, Outcomes, Exceptions
<1>5. CodegenTypeOK
  BY <1>1, <1>2, <1>3, <1>4 DEF CodegenTypeOK
<1>6. OperandsLocal /\ CallsMatchSignatures
  BY <1>2, <1>3 DEF OperandsLocal, CallsMatchSignatures
<1>7. NothingUnbound
  BY <1>2, <1>3 DEF NothingUnbound
<1> QED  BY <1>5, <1>6, <1>7 DEF Sound

(* A compilation that stops leaves everything as it was.                   *)
Left == UNCHANGED <<gstack, operands, values, llvm, insert, emitted, stores>>

LEMMA SoundLeft ==
    ASSUME Sound, Kept, Left, gpos' \in 0 .. Len(script),
           status' \in {"resolving", "resolved", "generating"} \cup Outcomes
    PROVE  Sound'
<1>1. /\ script' = script /\ locals' = locals /\ refs' = refs
      /\ gstack' = gstack /\ operands' = operands /\ values' = values /\ llvm' = llvm
      /\ insert' = insert /\ emitted' = emitted /\ stores' = stores
  BY DEF Kept, Left
<1>2. /\ Funs' = Funs /\ Values' = Values /\ \A f : Upvalues(f)' = Upvalues(f)
  BY <1>1 DEF Funs, Values, Upvalues
<1>3. CodegenTypeOK'
  BY <1>1, <1>2 DEF Sound, CodegenTypeOK
<1>4. OperandsLocal'
  BY <1>1 DEF Sound, OperandsLocal
<1>5. CallsMatchSignatures'
  BY <1>1 DEF Sound, CallsMatchSignatures
<1>6. NothingUnbound'
  BY <1>1 DEF Sound, NothingUnbound
<1> QED  BY <1>3, <1>4, <1>5, <1>6 DEF Sound

Advances(p) == p = gpos + 1 /\ gpos < Len(script)

LEMMA StopLeaves ==
    ASSUME Generating, Codegen, status' # "generating"
    PROVE  /\ Left /\ status' \in Outcomes
           /\ gpos' = gpos \/ Advances(gpos')
<1>1. Generating => status # "resolved"
  BY DEF Generating
<1>2. status' # status
  BY DEF Generating
<1>3. ASSUME NEW w, Generate(w) PROVE gpos' = gpos \/ Advances(gpos')
  BY <1>3 DEF Generate, GHere, Advances
<1>4. ASSUME NEW why, Stop(why), why \in Outcomes PROVE Left /\ status' \in Outcomes
  BY <1>4 DEF Stop, Left
<1> USE DEF Outcomes, Exceptions
<1>5. CASE \/ GenerateConstant \/ GenerateVariable \/ GenerateOperands \/ BuildVector
           \/ GenerateLet \/ GenerateFunction \/ DefineFunction
  BY <1>2, <1>5 DEF GenerateConstant, GenerateVariable, GenerateOperands, BuildVector,
     GenerateLet, GenerateFunction, DefineFunction, Continue
<1>6. CASE ExpectType
  BY <1>2, <1>6 DEF ExpectType, Finish, Continue, Stop, Left
<1>7. CASE MergeBranches
  BY <1>2, <1>7 DEF MergeBranches, Finish, Continue, Stop, Left
<1>8. CASE BindVariable
  BY <1>2, <1>8 DEF BindVariable, Finish, Stop, Left
<1>9. CASE ReturnValue
  BY <1>2, <1>9 DEF ReturnValue, Finish, Continue, Stop, Left
<1>10. CASE GenerateCall
  BY <1>2, <1>3, <1>10 DEF GenerateCall, Continue, Stop, Left
<1>11. ASSUME NEW s, NEW args, NEW types, NEW extra, NEW ret, NEW error \in Outcomes,
              CheckArguments(args, types, error, Emit(s, args, extra, ret))
       PROVE  Left /\ status' \in Outcomes
  BY <1>2, <1>11 DEF CheckArguments, Emit, Continue, Stop, Left
<1>12. CASE EmitFunctionCall
  BY <1>2, <1>11, <1>12 DEF EmitFunctionCall, Finish, Stop, Left
<1>13. CASE EmitIntrinsicCall
  <2>1. PICK s : s = refs[GNode]
    OBVIOUS
  <2>2. PICK args : args = Taken(script[GNode].argc)
    OBVIOUS
  <2>3. /\ Finish({"emit"})
        /\ \/ \E ret : Emit(s, args, <<>>, ret)
           \/ \E why \in {"crashed", "refused", "failed", "type mismatch"} : Stop(why)
    BY <1>13, <2>1, <2>2, IntrinsicSplit
  <2>4. gpos' = gpos
    BY <2>3 DEF Finish
  <2>5. \E why \in {"crashed", "refused", "failed", "type mismatch"} : Stop(why)
    BY <1>2, <2>3 DEF Emit, Continue
  <2> QED  BY <1>4, <2>4, <2>5
<1>14. CASE GenerateReturn
  BY <1>2, <1>3, <1>14 DEF GenerateReturn, Continue, Stop, Left
<1>15. CASE CloseGeneratedFrame
  BY <1>2, <1>15 DEF CloseGeneratedFrame, Stop, Left
<1> QED  BY <1>1, <1>5, <1>6, <1>7, <1>8, <1>9, <1>10, <1>12, <1>13, <1>14, <1>15
         DEF Codegen, BeginCodegen

LEMMA GeneratingStep ==
    ASSUME Generating, Generated, Inserting, Kept, pos' = pos, climb' = climb,
           Codegen, Generating'
    PROVE  Generated'
<1>1. PICK st : st = gstack
  OBVIOUS
<1>2. PICK p : p = gpos
  OBVIOUS
<1>3. PICK ops : ops = operands
  OBVIOUS
<1>4. PICK vals : vals = values
  OBVIOUS
<1>5. PICK fns : fns = llvm
  OBVIOUS
<1>6. PICK em : em = emitted
  OBVIOUS
<1>7. PICK sts : sts = stores
  OBVIOUS
<1>8. From(st, p, ops, vals, fns, em, sts)
  BY <1>1, <1>2, <1>3, <1>4, <1>5, <1>6, <1>7 DEF From, Generated
<1>9. ~ BeginCodegen
  BY DEF BeginCodegen, Generating
<1> QED  BY <1>8, <1>9, ConstantGenerated, VariableGenerated, OperandsGenerated,
         ExpectGenerated, BuildGenerated, MergeGenerated, LetGenerated, BindGenerated,
         FunctionGenerated, DefineGenerated, ReturnedGenerated, CallGenerated,
         EmitFunctionGenerated, EmitIntrinsicGenerated, ReturnGenerated, CloseGenerated
         DEF Codegen

LEMMA FirstPassStep ==
    ASSUME BothPasses, Inserting, Next, UNCHANGED gvars
    PROVE  BothPasses'
<1>1. status = "resolving" /\ status' # "generating"
  BY ResolvingPreserves
<1>2. Inductive /\ InStep /\ CodegenInit
  BY <1>1 DEF BothPasses
<1>3. Inductive' /\ (Passing => InStep)'
  BY <1>2, NextInductive, NextInStep
<1>4. CodegenInit'
  BY <1>2 DEF CodegenInit, gvars
<1>5. (CodegenInit /\ TypeOK => Sound)'
  BY SoundBefore, PTL
<1>6. Sound'
  BY <1>3, <1>4, <1>5 DEF Inductive
<1> QED  BY <1>1, <1>3, <1>4, <1>6 DEF BothPasses, Passing, Generating

LEMMA SecondPassStep ==
    ASSUME BothPasses, Inserting, Inserting', Codegen,
           UNCHANGED <<script, pos, stack, parent, locals, refs, climb>>
    PROVE  BothPasses'
<1>1. Kept /\ pos' = pos /\ climb' = climb
  BY DEF Kept
<1>2. (Generating /\ Generated /\ Inserting => Sound)'
  BY SoundGenerated, PTL
<1>3. CASE BeginCodegen
  <2>1. status' = "generating" /\ status = "resolved"
    BY <1>3 DEF BeginCodegen
  <2>2. Generated'
    BY <1>1, <1>3, <2>1, BeginGenerated DEF BothPasses
  <2> QED  BY <1>2, <2>1, <2>2 DEF BothPasses, Generating
<1>4. CASE ~ BeginCodegen
  <2>1. Generating
    BY <1>4 DEF Codegen, GenerateConstant, GenerateVariable, GenerateOperands,
       ExpectType, BuildVector, MergeBranches, GenerateLet, BindVariable,
       GenerateFunction, DefineFunction, ReturnValue, GenerateCall, EmitFunctionCall,
       EmitIntrinsicCall, GenerateReturn, CloseGeneratedFrame, Generate, Finish
  <2>2. Generated /\ Sound
    BY <2>1 DEF BothPasses
  <2>3. CASE Generating'
    <3>1. Generated'
      BY <1>1, <2>1, <2>2, <2>3, GeneratingStep
    <3>2. status' = "generating"
      BY <2>3 DEF Generating
    <3> QED  BY <1>2, <2>3, <3>1, <3>2 DEF BothPasses
  <2>4. CASE ~ Generating'
    <3>1. status' # "generating"
      BY <2>4 DEF Generating
    <3>2. Left /\ status' \in Outcomes /\ (gpos' = gpos \/ Advances(gpos'))
      BY <2>1, <3>1, StopLeaves
    <3>3. gpos \in 0 .. Len(script) /\ Len(script) \in Nat
      BY <2>2, SoParts DEF Generated
    <3>4. gpos' \in 0 .. Len(script)
      BY <3>2, <3>3 DEF Advances
    <3>5. Sound'
      BY <1>1, <2>2, <3>2, <3>4, SoundLeft
    <3>6. status' \notin {"resolving", "resolved"}
      BY <3>2 DEF Outcomes, Exceptions, Failures
    <3> QED  BY <2>4, <3>5, <3>6, Zenon DEF BothPasses
  <2> QED  BY <2>3, <2>4
<1> QED  BY <1>3, <1>4

LEMMA NothingStep ==
    ASSUME BothPasses, UNCHANGED vars
    PROVE  BothPasses'
<1>1. /\ Kept /\ Left /\ pos' = pos /\ climb' = climb /\ status' = status /\ gpos' = gpos
      /\ UNCHANGED rvars /\ UNCHANGED gvars
  BY DEF vars, rvars, gvars, Kept, Left
<1>2. Sound'
  <2>1. /\ gpos \in 0 .. Len(script)
        /\ status \in {"resolving", "resolved", "generating"} \cup Outcomes
    BY DEF BothPasses, Sound, CodegenTypeOK
  <2> QED  BY <1>1, <2>1, SoundLeft DEF BothPasses
<1>3. ASSUME status \in {"resolving", "resolved"} PROVE (Inductive /\ InStep /\ CodegenInit)'
  <2>1. Inductive /\ InStep /\ CodegenInit
    BY <1>3 DEF BothPasses
  <2>2. Inductive' /\ InStep'
    BY <1>1, <1>3, <2>1, NextInductive, NextInStep DEF Passing
  <2>3. CodegenInit'
    BY <1>1, <2>1 DEF CodegenInit, gvars
  <2> QED  BY <2>2, <2>3
<1>4. ASSUME Generating PROVE Generated'
  <2>1. HandedOver /\ GeneratedSo(gstack, gpos, operands, values, llvm, emitted, stores)
    BY <1>4 DEF BothPasses, Generated
  <2>2. PICK st : st = gstack
    OBVIOUS
  <2>3. PICK p : p = gpos
    OBVIOUS
  <2>4. PICK ops : ops = operands
    OBVIOUS
  <2>5. PICK vals : vals = values
    OBVIOUS
  <2>6. PICK fns : fns = llvm
    OBVIOUS
  <2>7. PICK em : em = emitted
    OBVIOUS
  <2>8. PICK sts : sts = stores
    OBVIOUS
  <2>9. GeneratedSo(st, p, ops, vals, fns, em, sts)
    BY <2>1, <2>2, <2>3, <2>4, <2>5, <2>6, <2>7, <2>8
  <2>10. /\ st = gstack' /\ p = gpos' /\ ops = operands' /\ vals = values' /\ fns = llvm'
         /\ em = emitted' /\ sts = stores'
    BY <1>1, <2>2, <2>3, <2>4, <2>5, <2>6, <2>7, <2>8 DEF Left
  <2> QED  BY <1>1, <2>1, <2>9, <2>10, GeneratedFrom
<1> QED  BY <1>1, <1>2, <1>3, <1>4 DEF BothPasses, Generating

LEMMA CompileKeeps ==
    BothPasses /\ Inserting /\ Inserting' /\ [Compile]_vars => BothPasses'
<1> SUFFICES ASSUME BothPasses, Inserting, Inserting', [Compile]_vars PROVE BothPasses'
  OBVIOUS
<1> QED  BY FirstPassStep, SecondPassStep, NothingStep DEF Compile

LEMMA CompileBegins == CompileInit => BothPasses
<1> SUFFICES ASSUME CompileInit PROVE BothPasses
  OBVIOUS
<1>1. Inductive /\ InStep /\ CodegenInit
  BY InitInductive, InitInStep DEF CompileInit
<1>2. Sound
  BY <1>1, SoundBefore DEF Inductive
<1>3. status = "resolving"
  BY DEF CompileInit, Init
<1> QED  BY <1>1, <1>2, <1>3 DEF BothPasses, Generating

(* The two passes walk through the same scopes: what the first pass left   *)
(* behind is enough for the second, whatever the program (ASTNode::        *)
(* resolveVariables and ASTNode::codegen, called one after the other by    *)
(* Compiler::compile).                                                     *)
THEOREM PassesAgree == CompileSpec => []BothPasses
<1>1. CompileInit => BothPasses
  BY CompileBegins
<1>2. BothPasses /\ Inserting /\ Inserting' /\ [Compile]_vars => BothPasses'
  BY CompileKeeps
<1> QED  BY <1>1, <1>2, FramesInsert, PTL DEF CompileSpec

(* Every variable of the second pass has a value of its type: in           *)
(* particular its symbols are bound in the functions that hold them.       *)
THEOREM CodegenTypes == CompileSpec => []CodegenTypeOK
<1>1. BothPasses => CodegenTypeOK
  BY DEF BothPasses, Sound
<1> QED  BY <1>1, PassesAgree, PTL

(* No call has an operand of another function than the one it is in, and   *)
(* no symbol is bound to such a value (ASTVariable::codegen,               *)
(* ASTFunctionCall::codegen, CallableSymbol::emitCall).                    *)
THEOREM OperandsAreLocal == CompileSpec => []OperandsLocal
<1>1. BothPasses => OperandsLocal
  BY DEF BothPasses, Sound
<1> QED  BY <1>1, PassesAgree, PTL

(* Calls agree with the types of the LLVM functions they call              *)
(* (ASTFunctionBody::codegen against FunctionSymbol::emitCall).            *)
THEOREM CallsMatch == CompileSpec => []CallsMatchSignatures
<1>1. BothPasses => CallsMatchSignatures
  BY DEF BothPasses, Sound
<1> QED  BY <1>1, PassesAgree, PTL

(* No VariableSymbol::value is read before it has been set                 *)
(* (VariableSymbol::value has no initialiser).                             *)
THEOREM ValuesAreBound == CompileSpec => []NothingUnbound
<1>1. BothPasses => NothingUnbound
  BY DEF BothPasses, Sound
<1> QED  BY <1>1, PassesAgree, PTL

-----------------------------------------------------------------------------
(* The first pass has made what calls need, but for calls of functions     *)
(* that are still being defined: only those make the second pass abort.    *)
CallsReady ==
    /\ script \in Programs
    /\ Passing => Settling
    /\ Generating => CallsSupplied
    /\ AbortsOnlyOutward

LEMMA CallsFixed ==
    ASSUME script' = script, locals' = locals, refs' = refs
    PROVE  /\ CallsSupplied' <=> CallsSupplied
           /\ \A q : CallsOutward(script, q)' <=> CallsOutward(script, q)
<1>1. \A f : Upvalues(f)' = Upvalues(f)
  BY DEF Upvalues
<1>2. \A q : CallsOutward(script, q)' <=> CallsOutward(script, q)
  OBVIOUS
<1>3. NodesOf(script, "call")' = NodesOf(script, "call")
  OBVIOUS
<1>4. \A q : FunctionAt(script, q)' = FunctionAt(script, q)
  OBVIOUS
<1> QED  BY <1>1, <1>2, <1>3, <1>4 DEF CallsSupplied

(* assert(s) fails at a call, and the call is one outwards.                *)
LEMMA AbortingCall ==
    ASSUME NEW st, NEW p, NEW ops, NEW vals, NEW fns, NEW em, NEW sts,
           From(st, p, ops, vals, fns, em, sts), Generating, Codegen,
           status' = "aborted"
    PROVE  /\ EmitFunctionCall /\ Stop("aborted")
           /\ ~ (Upvalues(refs[GNode].node) \subseteq locals[GFunction])
<1> USE DEF Generating
<1>1. ASSUME NEW args, NEW types, NEW s, NEW as, NEW extra, NEW ret,
             NEW error \in {"type mismatch", "failed"},
             CheckArguments(args, types, error, Emit(s, as, extra, ret))
      PROVE  FALSE
  BY <1>1 DEF CheckArguments, Emit, Continue, Stop
<1>2. CASE \/ GenerateConstant \/ GenerateVariable \/ GenerateOperands \/ BuildVector
           \/ GenerateLet \/ GenerateFunction \/ DefineFunction \/ BeginCodegen
           \/ ExpectType \/ MergeBranches \/ BindVariable \/ ReturnValue
           \/ GenerateCall \/ GenerateReturn \/ CloseGeneratedFrame
  BY <1>2 DEF GenerateConstant, GenerateVariable, GenerateOperands, BuildVector,
     GenerateLet, GenerateFunction, DefineFunction, BeginCodegen, ExpectType,
     MergeBranches, BindVariable, ReturnValue, GenerateCall, GenerateReturn,
     CloseGeneratedFrame, Continue, Stop
<1>3. CASE EmitIntrinsicCall
  <2>1. PICK s : s = refs[GNode]
    OBVIOUS
  <2>2. PICK args : args = Taken(script[GNode].argc)
    OBVIOUS
  <2>3. \/ \E ret : Emit(s, args, <<>>, ret)
        \/ \E why \in {"crashed", "refused", "failed", "type mismatch"} : Stop(why)
    BY <1>3, <2>1, <2>2, IntrinsicSplit
  <2> QED  BY <2>3 DEF Emit, Continue, Stop
<1>4. CASE EmitFunctionCall
  BY <1>1, <1>4 DEF EmitFunctionCall
<1> QED  BY <1>2, <1>3, <1>4 DEF Codegen

LEMMA AbortOutward ==
    ASSUME NEW st, NEW p, NEW ops, NEW vals, NEW fns, NEW em, NEW sts,
           From(st, p, ops, vals, fns, em, sts), Generating, Codegen, CallsSupplied,
           status' = "aborted"
    PROVE  CallsOutward(script, GNode)
<1>1. /\ EmitFunctionCall
      /\ ~ (Upvalues(refs[GNode].node) \subseteq locals[GFunction])
  BY AbortingCall
<1>2. Finish({"emit"}) /\ refs[GNode].kind = "fun"
  BY <1>1 DEF EmitFunctionCall
<1>3. PICK q : q = GNode
  OBVIOUS
<1>4. /\ q \in 1 .. Len(script) /\ Reached(q) /\ script[q].op = "call"
      /\ ScopeOf(st, Len(st)) = ScopeAt(q)
  BY <1>2, <1>3, EmittedItem
<1>5. script \in Seq(Nodes) /\ st \in Stacks
  BY FromParts
<1>6. q \in NodesOf(script, "call")
  BY <1>4, <1>5, LenProperties DEF NodesOf
<1>7. Innermost(ScopeAt(q)) = FunctionAt(script, q)
  BY <1>4, <1>5, ScopeLexical
<1>8. GFunction = FunctionAt(script, q)
  <2>1. Innermost(ScopeAt(q)) = FunctionOn(st[Len(st)])
    BY <1>2, <1>3, CalleeFrom
  <2>2. GFunction = FunctionOn(st[Len(st)])
    BY <1>5, TopOfGenerated DEF From
  <2> QED  BY <1>7, <2>1, <2>2
<1> QED  BY <1>1, <1>2, <1>3, <1>6, <1>8 DEF CallsSupplied

LEMMA GeneratingReady ==
    ASSUME BothPasses, Inserting, Generating, Codegen, CallsReady,
           UNCHANGED <<script, pos, stack, parent, locals, refs, climb>>
    PROVE  CallsReady'
<1>1. script' = script /\ locals' = locals /\ refs' = refs
  OBVIOUS
<1>2. script' \in Programs'
  BY DEF CallsReady
<1>3. CallsSupplied'
  BY <1>1, CallsFixed DEF CallsReady
<1>4. CASE status' = "generating"
  BY <1>2, <1>3, <1>4 DEF CallsReady, Passing, AbortsOnlyOutward
<1>5. CASE status' # "generating"
  <2>1. Left /\ status' \in Outcomes
    BY <1>5, StopLeaves
  <2>2. ~ Passing'
    BY <2>1 DEF Passing, Outcomes, Exceptions, Failures
  <2>3. ASSUME status' = "aborted" PROVE CallsOutward(script, GNode)'
    <3>1. GNode' = GNode
      BY <2>1 DEF Left, GNode, GTodo, GTop
    <3>2. /\ HandedOver
          /\ GeneratedSo(gstack, gpos, operands, values, llvm, emitted, stores)
      BY DEF BothPasses, Generated
    <3>3. PICK st : st = gstack
      OBVIOUS
    <3>4. PICK p : p = gpos
      OBVIOUS
    <3>5. PICK ops : ops = operands
      OBVIOUS
    <3>6. PICK vals : vals = values
      OBVIOUS
    <3>7. PICK fns : fns = llvm
      OBVIOUS
    <3>8. PICK em : em = emitted
      OBVIOUS
    <3>9. PICK sts : sts = stores
      OBVIOUS
    <3>10. From(st, p, ops, vals, fns, em, sts)
      BY <3>2, <3>3, <3>4, <3>5, <3>6, <3>7, <3>8, <3>9 DEF From, Kept
    <3>11. CallsOutward(script, GNode)
      BY <2>3, <3>10, AbortOutward DEF CallsReady
    <3>12. PICK q : q = GNode
      OBVIOUS
    <3>13. CallsOutward(script, q)'
      BY <1>1, <3>11, <3>12, CallsFixed
    <3> QED  BY <3>1, <3>12, <3>13
  <2>4. AbortsOnlyOutward'
    BY <2>3 DEF AbortsOnlyOutward
  <2> QED  BY <1>2, <1>5, <2>2, <2>4 DEF CallsReady, Generating
<1> QED  BY <1>4, <1>5

LEMMA StaysReady ==
    BothPasses /\ Inserting /\ CallsReady /\ [Compile]_vars => CallsReady'
<1> SUFFICES ASSUME BothPasses, Inserting, CallsReady, [Compile]_vars PROVE CallsReady'
  OBVIOUS
<1>1. CASE Next /\ UNCHANGED gvars
  <2>1. script' = script /\ status = "resolving" /\ status' # "generating"
    BY <1>1, ResolvingPreserves
  <2>2. Inductive /\ (Passing => InStep) /\ (Passing => Settling) /\ [Next]_rvars
    BY <1>1, <2>1 DEF BothPasses, Passing, CallsReady
  <2>3. (Passing => Settling)'
    BY <2>2, Settles
  <2>4. status' # "aborted"
    BY <1>1, <2>1 DEF Next, ResolveOperands, ResolveVariable, ResolveReturn, ResolveLet,
          EnterLet, ResolveFunction, EnterBody, ResolveCall, ImportUpvalues,
          CloseFrame, ImportFound, ImportFromParent, Throw
  <2> QED  BY <2>1, <2>3, <2>4 DEF CallsReady, Generating, AbortsOnlyOutward
<1>2. CASE BeginCodegen /\ UNCHANGED <<script, pos, stack, parent, locals, refs, climb>>
  <2>1. status = "resolved" /\ status' = "generating"
    BY <1>2 DEF BeginCodegen
  <2>2. Inductive /\ InStep /\ Settling /\ script \in Programs
    BY <2>1 DEF BothPasses, CallsReady, Passing
  <2>3. CallsSupplied'
    BY <1>2, <2>1, <2>2, SuppliedAtEnd, CallsFixed
  <2> QED  BY <1>2, <2>1, <2>2, <2>3 DEF CallsReady, Passing, Generating, AbortsOnlyOutward
<1>3. CASE /\ Codegen /\ ~ BeginCodegen
           /\ UNCHANGED <<script, pos, stack, parent, locals, refs, climb>>
  <2>1. Generating
    BY <1>3 DEF Codegen, GenerateConstant, GenerateVariable, GenerateOperands,
       ExpectType, BuildVector, MergeBranches, GenerateLet, BindVariable,
       GenerateFunction, DefineFunction, ReturnValue, GenerateCall, EmitFunctionCall,
       EmitIntrinsicCall, GenerateReturn, CloseGeneratedFrame, Generate, Finish
  <2> QED  BY <1>3, <2>1, GeneratingReady
<1>4. CASE UNCHANGED vars
  <2>1. UNCHANGED rvars /\ UNCHANGED gvars
    BY <1>4 DEF vars
  <2>2. script' = script /\ locals' = locals /\ refs' = refs /\ status' = status
        /\ gstack' = gstack
    BY <2>1 DEF rvars, gvars
  <2>3. (Passing => Settling)'
    <3>1. CASE Passing
      <4>1. Inductive /\ (Passing => InStep) /\ (Passing => Settling) /\ [Next]_rvars
        BY <2>1, <3>1 DEF BothPasses, Passing, CallsReady
      <4> QED  BY <4>1, Settles
    <3>2. CASE ~ Passing
      BY <2>2, <3>2 DEF Passing
    <3> QED  BY <3>1, <3>2
  <2>4. AbortsOnlyOutward'
    <3>1. PICK q : q = GNode
      OBVIOUS
    <3>2. GNode' = q
      BY <2>2, <3>1 DEF GNode, GTodo, GTop
    <3>3. status = "aborted" => CallsOutward(script, q)'
      BY <2>2, <3>1, CallsFixed DEF CallsReady, AbortsOnlyOutward
    <3> QED  BY <2>2, <3>2, <3>3 DEF AbortsOnlyOutward
  <2>5. Generating' => CallsSupplied'
    BY <2>2, CallsFixed DEF CallsReady, Generating
  <2> QED  BY <2>2, <2>3, <2>4, <2>5 DEF CallsReady
<1> QED  BY <1>1, <1>2, <1>3, <1>4 DEF Compile

(* assert(s) in ASTFunctionCall::codegen() fails only at a call, made in a *)
(* nested function, of a function that encloses it, whatever the program.  *)
THEOREM AbortsAreOutward == CompileSpec => []AbortsOnlyOutward
<1>1. CompileInit => CallsReady
  <2> SUFFICES ASSUME CompileInit PROVE CallsReady
    OBVIOUS
  <2>1. Settling
    BY InitSettles DEF CompileInit
  <2>2. script \in Programs /\ status = "resolving"
    BY DEF CompileInit, Init
  <2> QED  BY <2>1, <2>2 DEF CallsReady, Generating, AbortsOnlyOutward
<1>2. BothPasses /\ Inserting /\ CallsReady /\ [Compile]_vars => CallsReady'
  BY StaysReady
<1>3. CallsReady => AbortsOnlyOutward
  BY DEF CallsReady
<1> QED  BY <1>1, <1>2, <1>3, PassesAgree, FramesInsert, PTL DEF CompileSpec

-----------------------------------------------------------------------------
(* Where a `return' can be.  Item j of frame i is final if no item after   *)
(* it, in its frame or in those around, waits for a subtree.               *)
Final(st, i, j) ==
    \A k \in 1 .. i : \A l \in 1 .. Len(st[k].todo) :
        Waits(st[k].todo[l]) => k = i /\ l <= j

\* A final item is a subtree, a `let' whose body is one, or the work of a
\* node, not a `let' or a function, that the program ends with.
TailItem(e) ==
    \/ e.do \in {"expr", "bind"}
    \/ script[e.node].op \notin {"let", "fun"} /\ Remaining(script)[e.node - 1] = 1

TailsOK(st) ==
    \A i \in 1 .. Len(st) : \A j \in 1 .. Len(st[i].todo) :
        Final(st, i, j) => TailItem(st[i].todo[j])

Still(st) == \A i \in 1 .. Len(st) : st[i].todo = <<>>

LEMMA ThreadWaits ==
    ASSUME NEW w, NEW sc, NEW t, IsSeq(t), NEW a, NEW z,
           Threads(Positions(w, sc), t, a, z)
    PROVE  /\ a \in Nat /\ z \in Nat /\ z <= a
           /\ z = a <=> \A j \in 1 .. Len(t) : ~ Waits(t[j])
<1>1. PICK n : n = Len(t) /\ n \in Nat
  BY SeqLength
<1>2. PICK g \in [1 .. n + 1 -> Nat] :
         /\ g[1] = a /\ g[n + 1] = z
         /\ \A j \in 1 .. n : <<t[j], g[j], g[j + 1]>> \in Positions(w, sc)
  BY <1>1 DEF Threads
<1>3. \A j \in 1 .. n : IF Waits(t[j]) THEN g[j] = g[j + 1] + 1 ELSE g[j] = g[j + 1]
  BY <1>2 DEF Positions
<1> DEFINE T == {m \in Nat : m <= n =>
                    /\ g[m + 1] <= a
                    /\ g[m + 1] = a <=> \A j \in 1 .. m : ~ Waits(t[j])}
<1>4. 0 \in T
  BY <1>1, <1>2
<1>5. ASSUME NEW m \in Nat, m \in T PROVE m + 1 \in T
  <2> SUFFICES ASSUME m + 1 <= n
               PROVE  /\ g[(m + 1) + 1] <= a
                      /\ g[(m + 1) + 1] = a <=> \A j \in 1 .. m + 1 : ~ Waits(t[j])
    OBVIOUS
  <2>1. m + 1 \in 1 .. n /\ m + 1 \in 1 .. n + 1 /\ (m + 1) + 1 \in 1 .. n + 1 /\ 1 \in 1 .. n + 1
    BY <1>1
  <2>2. g[m + 1] \in Nat /\ g[(m + 1) + 1] \in Nat /\ a \in Nat
    BY <1>2, <2>1
  <2>3. /\ g[m + 1] <= a
        /\ g[m + 1] = a <=> \A j \in 1 .. m : ~ Waits(t[j])
    BY <1>1, <1>5, <2>1
  <2>4. IF Waits(t[m + 1]) THEN g[m + 1] = g[(m + 1) + 1] + 1 ELSE g[m + 1] = g[(m + 1) + 1]
    BY <1>3, <2>1
  <2>5. (\A j \in 1 .. m + 1 : ~ Waits(t[j]))
           <=> (\A j \in 1 .. m : ~ Waits(t[j])) /\ ~ Waits(t[m + 1])
    <3>1. \A j \in 1 .. m + 1 : j \in 1 .. m \/ j = m + 1
      OBVIOUS
    <3>2. \A j \in 1 .. m : j \in 1 .. m + 1
      OBVIOUS
    <3>3. m + 1 \in 1 .. m + 1
      OBVIOUS
    <3> QED  BY <3>1, <3>2, <3>3, Zenon
  <2>6. CASE Waits(t[m + 1])
    <3>1. g[(m + 1) + 1] < a
      BY <2>2, <2>3, <2>4, <2>6
    <3> QED  BY <2>2, <2>5, <2>6, <3>1
  <2>7. CASE ~ Waits(t[m + 1])
    <3>1. g[(m + 1) + 1] = g[m + 1]
      BY <2>4, <2>7
    <3> QED  BY <2>3, <2>5, <2>7, <3>1
  <2> QED  BY <2>6, <2>7
<1>6. n \in T
  <2> HIDE DEF T
  <2> QED  BY <1>1, <1>4, <1>5, AllNumbers
<1>7. 1 \in 1 .. n + 1 /\ n + 1 \in 1 .. n + 1
  BY <1>1
<1> QED  BY <1>1, <1>2, <1>6, <1>7

(* A program ends where nothing but the subtree to be visited waits.       *)
LEMMA FinalLevel ==
    ASSUME NEW st \in Stacks, NEW w, Standing(st, w),
           st[Len(st)].todo # <<>>, st[Len(st)].todo[1] = Expr
    PROVE  Final(st, Len(st), 1) <=> Len(w) = 1
<1>1. PICK n \in Nat : n = Len(st) /\ n >= 1
  BY StackType
<1>2. PICK b \in [0 .. n -> Nat] :
         /\ b[0] = 0 /\ b[n] = Len(w)
         /\ \A i, j \in 0 .. n : i <= j => b[i] <= b[j]
         /\ \A i \in 1 .. n :
               Threads(Positions(w, ScopeOf(st, i)), st[i].todo, b[i], b[i - 1])
  BY <1>1 DEF Standing
<1>0. b[n] = Len(w)
  BY <1>2
<1>3. n \in 1 .. n /\ n - 1 \in 0 .. n /\ n - 1 \in Nat
  BY <1>1
<1>4. \A i \in 1 .. n : IsSeq(st[i].todo)
  BY <1>1, StackType
<1>5. PICK u : u = st[n].todo
  OBVIOUS
<1>6. IsSeq(u) /\ u # <<>> /\ u[1] = Expr /\ Threads(Positions(w, ScopeOf(st, n)), u, b[n], b[n - 1])
  <2>1. Threads(Positions(w, ScopeOf(st, n)), st[n].todo, b[n], b[n - 1])
    BY <1>2, <1>3
  <2>2. IsSeq(u)
    BY <1>3, <1>4, <1>5
  <2> QED  BY <1>1, <1>5, <2>1, <2>2
<1>7. PICK m \in Nat : /\ <<u[1], b[n], m>> \in Positions(w, ScopeOf(st, n))
                       /\ Threads(Positions(w, ScopeOf(st, n)), Tail(u), m, b[n - 1])
  BY <1>6, ThreadFirst
<1>8. b[n] = m + 1
  <2>1. Waits(u[1])
    BY <1>6 DEF Waits, Expr
  <2> QED  BY <1>7, <2>1 DEF Positions
<1>9. /\ IsSeq(Tail(u)) /\ Len(u) \in Nat /\ Len(u) >= 1 /\ Len(Tail(u)) = Len(u) - 1
      /\ \A l \in 1 .. Len(u) - 1 : Tail(u)[l] = u[l + 1]
  <2>1. PICK S : u \in Seq(S)
    BY <1>6 DEF IsSeq
  <2>2. Len(u) \in Nat /\ Len(u) # 0
    BY <1>6, SeqLength
  <2>3. Tail(u) \in Seq(S) /\ Len(Tail(u)) = Len(u) - 1
        /\ \A l \in 1 .. Len(u) - 1 : Tail(u)[l] = u[l + 1]
    BY <1>6, <2>1
  <2> QED  BY <2>1, <2>2, <2>3 DEF IsSeq
<1>10. /\ b[n - 1] \in Nat /\ b[n - 1] <= m
       /\ b[n - 1] = m <=> \A l \in 1 .. Len(Tail(u)) : ~ Waits(Tail(u)[l])
  <2>1. PICK z : z = b[n - 1]
    OBVIOUS
  <2>2. PICK t : t = Tail(u)
    OBVIOUS
  <2>3. Threads(Positions(w, ScopeOf(st, n)), t, m, z) /\ IsSeq(t)
    BY <1>7, <1>9, <2>1, <2>2
  <2>4. z \in Nat /\ z <= m /\ (z = m <=> \A l \in 1 .. Len(t) : ~ Waits(t[l]))
    BY ONLY <2>3, ThreadWaits
  <2> QED  BY <2>1, <2>2, <2>4
<1>11. (\A l \in 1 .. Len(Tail(u)) : ~ Waits(Tail(u)[l]))
          <=> \A l \in 1 .. Len(u) : Waits(u[l]) => l <= 1
  <2>1. \A l \in 1 .. Len(Tail(u)) : l + 1 \in 1 .. Len(u) /\ Tail(u)[l] = u[l + 1] /\ ~ (l + 1 <= 1)
    BY <1>9
  <2>2. \A l \in 1 .. Len(u) : l <= 1 \/ (l - 1 \in 1 .. Len(Tail(u)) /\ Tail(u)[l - 1] = u[l])
    BY <1>9
  <2> QED  BY <2>1, <2>2, Zenon
<1>12. \A i \in 1 .. n :
          /\ i - 1 \in 0 .. n /\ b[i] \in Nat /\ b[i - 1] \in Nat
          /\ b[i - 1] = b[i] <=> \A j \in 1 .. Len(st[i].todo) : ~ Waits(st[i].todo[j])
  <2> TAKE i \in 1 .. n
  <2>1. i - 1 \in 0 .. n
    BY <1>1
  <2>2. Threads(Positions(w, ScopeOf(st, i)), st[i].todo, b[i], b[i - 1]) /\ IsSeq(st[i].todo)
    BY <1>2, <1>4
  <2> QED  BY <2>1, <2>2, ThreadWaits
<1>13. Final(st, n, 1) <=>
          /\ \A l \in 1 .. Len(u) : Waits(u[l]) => l <= 1
          /\ \A i \in 1 .. n - 1 : \A j \in 1 .. Len(st[i].todo) : ~ Waits(st[i].todo[j])
  <2>1. \A k \in 1 .. n : k = n \/ (k \in 1 .. n - 1)
    BY <1>1
  <2>2. \A k \in 1 .. n - 1 : k \in 1 .. n /\ k # n
    BY <1>1
  <2> QED  BY <1>3, <1>5, <2>1, <2>2, Zenon DEF Final
<1>14. ASSUME Final(st, n, 1) PROVE Len(w) = 1
  <2>1. b[n - 1] = m
    BY <1>10, <1>11, <1>13, <1>14
  <2> DEFINE T == {k \in Nat : k <= n - 1 => b[k] = 0}
  <2>2. 0 \in T
    BY <1>2
  <2>3. ASSUME NEW k \in Nat, k \in T PROVE k + 1 \in T
    <3> SUFFICES ASSUME k + 1 <= n - 1 PROVE b[k + 1] = 0
      OBVIOUS
    <3>1. k + 1 \in 1 .. n - 1 /\ k + 1 \in 1 .. n /\ (k + 1) - 1 = k /\ k <= n - 1
      BY <1>1
    <3>2. \A j \in 1 .. Len(st[k + 1].todo) : ~ Waits(st[k + 1].todo[j])
      BY <1>13, <1>14, <3>1
    <3>3. b[(k + 1) - 1] = b[k + 1]
      BY <1>12, <3>1, <3>2
    <3>4. b[k] = 0
      BY <2>3, <3>1
    <3> QED  BY ONLY <3>1, <3>3, <3>4
  <2>4. n - 1 \in T
    <3> HIDE DEF T
    <3> QED  BY <1>3, <2>2, <2>3, AllNumbers
  <2>5. b[n - 1] = 0
    BY <1>1, <2>4
  <2> QED  BY <1>2, <1>8, <2>1, <2>5
<1>15. ASSUME Len(w) = 1 PROVE Final(st, n, 1)
  <2>0. m \in Nat
    OBVIOUS
  <2>1. m = 0
    <3>1. m + 1 = 1
      BY <1>0, <1>8, <1>15, Zenon
    <3> QED  BY ONLY <2>0, <3>1
  <2>2. b[n - 1] = 0
    BY <1>10, <2>1
  <2>3. \A i \in 0 .. n - 1 : b[i] = 0
    <3>1. \A i \in 0 .. n - 1 : i \in 0 .. n /\ i <= n - 1
      BY <1>1
    <3>0. \A i, j \in 0 .. n : i <= j => b[i] <= b[j]
      BY <1>2
    <3>2. \A i \in 0 .. n - 1 : b[i] <= b[n - 1]
      BY <1>3, <3>0, <3>1, Zenon
    <3>3. \A i \in 0 .. n - 1 : b[i] \in Nat
      BY <1>2, <3>1
    <3> QED  BY ONLY <2>2, <3>2, <3>3
  <2>4. \A i \in 1 .. n - 1 : \A j \in 1 .. Len(st[i].todo) : ~ Waits(st[i].todo[j])
    <3>1. \A i \in 1 .. n - 1 : i \in 1 .. n /\ i \in 0 .. n - 1 /\ i - 1 \in 0 .. n - 1
      BY <1>1
    <3> QED  BY <1>12, <2>3, <3>1
  <2> QED  BY <1>10, <1>11, <1>13, <2>1, <2>2, <2>4
<1> QED  BY <1>1, <1>14, <1>15

-----------------------------------------------------------------------------
(* Tails in stacks that change.                                            *)
LEMMA TailsInstead ==
    ASSUME NEW st \in Stacks, TailsOK(st), st[Len(st)].todo # <<>>,
           NEW u \in Seq(Tasks),
           \A j \in 1 .. Len(u) :
               (Waits(u[j]) /\ TailItem(u[j])) \/ (Final(st, Len(st), 1) => TailItem(u[j])),
           NEW r, r = Instead(st, u)
    PROVE  TailsOK(r)
<1>1. PICK n \in Nat : n = Len(st) /\ n >= 1
  BY StackType
<1>2. /\ r \in Stacks /\ Len(r) = n
      /\ \A i \in 1 .. n - 1 : r[i] = st[i]
      /\ r[n].todo = u \o Tail(st[n].todo)
  BY <1>1, InsteadType
<1>3. PICK t : t = st[n].todo
  OBVIOUS
<1>4. PICK m \in Nat : m = Len(u)
  BY SeqLength DEF IsSeq
<1>5. IsSeq(t) /\ t # <<>> /\ IsSeq(u) /\ Len(t) \in Nat /\ Len(t) >= 1
  <2>1. n \in 1 .. n
    BY <1>1
  <2>2. IsSeq(t)
    BY <1>1, <1>3, <2>1, StackType
  <2>3. Len(t) \in Nat /\ Len(t) # 0
    BY <1>1, <1>3, <2>2, SeqLength
  <2> QED  BY <1>1, <1>3, <2>2, <2>3 DEF IsSeq
<1>6. PICK v : v = r[n].todo
  OBVIOUS
<1>7. /\ IsSeq(v) /\ Len(v) = m + Len(t) - 1
      /\ \A l \in 1 .. m : v[l] = u[l]
      /\ \A l \in 2 .. Len(t) : v[m + l - 1] = t[l]
  BY <1>2, <1>3, <1>4, <1>5, <1>6, ReplaceFirst
<1> SUFFICES ASSUME NEW i \in 1 .. n, NEW j \in 1 .. Len(r[i].todo), Final(r, i, j)
             PROVE  TailItem(r[i].todo[j])
  BY <1>2 DEF TailsOK
<1>8. CASE i # n
  <2>1. i \in 1 .. n - 1 /\ \A k \in 1 .. i : k \in 1 .. n - 1
    BY <1>1, <1>8
  <2>2. r[i] = st[i] /\ \A k \in 1 .. i : r[k] = st[k]
    BY <1>2, <2>1
  <2>3. Final(st, i, j)
    BY <2>2 DEF Final
  <2> QED  BY <1>1, <2>2, <2>3 DEF TailsOK
<1>9. CASE i = n
  <2>1. /\ \A k \in 1 .. n - 1 : \A l \in 1 .. Len(st[k].todo) : ~ Waits(st[k].todo[l])
        /\ \A l \in 1 .. Len(v) : Waits(v[l]) => l <= j
    <3>1. \A k \in 1 .. n - 1 : k \in 1 .. n /\ k # n /\ r[k] = st[k]
      BY <1>1, <1>2
    <3>2. n \in 1 .. n
      BY <1>1
    <3> QED  BY <1>6, <1>9, <3>1, <3>2, Zenon DEF Final
  <2>2. \A k \in 1 .. n : k \in 1 .. n - 1 \/ k = n
    BY <1>1
  <2>3. CASE j <= m
    <3>1. j \in 1 .. m /\ v[j] = u[j]
      BY <1>4, <1>7, <2>3
    <3>2. ASSUME NEW l \in 1 .. Len(t), Waits(t[l]) PROVE l <= 1
      <4>1. CASE l <= 1
        BY <4>1
      <4>2. CASE ~ (l <= 1)
        <5>1. l \in 2 .. Len(t)
          BY <1>5, <4>2
        <5>2. m + l - 1 \in 1 .. Len(v) /\ v[m + l - 1] = t[l] /\ m + l - 1 > j
          BY <1>5, <1>7, <2>3, <3>1, <5>1
        <5>3. Waits(v[m + l - 1]) => m + l - 1 <= j
          BY <2>1, <5>2
        <5> QED  BY <3>1, <3>2, <5>1, <5>2, <5>3
      <4> QED  BY <4>1, <4>2
    <3>3. Final(st, n, 1)
      BY <1>3, <2>1, <2>2, <3>2 DEF Final
    <3> QED  BY <1>1, <1>4, <1>6, <1>9, <3>1, <3>3
  <2>4. CASE ~ (j <= m)
    <3> DEFINE l == j - m + 1
    <3>1. l \in 2 .. Len(t) /\ l \in 1 .. Len(t) /\ m + l - 1 = j
      BY <1>4, <1>5, <1>6, <1>7, <1>9, <2>4
    <3> HIDE DEF l
    <3>2. v[j] = t[l]
      BY <1>7, <3>1
    <3>3. ASSUME NEW k \in 1 .. Len(t), Waits(t[k]) PROVE k <= l
      <4>1. CASE k <= 1
        BY <3>1, <4>1
      <4>2. CASE ~ (k <= 1)
        <5>1. k \in 2 .. Len(t)
          BY <1>5, <4>2
        <5>2. m + k - 1 \in 1 .. Len(v) /\ v[m + k - 1] = t[k]
          BY <1>5, <1>7, <5>1
        <5>3. m + k - 1 <= j
          BY <2>1, <3>3, <5>2
        <5>4. l \in Int /\ k \in Int /\ m \in Int
          BY <3>1, <5>1
        <5>5. m + k - 1 <= m + l - 1
          BY <3>1, <5>3
        <5> QED  BY ONLY <5>4, <5>5
      <4> QED  BY <4>1, <4>2
    <3>4. Final(st, n, l)
      BY <1>3, <2>1, <2>2, <3>3 DEF Final
    <3>5. n \in 1 .. n
      BY <1>1
    <3>6. TailItem(st[n].todo[l])
      BY <1>1, <1>3, <3>1, <3>4, <3>5 DEF TailsOK
    <3> QED  BY <1>3, <1>6, <1>9, <3>2, <3>6
  <2> QED  BY <2>3, <2>4
<1> QED  BY <1>8, <1>9

LEMMA TailsDone ==
    ASSUME NEW st \in Stacks, TailsOK(st), st[Len(st)].todo # <<>>,
           NEW r, r = Instead(st, <<>>)
    PROVE  TailsOK(r)
<1>1. PICK u : u = <<>>
  OBVIOUS
<1>2. u \in Seq(Tasks) /\ \A j \in 1 .. Len(u) : FALSE
  <2>1. Len(<<>>) = 0 /\ <<>> \in Seq(Tasks)
    OBVIOUS
  <2>2. \A j \in 1 .. 0 : FALSE
    OBVIOUS
  <2> QED  BY <1>1, <2>1, <2>2
<1> QED  BY <1>1, <1>2, TailsInstead

\* The items that a stack is left with when its first is done.
LEMMA DoneItems ==
    ASSUME NEW st \in Stacks, st[Len(st)].todo # <<>>
    PROVE  LET q == Instead(st, <<>>)  n == Len(st)  t == st[n].todo IN
           /\ q \in Stacks /\ Len(q) = n
           /\ \A i \in 1 .. n - 1 : q[i] = st[i]
           /\ Len(t) \in Nat /\ Len(t) >= 1 /\ Len(q[n].todo) = Len(t) - 1
           /\ \A l \in 2 .. Len(t) : q[n].todo[l - 1] = t[l]
<1> SUFFICES ASSUME NEW q, q = Instead(st, <<>>), NEW n, n = Len(st), NEW t, t = st[n].todo
             PROVE  /\ q \in Stacks /\ Len(q) = n
                    /\ \A i \in 1 .. n - 1 : q[i] = st[i]
                    /\ Len(t) \in Nat /\ Len(t) >= 1 /\ Len(q[n].todo) = Len(t) - 1
                    /\ \A l \in 2 .. Len(t) : q[n].todo[l - 1] = t[l]
  OBVIOUS
<1>1. n \in Nat /\ n >= 1
  BY StackType
<1>2. PICK w : w = <<>>
  OBVIOUS
<1>20. w \in Seq(Tasks)
  BY <1>2
<1>21. /\ Instead(st, w) \in Stacks /\ Len(Instead(st, w)) = Len(st)
       /\ \A i \in 1 .. Len(st) - 1 : Instead(st, w)[i] = st[i]
       /\ Instead(st, w)[Len(st)].todo = w \o Tail(st[Len(st)].todo)
  BY <1>20, InsteadType, Zenon
<1>22. q = Instead(st, w)
  BY <1>2, Zenon
<1>3. q \in Stacks /\ Len(q) = n /\ (\A i \in 1 .. n - 1 : q[i] = st[i])
      /\ q[n].todo = w \o Tail(t)
  BY <1>21, <1>22, Zenon
<1>4. IsSeq(t) /\ t # <<>> /\ IsSeq(w) /\ Len(w) = 0
  <2>1. n \in 1 .. n
    BY <1>1
  <2>2. IsSeq(t)
    BY <1>1, <2>1, StackType
  <2>3. IsSeq(<<>>) /\ Len(<<>>) = 0
    BY NothingSeq
  <2> QED  BY <1>2, <2>2, <2>3
<1>5. PICK x : x = q[n].todo
  OBVIOUS
<1>6. x = w \o Tail(t)
  BY <1>3, <1>5, Zenon
<1>7. /\ Len(x) = Len(w) + Len(t) - 1
      /\ \A l \in 2 .. Len(t) : x[Len(w) + l - 1] = t[l]
  BY <1>4, <1>6, ReplaceFirst
<1>8. PICK c \in Nat : c = Len(t) /\ c # 0
  BY <1>4, SeqLength
<1>9. PICK o : o = Len(w)
  OBVIOUS
<1>10. o = 0
  BY <1>4, <1>9
<1>11. Len(x) = o + c - 1 /\ \A l \in 2 .. c : x[o + l - 1] = t[l]
  BY <1>7, <1>8, <1>9, Zenon
<1>12. \A l \in 2 .. c : o + l - 1 = l - 1
  BY ONLY <1>10
<1>13. \A l \in 2 .. c : x[l - 1] = t[l]
  BY <1>11, <1>12
<1>14. c \in Nat /\ c >= 1 /\ o + c - 1 = c - 1
  <2>1. c \in Nat /\ c # 0
    BY <1>8
  <2> QED  BY ONLY <1>10, <2>1
<1>15. Len(x) = c - 1
  BY <1>11, <1>14, Zenon
<1> QED  BY <1>1, <1>3, <1>5, <1>8, <1>13, <1>14, <1>15, Zenon

LEMMA TailsPushed ==
    ASSUME NEW st \in Stacks, TailsOK(st), st[Len(st)].todo # <<>>,
           NEW fr \in AnyFrames,
           \A j \in 1 .. Len(fr.todo) :
               \/ TailItem(fr.todo[j])
               \/ ~ Final(st, Len(st), 1)
               \/ \E l \in 1 .. Len(fr.todo) : l > j /\ Waits(fr.todo[l]),
           NEW r, r = Append(Instead(st, <<>>), fr)
    PROVE  TailsOK(r)
<1>1. PICK n \in Nat : n = Len(st) /\ n >= 1
  BY StackType
<1>3. PICK q : q = Instead(st, <<>>)
  OBVIOUS
<1>6. PICK t : t = st[n].todo
  OBVIOUS
<1>7. /\ q \in Stacks /\ Len(q) = n
      /\ \A i \in 1 .. n - 1 : q[i] = st[i]
      /\ Len(t) \in Nat /\ Len(t) >= 1 /\ Len(q[n].todo) = Len(t) - 1
      /\ \A l \in 2 .. Len(t) : q[n].todo[l - 1] = t[l]
  <2>1. LET q0 == Instead(st, <<>>)  n0 == Len(st)  t0 == st[n0].todo IN
           /\ q0 \in Stacks /\ Len(q0) = n0
           /\ \A i \in 1 .. n0 - 1 : q0[i] = st[i]
           /\ Len(t0) \in Nat /\ Len(t0) >= 1 /\ Len(q0[n0].todo) = Len(t0) - 1
           /\ \A l \in 2 .. Len(t0) : q0[n0].todo[l - 1] = t0[l]
    BY DoneItems, Zenon
  <2> QED  BY <1>1, <1>3, <1>6, <2>1, Zenon
<1>4. TailsOK(q)
  BY <1>3, TailsDone
<1>5. r \in Stacks /\ Len(r) = n + 1 /\ r[n + 1] = fr /\ \A i \in 1 .. n : r[i] = q[i]
  BY <1>3, <1>7, PushType
<1> SUFFICES ASSUME NEW i \in 1 .. n + 1, NEW j \in 1 .. Len(r[i].todo), Final(r, i, j)
             PROVE  TailItem(r[i].todo[j])
  BY <1>5 DEF TailsOK
<1>8. CASE i # n + 1
  <2>1. i \in 1 .. n /\ \A k \in 1 .. i : k \in 1 .. n
    BY <1>1, <1>8
  <2>2. r[i] = q[i] /\ \A k \in 1 .. i : r[k] = q[k]
    BY <1>5, <2>1
  <2>3. Final(q, i, j)
    BY <2>2 DEF Final
  <2> QED  BY <1>4, <1>7, <2>1, <2>2, <2>3 DEF TailsOK
<1>9. CASE i = n + 1
  <2>1. \A k \in 1 .. n : \A l \in 1 .. Len(q[k].todo) : ~ Waits(q[k].todo[l])
    <3>1. \A k \in 1 .. n : k \in 1 .. n + 1 /\ k # n + 1 /\ r[k] = q[k]
      BY <1>1, <1>5
    <3> QED  BY <1>9, <3>1, Zenon DEF Final
  <2>2. Final(st, n, 1)
    <3>1. \A k \in 1 .. n : k = n \/ (k \in 1 .. n - 1 /\ q[k] = st[k])
      BY <1>1, <1>7
    <3>2. ASSUME NEW l \in 1 .. Len(t), Waits(t[l]) PROVE l <= 1
      <4>1. CASE ~ (l <= 1)
        <5>1. l \in 2 .. Len(t) /\ l - 1 \in 1 .. Len(q[n].todo) /\ n \in 1 .. n
          BY <1>1, <1>7, <4>1
        <5>2. q[n].todo[l - 1] = t[l]
          BY <1>7, <5>1
        <5> QED  BY <2>1, <3>2, <5>1, <5>2
      <4> QED  BY <4>1
    <3> QED  BY <1>6, <2>1, <3>1, <3>2, Zenon DEF Final
  <2>3. \A l \in 1 .. Len(fr.todo) : Waits(fr.todo[l]) => l <= j
    <3>1. n + 1 \in 1 .. n + 1
      BY <1>1
    <3> QED  BY <1>5, <1>9, <3>1 DEF Final
  <2>4. j \in 1 .. Len(fr.todo) /\ j \in Int
    BY <1>5, <1>9
  <2>5. ~ \E l \in 1 .. Len(fr.todo) : l > j /\ Waits(fr.todo[l])
    BY <2>3, <2>4
  <2> QED  BY <1>1, <1>5, <1>9, <2>2, <2>4, <2>5
<1> QED  BY <1>8, <1>9

LEMMA TailsPopped ==
    ASSUME NEW st \in Stacks, TailsOK(st), Len(st) > 1,
           NEW r, r = SubSeq(st, 1, Len(st) - 1)
    PROVE  TailsOK(r)
<1>1. PICK n \in Nat : n = Len(st) /\ n >= 1
  BY StackType
<1>2. Len(r) = n - 1 /\ \A i \in 1 .. n - 1 : r[i] = st[i]
  BY <1>1, PopType
<1> SUFFICES ASSUME NEW i \in 1 .. n - 1, NEW j \in 1 .. Len(r[i].todo), Final(r, i, j)
             PROVE  TailItem(r[i].todo[j])
  BY <1>2 DEF TailsOK
<1>3. i \in 1 .. n /\ r[i] = st[i] /\ \A k \in 1 .. i : r[k] = st[k]
  BY <1>1, <1>2
<1>4. Final(st, i, j)
  BY <1>3 DEF Final
<1> QED  BY <1>1, <1>3, <1>4 DEF TailsOK

-----------------------------------------------------------------------------
(* A node that the program ends with is the last subtree to be read, and   *)
(* apart from the bodies of lets and functions no other contains it.       *)
LEMMA LevelsAbove ==
    ASSUME script \in Seq(Nodes), NEW q \in 1 .. Len(script), Reached(q)
    PROVE  \A s \in 0 .. q - 1 : Remaining(script)[s] \in Nat /\ Remaining(script)[s] >= 1
<1> SUFFICES ASSUME NEW s \in 0 .. q - 1
             PROVE  Remaining(script)[s] \in Nat /\ Remaining(script)[s] >= 1
  OBVIOUS
<1>1. Len(script) \in Nat /\ s \in 0 .. Len(script) /\ q - 1 \in 0 .. Len(script) /\ s <= q - 1
  BY LenProperties
<1>2. Walk[s] # <<>>
  BY <1>1, WalkOver DEF Reached
<1>3. Remaining(script)[s] = Len(Walk[s])
  BY <1>1, <1>2, WalkLexical DEF WalkAgrees
<1>4. PICK w : w = Walk[s]
  OBVIOUS
<1>5. w \in Seq(Scopes) /\ w # <<>>
  BY <1>1, <1>2, <1>4, WalkType
<1>6. Len(w) \in Nat /\ Len(w) >= 1
  BY <1>5, LenProperties, EmptySeq
<1> QED  BY <1>3, <1>4, <1>6

LEMMA TailLevel ==
    ASSUME script \in Seq(Nodes), NEW q \in 1 .. Len(script), Reached(q), InTail(script, q)
    PROVE  Remaining(script)[q - 1] = 1
<1> DEFINE d == Remaining(script)
<1>1. Len(script) \in Nat /\ q \in Nat
  BY LenProperties
<1>2. \A s \in 0 .. q - 1 : d[s] \in Nat /\ d[s] >= 1
  BY LevelsAbove
<1>3. d[0] = 1
  BY RemainingIs
<1> HIDE DEF d
<1>4. q - 1 \in 0 .. q - 1
  BY <1>1
<1> SUFFICES ASSUME d[q - 1] # 1 PROVE FALSE
  BY DEF d
<1>5. d[q - 1] > 1
  BY <1>2, <1>4
<1> DEFINE S == {n \in 1 .. q - 1 : d[n - 1] < d[q - 1]}
<1>6. S \subseteq 0 .. q - 1 /\ q - 1 \in Nat
  BY <1>1
<1>7. 1 \in S
  <2>1. q # 1
    BY <1>3
  <2>2. 1 \in 1 .. q - 1 /\ 1 - 1 = 0
    BY <1>1, <2>1
  <2>3. d[1 - 1] < d[q - 1]
    BY <1>3, <1>5, <2>2
  <2> QED  BY <2>2, <2>3
<1>8. PICK y \in S : \A z \in S : y >= z
  BY <1>6, <1>7, GreatestNumber
<1>9. /\ y \in 1 .. q - 1 /\ y \in 1 .. Len(script) /\ y - 1 \in 0 .. q - 1 /\ y \in 0 .. q - 1
      /\ y - 1 \in 0 .. Len(script) /\ q \in (y - 1) + 1 .. Len(script)
      /\ d[y - 1] < d[q - 1]
  <2>1. y \in 1 .. q - 1 /\ d[y - 1] < d[q - 1]
    OBVIOUS
  <2> QED  BY <1>1, <2>1
<1>10. PICK c : c = d[y - 1]
  OBVIOUS
<1>11. c \in Nat /\ c < d[q - 1] /\ d[q - 1] \in Nat
  BY <1>2, <1>4, <1>9, <1>10
<1>12. \A s \in y .. q - 1 : d[s] > c
  <2> SUFFICES ASSUME NEW s \in y .. q - 1 PROVE d[s] > c
    OBVIOUS
  <2>1. CASE s = q - 1
    BY <1>11, <2>1
  <2>2. CASE s # q - 1
    <3>1. s + 1 \in 1 .. q - 1 /\ (s + 1) - 1 = s /\ ~ (y >= s + 1) /\ s \in 0 .. q - 1
      BY <1>1, <1>9, <2>2
    <3>2. s + 1 \notin S
      BY <1>8, <3>1
    <3>3. ~ (d[s] < d[q - 1])
      BY <3>1, <3>2
    <3>4. d[s] \in Nat
      BY <1>2, <3>1
    <3> QED  BY <1>11, <3>3, <3>4
  <2> QED  BY <2>1, <2>2
<1> HIDE DEF S
<1>13. script[y].op \in {"let", "fun"} /\ q \in Subtree(script, y, 2)
  <2>1. Above(d, y - 1, q - 1, d[y - 1] - 1)
    <3>1. \A s \in y - 1 .. q - 1 : s = y - 1 \/ s \in y .. q - 1
      BY <1>1, <1>9
    <3>2. \A s \in y - 1 .. q - 1 : d[s] = c \/ d[s] > c
      BY <1>10, <1>12, <3>1
    <3>3. \A s \in y - 1 .. q - 1 : d[s] \in Nat
      <4>1. \A s \in y - 1 .. q - 1 : s \in 0 .. q - 1
        BY <1>1, <1>9
      <4> QED  BY <1>2, <4>1
    <3>4. \A s \in y - 1 .. q - 1 : d[s] > c - 1
      BY <1>11, <3>2, <3>3
    <3> QED  BY <1>10, <3>4 DEF Above
  <2>2. q <= LastOf(script, y - 1, 1)
    <3>1. y - 1 \in 0 .. Len(script) /\ 1 \in Int /\ q \in (y - 1) + 1 .. Len(script)
      BY <1>9
    <3> QED  BY <2>1, <3>1, UpToLast DEF d
  <2> QED  BY <1>9, <2>2 DEF InTail
<1>14. d[y] = c + 1
  <2>1. d[y] = d[y - 1] - 1 + Arity(script[y])
    BY <1>9, RemainingIs DEF d
  <2>2. Arity(script[y]) = 2
    BY <1>13 DEF Arity
  <2>3. d[y] = c - 1 + 2
    BY <1>10, <2>1, <2>2
  <2> QED  BY <1>11, <2>3
<1>15. PartOf(d, y, 2, q - 1, d[q - 1])
  <2>1. y \in 1 .. Len(script) /\ 2 \in {1, 2}
    BY <1>9
  <2> QED  BY <1>13, <2>1, SubtreeIs DEF d
<1>16. d[q - 1] <= c \/ ~ Above(d, y, q - 1, c)
  <2>1. d[q - 1] <= d[y] - 2 + 1 \/ ~ Above(d, y, q - 1, d[y] - 2 + 1)
    BY <1>15 DEF PartOf
  <2>2. d[y] - 2 + 1 = c
    BY <1>11, <1>14
  <2> QED  BY <2>1, <2>2
<1>17. Above(d, y, q - 1, c)
  BY <1>12 DEF Above
<1> QED  BY <1>11, <1>16, <1>17

LEMMA TailAlone ==
    ASSUME script \in Seq(Nodes), NEW q \in 1 .. Len(script), Reached(q), InTail(script, q),
           NEW n \in 1 .. q - 1, Remaining(script)[n - 1] = 1
    PROVE  script[n].op \in {"let", "fun"}
<1>1. Len(script) \in Nat /\ q \in Nat
  BY LenProperties
<1>2. /\ n - 1 \in 0 .. Len(script) /\ q \in (n - 1) + 1 .. Len(script)
      /\ \A s \in n - 1 .. q - 1 : s \in 0 .. q - 1
  BY <1>1
<1> DEFINE d == Remaining(script)
<1>3. \A s \in n - 1 .. q - 1 : d[s] \in Nat /\ d[s] >= 1
  BY <1>2, LevelsAbove
<1> HIDE DEF d
<1>4. d[n - 1] - 1 = 0
  BY DEF d
<1>5. Above(d, n - 1, q - 1, d[n - 1] - 1)
  BY <1>3, <1>4 DEF Above
<1>6. q <= LastOf(script, n - 1, 1)
  BY <1>2, <1>5, UpToLast DEF d
<1> QED  BY <1>6 DEF InTail

-----------------------------------------------------------------------------
(* When such a node is visited, nothing else is left to be done.           *)
LEMMA LastIsFinal ==
    ASSUME script \in Seq(Nodes), NEW st \in Stacks, NEW p, Visits(st, p),
           Final(st, Len(st), 1)
    PROVE  Remaining(script)[p] = 1
<1>1. p \in 0 .. Len(script) /\ p + 1 \in 1 .. Len(script) /\ (p + 1) - 1 = p
  BY VisitsHere, LenProperties DEF Visits
<1>2. Walk[p] # <<>>
  BY <1>1, VisitsHere DEF Reached
<1>3. Remaining(script)[p] = Len(Walk[p])
  BY <1>1, <1>2, WalkLexical DEF WalkAgrees
<1>4. Len(Walk[p]) = 1
  <2>1. PICK w : w = Walk[p]
    OBVIOUS
  <2>2. Standing(st, w) /\ st[Len(st)].todo # <<>> /\ st[Len(st)].todo[1] = Expr
    BY <2>1 DEF Visits
  <2>3. Len(w) = 1
    BY <2>2, FinalLevel
  <2> QED  BY <2>1, <2>3
<1> QED  BY <1>3, <1>4

LEMMA LastReturn ==
    ASSUME script \in Seq(Nodes), NEW st \in Stacks, NEW p, Visits(st, p),
           TailsOK(st), InTail(script, p + 1),
           NEW vals, NEW fns, ReadyStack(st, p, vals, fns)
    PROVE  Still(Instead(st, <<>>))
<1>1. PICK q : q = p + 1
  OBVIOUS
<1>2. /\ q \in 1 .. Len(script) /\ Reached(q) /\ p \in Nat /\ p = q - 1
      /\ p \in 0 .. Len(script) /\ InTail(script, q)
  BY <1>1, VisitsHere, LenProperties DEF Visits
<1>3. Final(st, Len(st), 1)
  <2>1. Remaining(script)[p] = 1
    BY <1>2, TailLevel
  <2>2. Walk[p] # <<>>
    BY <1>2 DEF Reached
  <2>3. Remaining(script)[p] = Len(Walk[p])
    BY <1>2, <2>2, WalkLexical DEF WalkAgrees
  <2>4. PICK w : w = Walk[p]
    OBVIOUS
  <2>5. Standing(st, w) /\ st[Len(st)].todo # <<>> /\ st[Len(st)].todo[1] = Expr
    BY <2>4 DEF Visits
  <2>6. Len(w) = 1
    BY <2>1, <2>3, <2>4
  <2> QED  BY <2>5, <2>6, FinalLevel
<1>4. PICK n \in Nat : n = Len(st) /\ n >= 1
  BY StackType
<1>5. ASSUME NEW i \in 1 .. n, NEW j \in 1 .. Len(st[i].todo), ~ (i = n /\ j = 1)
      PROVE  FALSE
  <2>1. PICK e : e = st[i].todo[j]
    OBVIOUS
  <2>2. ~ Waits(e)
    <3>1. Waits(e) => i = n /\ j <= 1
      <4>1. \A k \in 1 .. n : \A l \in 1 .. Len(st[k].todo) :
               Waits(st[k].todo[l]) => k = n /\ l <= 1
        BY <1>3, <1>4 DEF Final
      <4>2. i \in 1 .. n /\ j \in 1 .. Len(st[i].todo)
        OBVIOUS
      <4> QED  BY <2>1, <4>1, <4>2, Zenon
    <3>2. j <= 1 => j = 1
      OBVIOUS
    <3> QED  BY <1>5, <3>1, <3>2
  <2>3. Final(st, i, j)
    <3>1. \A k \in 1 .. i : k \in 1 .. n
      BY <1>4
    <3>2. \A k \in 1 .. i : \A l \in 1 .. Len(st[k].todo) : Waits(st[k].todo[l]) => k = n /\ l <= 1
      BY <1>3, <1>4, <3>1 DEF Final
    <3>3. \A k \in 1 .. i : k = n => k = i
      BY <1>4
    <3>4. \A k \in 1 .. i : \A l \in 1 .. Len(st[k].todo) : l <= 1 => l <= j
      OBVIOUS
    <3> QED  BY <3>2, <3>3, <3>4 DEF Final
  <2>4. TailItem(e)
    BY <1>4, <2>1, <2>3 DEF TailsOK
  <2>5. script[e.node].op \notin {"let", "fun"} /\ Remaining(script)[e.node - 1] = 1
    BY <2>2, <2>4 DEF TailItem, Waits
  <2>6. Ready(e, p, vals, fns)
    <3>1. InWork(st, ScopeOf(st, i), e)
      BY <1>4, <2>1 DEF InWork
    <3> QED  BY <3>1 DEF ReadyStack
  <2>7. e.node \in 1 .. q - 1
    BY <1>2, <2>2, <2>6 DEF Ready, Waits
  <2> QED  BY <1>2, <2>5, <2>7, TailAlone
<1>6. PICK r : r = Instead(st, <<>>)
  OBVIOUS
<1>7. PICK t : t = st[n].todo
  OBVIOUS
<1>8. /\ Len(r) = n /\ Len(t) \in Nat /\ Len(t) >= 1
      /\ \A i \in 1 .. n - 1 : r[i] = st[i]
      /\ Len(r[n].todo) = Len(t) - 1 /\ r \in Stacks
  <2>1. st[Len(st)].todo # <<>>
    BY DEF Visits
  <2>2. LET q0 == Instead(st, <<>>)  n0 == Len(st)  t0 == st[n0].todo IN
           /\ q0 \in Stacks /\ Len(q0) = n0
           /\ \A i \in 1 .. n0 - 1 : q0[i] = st[i]
           /\ Len(t0) \in Nat /\ Len(t0) >= 1 /\ Len(q0[n0].todo) = Len(t0) - 1
           /\ \A l \in 2 .. Len(t0) : q0[n0].todo[l - 1] = t0[l]
    BY <2>1, DoneItems, Zenon
  <2> QED  BY <1>4, <1>6, <1>7, <2>2, Zenon
<1>9. Len(t) = 1
  <2>1. CASE Len(t) # 1
    <3>0. PICK c : c = Len(t)
      OBVIOUS
    <3>3. c \in Nat /\ c >= 1 /\ c # 1
      BY <1>8, <2>1, <3>0
    <3>4. 2 \in 1 .. c /\ 2 # 1
      BY ONLY <3>3
    <3>5. n \in 1 .. n
      BY <1>4
    <3>1. 2 \in 1 .. Len(t) /\ n \in 1 .. n /\ 2 # 1
      BY <3>0, <3>4, <3>5
    <3>2. 2 \in 1 .. Len(st[n].todo) /\ n \in 1 .. n /\ ~ (n = n /\ 2 = 1)
      BY <1>7, <3>1
    <3> QED  BY ONLY <1>5, <3>2, Zenon
  <2> QED  BY <2>1
<1>10. ASSUME NEW i \in 1 .. n PROVE Len(r[i].todo) = 0
  <2>1. CASE i = n
    <3>1. Len(r[n].todo) = 1 - 1
      BY <1>8, <1>9, Zenon
    <3> QED  BY <2>1, <3>1
  <2>2. CASE i # n
    <3>1. i \in 1 .. n - 1 /\ r[i] = st[i]
      BY <1>4, <1>8, <2>2
    <3>2. IsSeq(st[i].todo)
      BY <1>4, StackType
    <3>3. Len(st[i].todo) \in Nat
      BY <3>2, SeqLength
    <3>4. CASE Len(st[i].todo) # 0
      <4>1. 1 \in 1 .. Len(st[i].todo)
        BY <3>3, <3>4
      <4> QED  BY <1>5, <2>2, <4>1
    <3> QED  BY <3>1, <3>4
  <2> QED  BY <2>1, <2>2
<1>11. ASSUME NEW i \in 1 .. n PROVE r[i].todo = <<>>
  <2>1. r[i].todo \in Seq(Tasks)
    BY <1>8, StackType
  <2> QED  BY <1>10, <2>1, EmptySeq
<1> QED  BY <1>6, <1>8, <1>11 DEF Still

-----------------------------------------------------------------------------
(* What a `return' answers, in programs where it ends the toplevel code.   *)
ReturnsLast == \A q \in NodesOf(script, "return") : InTail(script, q)

(* It is an operand only when no work is left, and never a variable's      *)
(* value.                                                                  *)
NullsLast(st, ops, vals) ==
    /\ TailsOK(st)
    /\ \A f \in Funs : \A v \in locals[f] : vals[f][v] # Null
    /\ ReturnsLast => \A k \in 1 .. Len(ops) : ops[k] = Null => Still(st)

\* The new operands are old ones or values.
OldOrValues(ops, new) ==
    \A k \in 1 .. Len(new) : new[k] # Null \/ \E i \in 1 .. Len(ops) : new[k] = ops[i]

LEMMA NullsFixed ==
    ASSUME Kept
    PROVE  /\ \A st, ops, vals : NullsLast(st, ops, vals)' <=> NullsLast(st, ops, vals)
           /\ ReturnsLast' <=> ReturnsLast
<1>1. script' = script /\ locals' = locals /\ Funs' = Funs
  BY DEF Kept, Funs
<1>2. Remaining(script)' = Remaining(script)
  BY <1>1
<1>3. \A e : TailItem(e)' <=> TailItem(e)
  BY <1>1, <1>2 DEF TailItem
<1>4. \A st, i, j : Final(st, i, j)' <=> Final(st, i, j)
  BY DEF Final, Waits
<1>5. \A st : TailsOK(st)' <=> TailsOK(st)
  BY <1>3, <1>4 DEF TailsOK
<1>6. \A st : Still(st)' <=> Still(st)
  BY DEF Still
<1>7. ReturnsLast' <=> ReturnsLast
  BY <1>1 DEF ReturnsLast
<1>8. Null' = Null
  BY DEF Null, Constant, Value
<1>9. \A st, ops, vals : NullsLast(st, ops, vals)' <=> NullsLast(st, ops, vals)
  BY <1>1, <1>5, <1>6, <1>7, <1>8 DEF NullsLast
<1> QED  BY <1>7, <1>9

(* While work is left no operand is a `return'.                            *)
LEMMA WorkingOperands ==
    ASSUME NEW st \in Stacks, st[Len(st)].todo # <<>>, NEW ops, NEW vals,
           NullsLast(st, ops, vals), ReturnsLast
    PROVE  \A k \in 1 .. Len(ops) : ops[k] # Null
<1>1. Len(st) \in 1 .. Len(st)
  BY StackType
<1>2. ~ Still(st)
  BY <1>1 DEF Still
<1> QED  BY <1>2 DEF NullsLast

LEMMA NullsLater ==
    ASSUME NEW st \in Stacks, st[Len(st)].todo # <<>>, NEW ops, NEW vals,
           NullsLast(st, ops, vals), NEW r, TailsOK(r), NEW new,
           OldOrValues(ops, new), NEW vals2,
           \A f \in Funs : \A v \in locals[f] : vals2[f][v] # Null
    PROVE  NullsLast(r, new, vals2)
<1>1. ASSUME ReturnsLast, NEW k \in 1 .. Len(new) PROVE new[k] # Null
  BY <1>1, WorkingOperands DEF OldOrValues
<1> QED  BY <1>1 DEF NullsLast

LEMMA SameOperands ==
    ASSUME NEW ops
    PROVE  OldOrValues(ops, ops)
BY DEF OldOrValues

LEMMA FewerOperands ==
    ASSUME NEW ops \in Seq(Values), OperandsOK(ops), NEW a \in Nat, a <= Len(ops),
           NEW new, new = SubSeq(ops, 1, Len(ops) - a)
    PROVE  OldOrValues(ops, new)
<1>1. Drops(ops, a, new)
  BY Dropped
<1>2. PICK n \in Nat : n = Len(ops)
  OBVIOUS
<1>3. Len(new) = n - a /\ \A k \in 1 .. n - a : new[k] = ops[k] /\ k \in 1 .. Len(ops)
  BY <1>1, <1>2 DEF Drops
<1> QED  BY <1>3 DEF OldOrValues

LEMMA OtherOperand ==
    ASSUME NEW ops \in Seq(Values), OperandsOK(ops), NEW a \in Nat, a <= Len(ops),
           NEW v \in Values, v.type # "unbound", v # Null,
           NEW new, new = Append(SubSeq(ops, 1, Len(ops) - a), v)
    PROVE  OldOrValues(ops, new)
<1>1. Gives(ops, a, v, new)
  BY Given
<1>2. PICK n \in Nat : n = Len(ops)
  OBVIOUS
<1>3. /\ Len(new) = n - a + 1 /\ new[n - a + 1] = v
      /\ \A k \in 1 .. n - a : new[k] = ops[k] /\ k \in 1 .. Len(ops)
  BY <1>1, <1>2 DEF Gives
<1>4. \A k \in 1 .. n - a + 1 : k \in 1 .. n - a \/ k = n - a + 1
  OBVIOUS
<1> QED  BY <1>3, <1>4 DEF OldOrValues

LEMMA AddedOperand ==
    ASSUME NEW ops \in Seq(Values), NEW v, v # Null, v \in Values,
           NEW new, new = Append(ops, v)
    PROVE  OldOrValues(ops, new)
<1>1. PICK n \in Nat : n = Len(ops)
  OBVIOUS
<1>2. Len(new) = n + 1 /\ new[n + 1] = v /\ \A k \in 1 .. n : new[k] = ops[k]
  BY <1>1
<1>3. \A k \in 1 .. n + 1 : k \in 1 .. n \/ k = n + 1
  BY <1>1
<1> QED  BY <1>1, <1>2, <1>3 DEF OldOrValues

LEMMA ValueNotNull ==
    ASSUME NEW f, f # NoFun, NEW t
    PROVE  Value(f, t) # Null
BY DEF Null, Constant, Value

LEMMA FunctionsNotNone ==
    ASSUME NEW f \in Nat
    PROVE  f # NoFun
BY DEF NoFun

-----------------------------------------------------------------------------
(* The steps of the second pass, one by one.                               *)
NoneAdded == ~ GenerateReturn => OldOrValues(operands, operands')

NullsLeft ==
    /\ \A st, ops, vals :
          st = gstack' /\ ops = operands' /\ vals = values' => NullsLast(st, ops, vals)
    /\ NoneAdded

\* A leaf or a task is done, and answers with a value.
LEMMA DoneNulls ==
    ASSUME NEW st, NEW p, NEW ops, NEW vals, NEW fns, NEW em, NEW sts,
           From(st, p, ops, vals, fns, em, sts), NullsLast(st, ops, vals),
           st[Len(st)].todo # <<>>, gstack' = GRest(<<>>), values' = values,
           NEW new, new = operands', OldOrValues(ops, new)
    PROVE  NullsLeft
<1>1. st \in Stacks /\ st = gstack /\ vals = values
  BY FromParts DEF From
<1>2. PICK r : r = gstack'
  OBVIOUS
<1>3. r = Instead(st, <<>>)
  BY <1>1, <1>2, TopOfGenerated
<1>4. TailsOK(r)
  <2>1. TailsOK(st)
    BY DEF NullsLast
  <2> QED  BY <1>1, <1>3, <2>1, TailsDone, Zenon
<1>5. NullsLast(r, new, vals)
  <2>1. \A f \in Funs : \A v \in locals[f] : vals[f][v] # Null
    BY DEF NullsLast
  <2> QED  BY <1>1, <1>4, <2>1, NullsLater
<1>6. NoneAdded
  BY DEF NoneAdded, From
<1> QED  BY <1>1, <1>2, <1>5, <1>6 DEF NullsLeft

\* Work is planned on the subtrees of a node that is no declaration.
LEMMA PlannedNulls ==
    ASSUME NEW st, NEW p, NEW ops, NEW vals, NEW fns, NEW em, NEW sts,
           From(st, p, ops, vals, fns, em, sts), NullsLast(st, ops, vals),
           NEW w, Generate(w), NEW u \in Seq(Tasks), Plans(u),
           \A j \in 1 .. Len(u) :
               \/ u[j].do \in {"expr", "bind"}
               \/ u[j].node = p + 1 /\ script[p + 1].op \notin {"let", "fun"}
    PROVE  NullsLeft
<1>1. st \in Stacks /\ st = gstack /\ vals = values /\ ops = operands /\ script \in Seq(Nodes)
  BY FromParts DEF From
<1>2. Visits(st, p) /\ p \in Nat
  BY VisitFrom, FromParts
<1>3. st[Len(st)].todo # <<>>
  BY <1>2 DEF Visits
<1>4. PICK r : r = gstack'
  OBVIOUS
<1>5. r = Instead(st, u)
  BY <1>1, <1>4, TopOfGenerated DEF Plans
<1>6. ASSUME NEW j \in 1 .. Len(u)
      PROVE  (Waits(u[j]) /\ TailItem(u[j])) \/ (Final(st, Len(st), 1) => TailItem(u[j]))
  <2>1. CASE u[j].do \in {"expr", "bind"}
    BY <2>1 DEF Waits, TailItem
  <2>2. CASE u[j].node = p + 1 /\ script[p + 1].op \notin {"let", "fun"}
    <3>1. Final(st, Len(st), 1) => Remaining(script)[p] = 1
      BY <1>1, <1>2, LastIsFinal
    <3>2. (p + 1) - 1 = p
      BY <1>2
    <3>3. Remaining(script)[u[j].node - 1] = Remaining(script)[p]
      BY <2>2, <3>2
    <3>4. script[u[j].node].op \notin {"let", "fun"}
      BY <2>2
    <3> QED  BY <3>1, <3>3, <3>4 DEF TailItem
  <2> QED  BY <1>6, <2>1, <2>2
<1>7. TailsOK(st)
  BY DEF NullsLast
<1>8. TailsOK(r)
  <2>1. u \in Seq(Tasks)
    OBVIOUS
  <2> QED  BY ONLY <1>1, <1>3, <1>5, <1>6, <1>7, <2>1, TailsInstead, ZenonT(30)
<1>9. NullsLast(r, ops, vals)
  <2>1. \A f \in Funs : \A v \in locals[f] : vals[f][v] # Null
    BY DEF NullsLast
  <2>2. OldOrValues(ops, ops)
    BY SameOperands
  <2> QED  BY <1>1, <1>3, <1>8, <2>1, <2>2, NullsLater
<1>10. NoneAdded
  BY SameOperands DEF NoneAdded, Plans
<1> QED  BY <1>1, <1>4, <1>9, <1>10 DEF NullsLeft, Plans

LEMMA ConstantNulls ==
    ASSUME NEW st, NEW p, NEW ops, NEW vals, NEW fns, NEW em, NEW sts,
           From(st, p, ops, vals, fns, em, sts), NullsLast(st, ops, vals), GenerateConstant
    PROVE  NullsLeft
<1>1. Generate({"const"})
  BY DEF GenerateConstant
<1>2. GHere = p + 1 /\ script[p + 1] \in Nodes /\ script[p + 1].op \in {"const"}
      /\ Visits(st, p)
  BY <1>1, VisitFrom
<1>3. script[p + 1].type \in Types
  BY <1>2 DEF Nodes
<1>4. PICK v : v = Constant(script[p + 1].type)
  OBVIOUS
<1>5. v \in Values /\ v.type # "unbound" /\ v # Null
  BY <1>3, <1>4 DEF Constant, Value, Values, Types, Null
<1>6. PICK new : new = Append(ops, v)
  OBVIOUS
<1>7. new = operands' /\ gstack' = GRest(<<>>) /\ values' = values
  BY <1>2, <1>4, <1>6 DEF GenerateConstant, Continue, From
<1>8. OldOrValues(ops, new)
  BY <1>5, <1>6, FromParts, AddedOperand
<1> QED  BY <1>2, <1>7, <1>8, DoneNulls DEF Visits

LEMMA VariableNulls ==
    ASSUME NEW st, NEW p, NEW ops, NEW vals, NEW fns, NEW em, NEW sts,
           From(st, p, ops, vals, fns, em, sts), NullsLast(st, ops, vals), GenerateVariable
    PROVE  NullsLeft
<1>1. Generate({"var"})
  BY DEF GenerateVariable
<1>2. PICK q : q = p + 1
  OBVIOUS
<1>3. GHere = q /\ q \in 1 .. Len(script) /\ Reached(q) /\ Visits(st, p)
      /\ script[q] \in Nodes /\ script[q].op \in {"var"}
  BY <1>1, <1>2, VisitFrom
<1>4. script[q].name \in Names
  BY <1>3, NodeFields
<1>5. PICK sc : sc = ScopeAt(q)
  OBVIOUS
<1>6. /\ VariablesSettled(sc, vals, fns)
      /\ Records(sc, script[q], q, locals, refs[q], <<>>)
      /\ Innermost(sc) = FunctionOn(st[Len(st)])
      /\ \A x \in Names : sc.table[x].kind = "var" => sc.table[x] \in sc.seen
  BY <1>1, <1>2, <1>5, SeenFrom
<1>7. PICK s : s = refs[q]
  OBVIOUS
<1>8. s.kind = "var" => s \in sc.seen /\ s \in locals[Innermost(sc)]
  BY <1>3, <1>4, <1>6, <1>7 DEF Records
<1>9. PICK f : f = Innermost(sc)
  OBVIOUS
<1>10. HandedOver /\ ValuesAgree(p, vals, fns) /\ st \in Stacks /\ ops \in Seq(Values)
  BY FromParts
<1>11. GFunction = f /\ f \in Funs
  BY <1>6, <1>9, <1>10, TopOfGenerated, InsertFun DEF From
<1>12. PICK v : v = IF s.kind = "var" THEN vals[f][s] ELSE Constant("real")
  OBVIOUS
<1>13. v \in Values /\ v # Null
  <2>1. CASE s.kind = "var"
    <3>1. s \in sc.seen /\ s \in locals[f]
      BY <1>8, <1>9, <2>1
    <3>2. vals[f][s] \in Values
      BY <1>3, <1>5, <1>6, <1>9, <1>10, <3>1, CopyRead
    <3>3. vals[f][s] # Null
      BY <1>11, <3>1 DEF NullsLast
    <3> QED  BY <1>12, <2>1, <3>2, <3>3
  <2>2. CASE s.kind # "var"
    BY <1>12, <2>2 DEF Constant, Value, Values, Types, Null
  <2> QED  BY <2>1, <2>2
<1>14. PICK new : new = Append(ops, v)
  OBVIOUS
<1>15. new = operands' /\ gstack' = GRest(<<>>) /\ values' = values
  BY <1>3, <1>7, <1>11, <1>12, <1>14 DEF GenerateVariable, Continue, From
<1>16. OldOrValues(ops, new)
  BY <1>10, <1>13, <1>14, AddedOperand
<1> QED  BY <1>3, <1>15, <1>16, DoneNulls DEF Visits

LEMMA PlanNulls ==
    ASSUME NEW st, NEW p, NEW ops, NEW vals, NEW fns, NEW em, NEW sts,
           From(st, p, ops, vals, fns, em, sts), NullsLast(st, ops, vals),
           NEW w, Generate(w), script[p + 1].op \notin {"let", "fun"}, Planned(st, p)
    PROVE  NullsLeft
<1>1. PICK u, d, e :
         /\ Lifts(u, 1) /\ Suits(u, ScopeOf(st, Len(st)), Arity(script[p + 1]))
         /\ HomeWork(d, p + 1) /\ HomeWork(e, p + 1)
         /\ \A j \in 1 .. Len(u) : u[j] = Expr \/ u[j] = d \/ u[j] = e
         /\ Plans(u)
  BY DEF Planned
<1>2. u \in Seq(Tasks) /\ d.node = p + 1 /\ e.node = p + 1 /\ Expr.do = "expr"
  BY <1>1 DEF Lifts, HomeWork, Expr
<1>3. \A j \in 1 .. Len(u) :
         \/ u[j].do \in {"expr", "bind"}
         \/ u[j].node = p + 1 /\ script[p + 1].op \notin {"let", "fun"}
  BY <1>1, <1>2
<1> QED  BY <1>1, <1>2, <1>3, PlannedNulls

LEMMA OperandsNulls ==
    ASSUME NEW st, NEW p, NEW ops, NEW vals, NEW fns, NEW em, NEW sts,
           From(st, p, ops, vals, fns, em, sts), NullsLast(st, ops, vals), GenerateOperands
    PROVE  NullsLeft
<1>1. PICK w : w = {"vector", "splat", "if"}
  OBVIOUS
<1>2. Generate(w)
  BY <1>1 DEF GenerateOperands
<1>3. script[p + 1].op \notin {"let", "fun"}
  BY <1>1, <1>2, VisitFrom
<1>4. Planned(st, p)
  BY OperandsPlanned
<1> QED  BY <1>2, <1>3, <1>4, PlanNulls

LEMMA CallNulls ==
    ASSUME NEW st, NEW p, NEW ops, NEW vals, NEW fns, NEW em, NEW sts,
           From(st, p, ops, vals, fns, em, sts), NullsLast(st, ops, vals),
           GenerateCall, Generating'
    PROVE  NullsLeft
<1>1. PICK w : w = {"call"}
  OBVIOUS
<1>2. Generate(w)
  BY <1>1 DEF GenerateCall
<1>3. script[p + 1].op \notin {"let", "fun"}
  BY <1>1, <1>2, VisitFrom
<1>4. Planned(st, p)
  BY CallPlanned
<1> QED  BY <1>2, <1>3, <1>4, PlanNulls

LEMMA LetNulls ==
    ASSUME NEW st, NEW p, NEW ops, NEW vals, NEW fns, NEW em, NEW sts,
           From(st, p, ops, vals, fns, em, sts), NullsLast(st, ops, vals), GenerateLet
    PROVE  NullsLeft
<1>1. PICK w : w = {"let"}
  OBVIOUS
<1>2. Generate(w)
  BY <1>1 DEF GenerateLet
<1>3. GHere = p + 1 /\ p \in Nat
  BY <1>2, VisitFrom, FromParts
<1>4. PICK e : e = Work("bind", p + 1)
  OBVIOUS
<1>5. e \in Tasks /\ e.do = "bind"
  <2>1. "bind" \in Doings /\ p + 1 \in Nat
    BY <1>3 DEF Doings
  <2> QED  BY <1>4, <2>1, WorkTask
<1>6. PICK u : u = <<Expr, e>>
  OBVIOUS
<1>7. u \in Seq(Tasks) /\ \A j \in 1 .. Len(u) : u[j] = Expr \/ u[j] = e
  BY <1>5, <1>6, ExprTask, ListTwo
<1>8. Plans(u)
  BY <1>3, <1>4, <1>6 DEF GenerateLet, Continue, Plans
<1>9. \A j \in 1 .. Len(u) :
         \/ u[j].do \in {"expr", "bind"}
         \/ u[j].node = p + 1 /\ script[p + 1].op \notin {"let", "fun"}
  <2>1. Expr.do = "expr"
    BY DEF Expr
  <2> QED  BY <1>5, <1>7, <2>1
<1> QED  BY <1>2, <1>7, <1>8, <1>9, PlannedNulls

-----------------------------------------------------------------------------
\* Work that takes operands and leaves a value.
LEMMA GivesNulls ==
    ASSUME NEW st, NEW p, NEW ops, NEW vals, NEW fns, NEW em, NEW sts,
           From(st, p, ops, vals, fns, em, sts), NullsLast(st, ops, vals),
           NEW w, Finish(w), NEW e, e = st[Len(st)].todo[1],
           NEW a \in Nat, Takes(e) = a, NEW t, Value(insert, t) \in Values, t # "unbound",
           gstack' = GRest(<<>>), values' = values,
           operands' = Append(Drop(a), Value(insert, t))
    PROVE  NullsLeft
<1>1. ops \in Seq(Values) /\ OperandsOK(ops) /\ ops = operands /\ st[Len(st)].todo # <<>>
      /\ insert = FunctionOn(st[Len(st)])
  BY FromParts, WorkFrom DEF From
<1>2. a <= Len(ops)
  BY TakenFrom
<1>3. PICK v : v = Value(insert, t)
  OBVIOUS
<1>4. v # Null /\ v \in Values /\ v.type # "unbound"
  <2>1. insert \in Nat
    BY <1>1, InsertFun
  <2> QED  BY <1>3, <2>1, ValueNotNull, FunctionsNotNone DEF Value
<1>5. PICK new : new = Append(SubSeq(ops, 1, Len(ops) - a), v)
  OBVIOUS
<1>6. new = operands'
  BY <1>1, <1>3, <1>5 DEF Drop
<1>7. OldOrValues(ops, new)
  BY <1>1, <1>2, <1>4, <1>5, OtherOperand
<1> QED  BY <1>1, <1>6, <1>7, DoneNulls

LEMMA BuildNulls ==
    ASSUME NEW st, NEW p, NEW ops, NEW vals, NEW fns, NEW em, NEW sts,
           From(st, p, ops, vals, fns, em, sts), NullsLast(st, ops, vals),
           BuildVector
    PROVE  NullsLeft
<1>1. PICK w : w = {"build"}
  OBVIOUS
<1>2. Finish(w)
  BY <1>1 DEF BuildVector
<1>3. PICK e : e = st[Len(st)].todo[1]
  OBVIOUS
<1>4. /\ e.do \in {"build"} /\ GNode = e.node /\ insert = FunctionOn(st[Len(st)])
      /\ Ready(e, p, vals, fns)
  BY <1>1, <1>2, <1>3, WorkFrom
<1>5. PICK a \in Nat : a = Arity(script[e.node])
  <2>1. e.node \in 1 .. Len(script) /\ script \in Seq(Nodes)
    <3>1. e.do # "expr"
      BY <1>4
    <3>2. e.node \in 1 .. p /\ p \in 0 .. Len(script) /\ script \in Seq(Nodes)
      BY <1>4, <3>1, FromParts DEF Ready
    <3> QED  BY <3>2
  <2>2. script[e.node] \in Nodes
    BY <2>1, NodeAt
  <2> QED  BY <2>2, NodeFields
<1>6. Takes(e) = a
  BY <1>4, <1>5 DEF Takes
<1>7. PICK t : t = "vector"
  OBVIOUS
<1>8. Value(insert, t) \in Values /\ t # "unbound"
  BY <1>4, <1>7, InsertFun DEF Value, Values, Types
<1>9. /\ gstack' = GRest(<<>>) /\ values' = values
      /\ operands' = Append(Drop(a), Value(insert, t))
  BY <1>4, <1>5, <1>7 DEF BuildVector, Continue
<1> QED  BY <1>2, <1>3, <1>6, <1>8, <1>9, GivesNulls

LEMMA MergeNulls ==
    ASSUME NEW st, NEW p, NEW ops, NEW vals, NEW fns, NEW em, NEW sts,
           From(st, p, ops, vals, fns, em, sts), NullsLast(st, ops, vals),
           MergeBranches, Generating'
    PROVE  NullsLeft
<1>1. PICK w : w = {"merge"}
  OBVIOUS
<1>2. Finish(w)
  BY <1>1 DEF MergeBranches
<1>3. PICK e : e = st[Len(st)].todo[1]
  OBVIOUS
<1>4. e.do \in {"merge"} /\ insert = FunctionOn(st[Len(st)])
  BY <1>1, <1>2, <1>3, WorkFrom
<1>5. PICK a \in Nat : a = 3
  OBVIOUS
<1>6. Takes(e) = a
  BY <1>4, <1>5 DEF Takes
<1>7. PICK n \in Nat : n = Len(ops)
  BY FromParts
<1>8. PICK o : o = ops[n - 1]
  OBVIOUS
<1>9. o \in Values /\ o.type # "unbound" /\ 3 <= n
  <2>1. /\ a <= Len(ops) /\ Len(ops) \in Nat
        /\ \A k \in Len(ops) - a + 1 .. Len(ops) :
              ops[k] \in Values /\ ops[k].type # "unbound"
    BY <1>2, <1>3, <1>6, TakenFrom
  <2>2. n - 1 \in Len(ops) - a + 1 .. Len(ops)
    BY <1>5, <1>7, <2>1
  <2> QED  BY <1>5, <1>7, <1>8, <2>1, <2>2
<1>10. Taken(2)[1] = o
  <2>1. ops \in Seq(Values) /\ ops = operands
    BY FromParts DEF From
  <2>2. SubSeq(ops, n - 1, n)[1] = ops[n - 1]
    BY <1>7, <1>9, <2>1
  <2>3. Taken(2) = SubSeq(ops, n - 1, n)
    BY <1>7, <2>1 DEF Taken
  <2> QED  BY <1>8, <2>2, <2>3
<1>11. PICK t : t = o.type
  OBVIOUS
<1>12. Value(insert, t) \in Values /\ t # "unbound"
  <2>1. t \in Types \cup {"null", "unbound"}
    BY <1>9, <1>11 DEF Values
  <2> QED  BY <1>4, <1>9, <1>11, <2>1, InsertFun DEF Value, Values
<1>13. /\ gstack' = GRest(<<>>) /\ values' = values
       /\ operands' = Append(Drop(a), Value(insert, t))
  <2>1. operands' = Append(Drop(3), Value(insert, Taken(2)[1].type))
        /\ gstack' = GRest(<<>>) /\ values' = values
    BY DEF MergeBranches, Continue, Stop, Generating
  <2> QED  BY <1>5, <1>10, <1>11, <2>1
<1> QED  BY <1>2, <1>3, <1>6, <1>12, <1>13, GivesNulls

LEMMA ExpectNulls ==
    ASSUME NEW st, NEW p, NEW ops, NEW vals, NEW fns, NEW em, NEW sts,
           From(st, p, ops, vals, fns, em, sts), NullsLast(st, ops, vals),
           ExpectType, Generating'
    PROVE  NullsLeft
<1>1. PICK w : w = {"real", "boolean"}
  OBVIOUS
<1>2. Finish(w)
  BY <1>1 DEF ExpectType
<1>3. st[Len(st)].todo # <<>>
  BY <1>2, WorkFrom
<1>4. gstack' = GRest(<<>>) /\ values' = values /\ ops = operands'
  BY DEF ExpectType, Continue, Stop, Generating, From
<1> QED  BY <1>3, <1>4, SameOperands, DoneNulls

LEMMA ReturnedNulls ==
    ASSUME NEW st, NEW p, NEW ops, NEW vals, NEW fns, NEW em, NEW sts,
           From(st, p, ops, vals, fns, em, sts), NullsLast(st, ops, vals),
           ReturnValue, Generating'
    PROVE  NullsLeft
<1>1. PICK w : w = {"ret"}
  OBVIOUS
<1>2. Finish(w)
  BY <1>1 DEF ReturnValue
<1>3. PICK e : e = st[Len(st)].todo[1]
  OBVIOUS
<1>4. e.do \in {"ret"} /\ st[Len(st)].todo # <<>>
  BY <1>1, <1>2, <1>3, WorkFrom
<1>5. PICK a \in Nat : a = 1
  OBVIOUS
<1>6. Takes(e) = a
  BY <1>4, <1>5 DEF Takes
<1>7. a <= Len(ops) /\ ops \in Seq(Values) /\ OperandsOK(ops)
  BY <1>2, <1>3, <1>6, TakenFrom, FromParts
<1>8. PICK new : new = SubSeq(ops, 1, Len(ops) - a)
  OBVIOUS
<1>9. gstack' = GRest(<<>>) /\ values' = values /\ new = operands'
  BY <1>5, <1>8 DEF ReturnValue, Continue, Stop, Generating, From, Drop
<1>10. OldOrValues(ops, new)
  BY <1>7, <1>8, FewerOperands
<1> QED  BY <1>4, <1>9, <1>10, DoneNulls

LEMMA EmitNulls ==
    ASSUME NEW st, NEW p, NEW ops, NEW vals, NEW fns, NEW em, NEW sts,
           From(st, p, ops, vals, fns, em, sts), NullsLast(st, ops, vals),
           Finish({"emit"}), NEW args, args = Taken(script[GNode].argc),
           NEW extra, NEW ret \in Types \cup {"null"}, NEW s, Emit(s, args, extra, ret)
    PROVE  NullsLeft
<1>1. PICK w : w = {"emit"}
  OBVIOUS
<1>2. Finish(w)
  BY <1>1
<1>3. PICK e : e = st[Len(st)].todo[1]
  OBVIOUS
<1>4. PICK a : a = script[GNode].argc
  OBVIOUS
<1>5. a \in Nat /\ Len(args) = a /\ Takes(e) = a
  BY <1>3, <1>4, ArgumentsTaken
<1>6. insert = FunctionOn(st[Len(st)])
  BY <1>1, <1>2, WorkFrom
<1>7. Value(insert, ret) \in Values /\ ret # "unbound"
  BY <1>6, InsertFun DEF Value, Values, Types
<1>8. /\ gstack' = GRest(<<>>) /\ values' = values
      /\ operands' = Append(Drop(a), Value(insert, ret))
  BY <1>5 DEF Emit, Continue
<1> QED  BY <1>2, <1>3, <1>5, <1>7, <1>8, GivesNulls

LEMMA EmitIntrinsicNulls ==
    ASSUME NEW st, NEW p, NEW ops, NEW vals, NEW fns, NEW em, NEW sts,
           From(st, p, ops, vals, fns, em, sts), NullsLast(st, ops, vals),
           EmitIntrinsicCall, Generating'
    PROVE  NullsLeft
<1>1. Finish({"emit"}) /\ refs[GNode].kind = "callable"
  BY DEF EmitIntrinsicCall
<1>2. PICK q : q = GNode
  OBVIOUS
<1>3. PICK args : args = Taken(script[GNode].argc)
  OBVIOUS
<1>5. PICK extra : extra = <<>>
  OBVIOUS
<1>6. PICK ret \in Types \cup {"null"} : Emit(refs[q], args, extra, ret)
  BY <1>2, <1>3, <1>5, IntrinsicEmits
<1> QED  BY <1>1, <1>3, <1>6, EmitNulls

LEMMA EmitFunctionNulls ==
    ASSUME NEW st, NEW p, NEW ops, NEW vals, NEW fns, NEW em, NEW sts,
           From(st, p, ops, vals, fns, em, sts), NullsLast(st, ops, vals),
           EmitFunctionCall, Generating'
    PROVE  NullsLeft
<1>1. Finish({"emit"}) /\ refs[GNode].kind = "fun"
  BY DEF EmitFunctionCall
<1>2. PICK q : q = GNode
  OBVIOUS
<1>3. PICK f : f = refs[q].node
  OBVIOUS
<1>4. PICK args : args = Taken(script[GNode].argc)
  OBVIOUS
<1>5. PICK extra : extra = [v \in Upvalues(f) |-> values[GFunction][v]]
  OBVIOUS
<1>6. PICK ret : ret = script[f].ret
  OBVIOUS
<1>7. Emit(refs[q], args, extra, ret)
  BY <1>2, <1>3, <1>4, <1>5, <1>6
  DEF EmitFunctionCall, CheckArguments, Stop, Generating
<1>8. f \in Funs /\ fns[f] # NotCreated /\ f \in 1 .. Len(script)
  BY <1>1, <1>2, <1>3, CalleeFrom
<1>9. FunctionAgrees(f, p, vals, fns)
  BY <1>8, FromParts DEF FunctionsAgree
<1>10. script[f] \in Nodes /\ script[f].op = "fun"
  BY <1>8, <1>9, FromParts, NodeAt DEF FunctionAgrees
<1>11. ret \in Types
  BY <1>6, <1>10 DEF Nodes
<1> QED  BY <1>1, <1>4, <1>7, <1>11, EmitNulls

-----------------------------------------------------------------------------
\* The frames that are opened and closed.
LEMMA OpenedNulls ==
    ASSUME NEW st \in Stacks, st[Len(st)].todo # <<>>, NEW ops, NEW vals,
           NullsLast(st, ops, vals), NEW r, NEW fr, Opens(st, r, fr),
           \A j \in 1 .. Len(fr.todo) :
               \/ TailItem(fr.todo[j])
               \/ ~ Final(st, Len(st), 1)
               \/ \E l \in 1 .. Len(fr.todo) : l > j /\ Waits(fr.todo[l]),
           NEW new, OldOrValues(ops, new), NEW vals2,
           \A f \in Funs : \A v \in locals[f] : vals2[f][v] # Null
    PROVE  NullsLast(r, new, vals2)
<1>1. TailsOK(st) /\ fr \in AnyFrames /\ r = Append(Instead(st, <<>>), fr)
  BY DEF NullsLast, Opens
<1>2. TailsOK(r)
  BY <1>1, TailsPushed
<1> QED  BY <1>2, NullsLater

LEMMA StoredNulls ==
    ASSUME NEW p, NEW vals, NEW fns, ValuesAgree(p, vals, fns),
           \A f \in Funs : \A v \in locals[f] : vals[f][v] # Null,
           NEW g, NEW s, NEW t, t # Null,
           NEW vals2, vals2 = [vals EXCEPT ![g][s] = t]
    PROVE  \A f \in Funs : \A v \in locals[f] : vals2[f][v] # Null
<1>1. vals = [f \in Funs |-> vals[f]] /\ \A f \in Funs : vals[f] \in [locals[f] -> Values]
  BY DEF ValuesAgree
<1>2. PICK row : row = [vals[g] EXCEPT ![s] = t]
  OBVIOUS
<1>3. vals2 = [vals EXCEPT ![g] = row]
  BY <1>2
<1>4. vals2 = [f \in Funs |-> IF f = g THEN row ELSE vals[f]]
  BY <1>1, <1>3
<1> SUFFICES ASSUME NEW f \in Funs, NEW v \in locals[f] PROVE vals2[f][v] # Null
  OBVIOUS
<1>5. CASE f = g
  <2>1. vals[g] \in [locals[g] -> Values]
    BY <1>1, <1>5
  <2>2. row[v] = IF v = s THEN t ELSE vals[g][v]
    BY <1>2, <1>5, <2>1
  <2> QED  BY <1>4, <1>5, <2>2
<1>6. CASE f # g
  BY <1>4, <1>6
<1> QED  BY <1>5, <1>6

LEMMA BindNulls ==
    ASSUME NEW st, NEW p, NEW ops, NEW vals, NEW fns, NEW em, NEW sts,
           From(st, p, ops, vals, fns, em, sts), NullsLast(st, ops, vals),
           BindVariable, Generating'
    PROVE  NullsLeft
<1>1. PICK w : w = {"bind"}
  OBVIOUS
<1>2. Finish(w)
  BY <1>1 DEF BindVariable
<1>3. PICK e : e = st[Len(st)].todo[1]
  OBVIOUS
<1>4. /\ e.do \in {"bind"} /\ GNode = e.node /\ st[Len(st)].todo # <<>>
      /\ Ready(e, p, vals, fns)
  BY <1>1, <1>2, <1>3, WorkFrom
<1>5. /\ st \in Stacks /\ script \in Seq(Nodes) /\ p \in 0 .. Len(script)
      /\ Len(script) \in Nat /\ ValuesAgree(p, vals, fns)
      /\ ops \in Seq(Values) /\ OperandsOK(ops)
  BY FromParts
<1>6. /\ GTop = st[Len(st)] /\ GTable = st[Len(st)].table
      /\ GFunction = FunctionOn(st[Len(st)]) /\ GRest(<<>>) = Instead(st, <<>>)
  BY <1>5, TopOfGenerated DEF From
<1>7. PICK q : q = e.node
  OBVIOUS
<1>8. q \in 1 .. Len(script) /\ script[q].op = "let"
  BY <1>4, <1>5, <1>7 DEF Ready
<1>9. PICK s : s = Variable(GFunction, q, script[q].name)
  OBVIOUS
<1>10. PICK t : t = Top
  OBVIOUS
<1>11. PICK u : u = <<Expr>>
  OBVIOUS
<1>12. PICK r : r = OpenLet(st, q, u)
  OBVIOUS
<1>13. /\ t # Null /\ values' = [values EXCEPT ![GFunction][s] = t]
       /\ operands' = Drop(1)
       /\ gstack' = Append(GRest(<<>>), Frame(GTop.chain, WithSymbol(GTable, s), u))
  BY <1>4, <1>7, <1>9, <1>10, <1>11 DEF BindVariable, Stop, Generating
<1>14. r = gstack'
  BY <1>6, <1>9, <1>12, <1>13 DEF OpenLet
<1>15. PICK a \in Nat : a = 1
  OBVIOUS
<1>16. Takes(e) = a
  BY <1>4, <1>15 DEF Takes
<1>17. a <= Len(ops)
  BY <1>2, <1>3, <1>16, TakenFrom
<1>18. PICK new : new = SubSeq(ops, 1, Len(ops) - a)
  OBVIOUS
<1>19. new = operands'
  BY <1>13, <1>15, <1>18 DEF Drop, From
<1>20. OldOrValues(ops, new)
  BY <1>5, <1>17, <1>18, FewerOperands
<1>21. PICK vals2 : vals2 = values'
  OBVIOUS
<1>22. PICK g : g = GFunction
  OBVIOUS
<1>23. \A f \in Funs : \A v \in locals[f] : vals2[f][v] # Null
  <2>1. vals2 = [vals EXCEPT ![g][s] = t]
    BY <1>13, <1>21, <1>22 DEF From
  <2>2. \A f \in Funs : \A v \in locals[f] : vals[f][v] # Null
    BY DEF NullsLast
  <2> QED  BY <1>5, <1>13, <2>1, <2>2, StoredNulls
<1>24. u \in Seq(Tasks) /\ \A j \in 1 .. Len(u) : u[j] = Expr
  <2>1. PICK x : x = Expr
    OBVIOUS
  <2>2. x \in Tasks
    BY <2>1, ExprTask
  <2> QED  BY <1>11, <2>1, <2>2
<1>25. PICK fr : Opens(st, r, fr) /\ fr.todo = u
  BY <1>4, <1>5, <1>8, <1>12, <1>24, LetOpened
<1>26. \A j \in 1 .. Len(fr.todo) : TailItem(fr.todo[j])
  BY <1>24, <1>25 DEF TailItem, Expr
<1>27. NullsLast(r, new, vals2)
  BY <1>4, <1>5, <1>20, <1>23, <1>25, <1>26, OpenedNulls
<1>28. NoneAdded
  BY <1>19, <1>20 DEF NoneAdded, From
<1> QED  BY <1>14, <1>19, <1>21, <1>27, <1>28 DEF NullsLeft

LEMMA FunctionNulls ==
    ASSUME NEW st, NEW p, NEW ops, NEW vals, NEW fns, NEW em, NEW sts,
           From(st, p, ops, vals, fns, em, sts), NullsLast(st, ops, vals),
           GenerateFunction
    PROVE  NullsLeft
<1>1. PICK w : w = {"fun"}
  OBVIOUS
<1>2. Generate(w)
  BY <1>1 DEF GenerateFunction
<1>3. PICK q : q = p + 1
  OBVIOUS
<1>4. Visits(st, p) /\ GHere = q /\ q \in 1 .. Len(script) /\ script[q].op \in {"fun"}
  BY <1>1, <1>2, <1>3, VisitFrom
<1>5. st \in Stacks /\ script \in Seq(Nodes) /\ p \in Nat
  BY FromParts
<1>6. /\ GTop = st[Len(st)] /\ GTable = st[Len(st)].table
      /\ GFunction = FunctionOn(st[Len(st)]) /\ GRest(<<>>) = Instead(st, <<>>)
  BY <1>5, TopOfGenerated DEF From
<1>7. PICK d : d = Work("define", q)
  OBVIOUS
<1>8. d \in Tasks
  <2>1. "define" \in Doings /\ q \in Nat
    BY <1>3, <1>5 DEF Doings
  <2> QED  BY <1>7, <2>1, WorkTask
<1>9. PICK u : u = <<d, Expr>>
  OBVIOUS
<1>10. u \in Seq(Tasks) /\ Len(u) = 2 /\ u[2] = Expr
  BY <1>8, <1>9, ExprTask, ListTwo
<1>11. PICK r : r = OpenNamed(st, q, u)
  OBVIOUS
<1>12. r = gstack'
  BY <1>4, <1>6, <1>7, <1>9, <1>11 DEF GenerateFunction, OpenNamed
<1>13. st[Len(st)].todo # <<>>
  BY <1>4 DEF Visits
<1>14. PICK fr : Opens(st, r, fr) /\ fr.todo = u
  BY <1>4, <1>5, <1>10, <1>11, <1>13, NamedOpened
<1>15. \A j \in 1 .. Len(fr.todo) :
           \/ TailItem(fr.todo[j])
           \/ \E l \in 1 .. Len(fr.todo) : l > j /\ Waits(fr.todo[l])
  <2>1. \A j \in 1 .. 2 : j = 1 \/ j = 2
    OBVIOUS
  <2>2. TailItem(u[2]) /\ Waits(u[2])
    BY <1>10 DEF TailItem, Waits, Expr
  <2>3. 2 \in 1 .. Len(u) /\ 2 > 1
    BY <1>10
  <2> QED  BY <1>10, <1>14, <2>1, <2>2, <2>3
<1>16. NullsLast(r, ops, vals)
  <2>1. \A f \in Funs : \A v \in locals[f] : vals[f][v] # Null
    BY DEF NullsLast
  <2> QED  BY <1>5, <1>13, <1>14, <1>15, <2>1, SameOperands, OpenedNulls
<1>17. ops = operands' /\ vals = values'
  BY DEF GenerateFunction, From
<1>18. NoneAdded
  BY <1>17, SameOperands DEF NoneAdded, From
<1> QED  BY <1>12, <1>16, <1>17, <1>18 DEF NullsLeft

LEMMA EntryNotNull ==
    ASSUME NEW q \in Nat, NEW vals, NEW v \in locals[q]
    PROVE  Entry(q, vals)[v] # Null
<1>1. Unbound # Null
  BY DEF Unbound, Null, Constant, Value
<1>2. \A t : Value(q, t) # Null
  BY ValueNotNull, FunctionsNotNone
<1>3. \/ Entry(q, vals)[v] = Unbound
      \/ \E t : Entry(q, vals)[v] = Value(q, t)
  BY DEF Entry
<1> QED  BY <1>1, <1>2, <1>3

LEMMA DefineNulls ==
    ASSUME NEW st, NEW p, NEW ops, NEW vals, NEW fns, NEW em, NEW sts,
           From(st, p, ops, vals, fns, em, sts), NullsLast(st, ops, vals),
           DefineFunction
    PROVE  NullsLeft
<1>1. PICK w : w = {"define"}
  OBVIOUS
<1>2. Finish(w)
  BY <1>1 DEF DefineFunction
<1>3. PICK e : e = st[Len(st)].todo[1]
  OBVIOUS
<1>4. /\ e.do \in {"define"} /\ GNode = e.node /\ st[Len(st)].todo # <<>>
      /\ Ready(e, p, vals, fns) /\ insert = FunctionOn(st[Len(st)])
  BY <1>1, <1>2, <1>3, WorkFrom
<1>5. /\ st \in Stacks /\ script \in Seq(Nodes) /\ p \in 0 .. Len(script)
      /\ Len(script) \in Nat /\ ValuesAgree(p, vals, fns)
  BY FromParts
<1>6. /\ GTop = st[Len(st)] /\ GTable = st[Len(st)].table
      /\ GRest(<<>>) = Instead(st, <<>>)
  BY <1>5, TopOfGenerated DEF From
<1>7. PICK q : q = e.node
  OBVIOUS
<1>8. q \in 1 .. Len(script) /\ script[q].op = "fun" /\ q \in Nat
  BY <1>4, <1>5, <1>7 DEF Ready
<1>9. PICK i \in Nat : i = insert
  BY <1>4, InsertFun
<1>10. PICK x : x = Ending(q, i)
  OBVIOUS
<1>11. x \in Tasks
  BY <1>8, <1>9, <1>10, ReturnTask DEF Ending
<1>12. PICK u : u = <<Expr, x>>
  OBVIOUS
<1>13. u \in Seq(Tasks)
  BY <1>11, <1>12, ExprTask, ListTwo
<1>14. PICK r : r = OpenBody(st, q, u)
  OBVIOUS
<1>15. r = gstack'
  BY <1>4, <1>6, <1>7, <1>9, <1>10, <1>12, <1>14 DEF DefineFunction, OpenBody, Ending
<1>16. PICK vals2 : vals2 = [vals EXCEPT ![q] = Entry(q, vals)]
  OBVIOUS
<1>17. vals2 = values'
  BY <1>4, <1>7, <1>16 DEF DefineFunction, Entry, RootTypes, From
<1>18. ASSUME NEW f \in Funs, NEW v \in locals[f] PROVE vals2[f][v] # Null
  <2>1. vals = [g \in Funs |-> vals[g]]
    BY <1>5 DEF ValuesAgree
  <2>2. PICK row : row = Entry(q, vals)
    OBVIOUS
  <2>3. vals2[f] = IF f = q THEN row ELSE vals[f]
    BY <1>16, <2>1, <2>2
  <2>4. f = q => row[v] # Null
    BY <1>8, <2>2, EntryNotNull
  <2>5. vals[f][v] # Null
    BY DEF NullsLast
  <2> QED  BY <2>3, <2>4, <2>5
<1>19. ~ Final(st, Len(st), 1)
  <2>1. ~ TailItem(e)
    BY <1>4, <1>7, <1>8 DEF TailItem
  <2>2. Len(st) \in 1 .. Len(st) /\ st[Len(st)].todo \in Seq(Tasks)
    BY <1>5, TopType
  <2>3. 1 \in 1 .. Len(st[Len(st)].todo)
    BY <1>4, <2>2
  <2>4. TailsOK(st)
    BY DEF NullsLast
  <2> QED  BY <1>3, <2>1, <2>2, <2>3, <2>4 DEF TailsOK
<1>20. PICK fr : Opens(st, r, fr) /\ fr.todo = u
  BY <1>4, <1>5, <1>8, <1>13, <1>14, BodyOpened
<1>21. NullsLast(r, ops, vals2)
  <2>1. OldOrValues(ops, ops)
    BY SameOperands
  <2> QED  BY <1>4, <1>5, <1>18, <1>19, <1>20, <2>1, OpenedNulls
<1>22. ops = operands'
  BY DEF DefineFunction, From
<1>23. NoneAdded
  BY <1>22, SameOperands DEF NoneAdded, From
<1> QED  BY <1>15, <1>17, <1>21, <1>22, <1>23 DEF NullsLeft

LEMMA CloseNulls ==
    ASSUME NEW st, NEW p, NEW ops, NEW vals, NEW fns, NEW em, NEW sts,
           From(st, p, ops, vals, fns, em, sts), NullsLast(st, ops, vals),
           CloseGeneratedFrame, Generating'
    PROVE  NullsLeft
<1>1. st \in Stacks
  BY FromParts
<1>2. /\ Len(gstack) > 1 /\ gstack' = SubSeq(gstack, 1, Len(gstack) - 1)
      /\ UNCHANGED <<operands, values>>
  BY DEF CloseGeneratedFrame, Stop, Generating
<1>3. PICK r : r = SubSeq(st, 1, Len(st) - 1)
  OBVIOUS
<1>4. Len(st) > 1 /\ r = gstack' /\ ops = operands' /\ vals = values'
  BY <1>2, <1>3 DEF From
<1>5. TailsOK(r)
  BY <1>1, <1>3, <1>4, TailsPopped DEF NullsLast
<1>6. Still(st) => Still(r)
  <2>1. PICK n \in Nat : n = Len(st) /\ n >= 1
    BY <1>1, StackType
  <2>2. Len(r) = n - 1 /\ \A i \in 1 .. n - 1 : r[i] = st[i] /\ i \in 1 .. n
    <3>1. st \in Seq(AnyFrames)
      BY <1>1 DEF Stacks
    <3>2. n - 1 \in Nat /\ n - 1 <= n /\ r = SubSeq(st, 1, n - 1)
      BY <1>3, <2>1
    <3>3. Len(r) = n - 1 /\ \A i \in 1 .. n - 1 : r[i] = st[i]
      BY ONLY <2>1, <3>1, <3>2
    <3> QED  BY <2>1, <3>3
  <2> QED  BY <2>1, <2>2 DEF Still
<1>7. NullsLast(r, ops, vals)
  BY <1>5, <1>6 DEF NullsLast
<1>8. NoneAdded
  BY <1>4, SameOperands DEF NoneAdded, From
<1> QED  BY <1>4, <1>7, <1>8 DEF NullsLeft

LEMMA ReturnNulls ==
    ASSUME NEW st, NEW p, NEW ops, NEW vals, NEW fns, NEW em, NEW sts,
           From(st, p, ops, vals, fns, em, sts), NullsLast(st, ops, vals),
           GenerateReturn, Generating'
    PROVE  NullsLeft
<1>1. PICK w : w = {"return"}
  OBVIOUS
<1>2. Generate(w)
  BY <1>1 DEF GenerateReturn
<1>3. /\ p + 1 \in 1 .. Len(script) /\ script[p + 1].op \in {"return"} /\ Visits(st, p)
  BY <1>1, <1>2, VisitFrom
<1>4. /\ st \in Stacks /\ script \in Seq(Nodes) /\ ReadyStack(st, p, vals, fns)
      /\ ops \in Seq(Values)
  BY FromParts
<1>5. gstack' = GRest(<<>>) /\ operands' = Append(operands, Null) /\ values' = values
  BY DEF GenerateReturn, Stop, Generating, Continue
<1>6. PICK r : r = Instead(st, <<>>)
  OBVIOUS
<1>7. r = gstack' /\ vals = values' /\ operands' = Append(ops, Null)
  BY <1>4, <1>5, <1>6, TopOfGenerated DEF From
<1>8. TailsOK(st) /\ st[Len(st)].todo # <<>>
  BY <1>3 DEF NullsLast, Visits
<1>9. TailsOK(r)
  BY <1>4, <1>6, <1>8, TailsDone
<1>10. ReturnsLast => Still(r)
  <2>1. p + 1 \in NodesOf(script, "return")
    BY <1>3, <1>4, LenProperties DEF NodesOf
  <2>2. ReturnsLast => InTail(script, p + 1)
    BY <2>1 DEF ReturnsLast
  <2>3. ReturnsLast => Still(Instead(st, <<>>))
    BY <1>3, <1>4, <1>8, <2>2, LastReturn
  <2> QED  BY <1>6, <2>3
<1>11. PICK new : new = operands'
  OBVIOUS
<1>12. NullsLast(r, new, vals)
  BY <1>9, <1>10 DEF NullsLast
<1>13. NoneAdded
  BY DEF NoneAdded
<1> QED  BY <1>7, <1>11, <1>12, <1>13 DEF NullsLeft

LEMMA GeneratingNulls ==
    ASSUME NEW st, NEW p, NEW ops, NEW vals, NEW fns, NEW em, NEW sts,
           From(st, p, ops, vals, fns, em, sts), NullsLast(st, ops, vals),
           Generating, Codegen, Generating'
    PROVE  NullsLeft
<1>1. ~ BeginCodegen
  BY DEF BeginCodegen, Generating
<1> QED  BY <1>1, ConstantNulls, VariableNulls, OperandsNulls, ExpectNulls, BuildNulls,
         MergeNulls, LetNulls, BindNulls, FunctionNulls, DefineNulls, ReturnedNulls,
         CallNulls, EmitFunctionNulls, EmitIntrinsicNulls, ReturnNulls, CloseNulls
         DEF Codegen

-----------------------------------------------------------------------------
(* The second pass begins without a `return'.                              *)
LEMMA BeginNulls ==
    ASSUME CodegenInit, script \in Seq(Nodes), BeginCodegen
    PROVE  NullsLeft
<1>1. PICK x : x = Expr
  OBVIOUS
<1>2. PICK u : u = <<x>>
  OBVIOUS
<1>3. Len(u) = 1 /\ u[1] = x /\ x.do = "expr"
  BY <1>1, <1>2 DEF Expr
<1>4. PICK r : r = <<Frame(<<0>>, ToplevelTable, u)>>
  OBVIOUS
<1>5. r = gstack' /\ Len(r) = 1 /\ r[1].todo = u
  BY <1>1, <1>2, <1>4 DEF BeginCodegen, Frame
<1>6. TailsOK(r)
  BY <1>3, <1>5 DEF TailsOK, TailItem
<1>7. PICK ops : ops = operands'
  OBVIOUS
<1>8. Len(ops) = 0
  BY <1>7 DEF BeginCodegen, CodegenInit
<1>9. PICK vals : vals = values'
  OBVIOUS
<1>10. ASSUME NEW f \in Funs, NEW v \in locals[f] PROVE vals[f][v] # Null
  <2>1. vals[f][v] = Unbound \/ vals[f][v] = Value(0, TypeOfParam(Inputs, v.name))
    BY <1>9, <1>10 DEF BeginCodegen
  <2>2. Unbound # Null
    BY DEF Unbound, Null, Constant, Value
  <2>3. Value(0, TypeOfParam(Inputs, v.name)) # Null
    BY ValueNotNull, FunctionsNotNone
  <2> QED  BY <2>1, <2>2, <2>3
<1>11. NullsLast(r, ops, vals)
  BY <1>6, <1>8, <1>10 DEF NullsLast
<1>12. NoneAdded
  BY SameOperands DEF NoneAdded, BeginCodegen
<1> QED  BY <1>5, <1>7, <1>9, <1>11, <1>12 DEF NullsLeft

-----------------------------------------------------------------------------
(* Where the NULL of a `return' would be followed, in those programs.      *)
LEMMA TopNotNull ==
    ASSUME NEW st, NEW p, NEW ops, NEW vals, NEW fns, NEW em, NEW sts,
           From(st, p, ops, vals, fns, em, sts), NullsLast(st, ops, vals), ReturnsLast,
           NEW w, Finish(w), w \subseteq {"real", "boolean", "ret"}
    PROVE  Top # Null
<1>1. PICK e : e = st[Len(st)].todo[1]
  OBVIOUS
<1>2. e.do \in w /\ st[Len(st)].todo # <<>>
  BY <1>1, WorkFrom
<1>3. PICK a \in Nat : a = 1
  OBVIOUS
<1>4. Takes(e) = a
  BY <1>2, <1>3 DEF Takes
<1>5. PICK n \in Nat : n = Len(ops)
  BY FromParts
<1>6. a <= Len(ops)
  BY <1>1, <1>4, TakenFrom
<1>7. n \in 1 .. Len(ops)
  BY <1>3, <1>5, <1>6
<1>8. \A k \in 1 .. Len(ops) : ops[k] # Null
  BY <1>2, WorkingOperands, FromParts
<1> QED  BY <1>5, <1>7, <1>8 DEF Top, From

LEMMA ArgumentsNotNull ==
    ASSUME NEW st, NEW p, NEW ops, NEW vals, NEW fns, NEW em, NEW sts,
           From(st, p, ops, vals, fns, em, sts), NullsLast(st, ops, vals), ReturnsLast,
           Finish({"emit"}), NEW a, a = script[GNode].argc, NEW args, args = Taken(a)
    PROVE  \A i \in 1 .. a : args[i] # Null
<1>1. a \in Nat /\ a <= Len(ops)
  BY ArgumentsTaken
<1>2. PICK w : w = {"emit"}
  OBVIOUS
<1>3. Finish(w)
  BY <1>2
<1>4. st[Len(st)].todo # <<>> /\ st \in Stacks /\ ops \in Seq(Values)
  BY <1>3, WorkFrom, FromParts
<1>5. \A k \in 1 .. Len(ops) : ops[k] # Null
  BY <1>4, WorkingOperands
<1>6. PICK n \in Nat : n = Len(ops)
  BY <1>4
<1>7. args = SubSeq(ops, n - a + 1, n)
  BY <1>6 DEF Taken, From
<1> SUFFICES ASSUME NEW i \in 1 .. a PROVE args[i] # Null
  OBVIOUS
<1>8. PICK m \in Nat : m = n - a + 1
  <2>1. a <= n
    BY <1>1, <1>6
  <2> QED  BY <1>1, <2>1
<1>9. m + i - 1 \in 1 .. n /\ n - m + 1 = a
  <2>1. a <= n /\ a \in Nat /\ n \in Nat /\ i \in 1 .. a
    BY <1>1, <1>6
  <2> QED  BY ONLY <1>8, <2>1
<1>10. args[i] = ops[m + i - 1]
  <2>1. \A k \in m .. n : ops[k] \in Values
    <3>1. \A k \in m .. n : k \in 1 .. n
      <4>1. m >= 1
        BY <1>1, <1>6, <1>8
      <4> QED  BY <4>1
    <3> QED  BY <1>4, <1>6, <3>1
  <2>2. args = SubSeq(ops, m, n)
    BY ONLY <1>7, <1>8
  <2>3. m \in Nat /\ n \in Nat
    BY <1>8
  <2>4. \A k \in 1 .. n - m + 1 : args[k] = ops[m + k - 1]
    BY ONLY <2>1, <2>2, <2>3, SubSeqProperties
  <2> QED  BY <1>9, <2>4
<1>11. m + i - 1 \in 1 .. Len(ops)
  BY <1>6, <1>9
<1> QED  BY <1>5, <1>10, <1>11

LEMMA CheckedNotNull ==
    ASSUME NEW args, NEW types, NEW n \in Nat, DOMAIN types = 1 .. n,
           \A i \in 1 .. n : args[i] # Null, Generating,
           NEW s, NEW as, NEW extra, NEW ret, NEW error, error # "crashed",
           CheckArguments(args, types, error, Emit(s, as, extra, ret))
    PROVE  status' # "crashed"
<1>1. PICK bad : bad = {i \in DOMAIN types : args[i].type # types[i]}
  OBVIOUS
<1>2. PICK first : first = CHOOSE i \in bad : \A j \in bad : i <= j
  OBVIOUS
<1>3. IF bad = {} THEN Emit(s, as, extra, ret)
      ELSE Stop(IF args[first] = Null THEN "crashed" ELSE error)
  BY <1>1, <1>2 DEF CheckArguments
<1>4. CASE bad = {}
  BY <1>3, <1>4 DEF Emit, Continue, Generating
<1>5. CASE bad # {}
  <2>1. bad \subseteq Nat /\ bad \subseteq 1 .. n
    BY <1>1
  <2>2. \E i \in bad : \A j \in bad : i <= j
    BY <1>5, <2>1, LeastNumber
  <2>3. first \in 1 .. n
    BY <1>2, <2>1, <2>2
  <2>4. Stop(error)
    BY <1>3, <1>5, <2>3
  <2> QED  BY <2>4 DEF Stop
<1> QED  BY <1>4, <1>5

LEMMA FormalsDomain ==
    ASSUME NEW st, NEW p, NEW ops, NEW vals, NEW fns, NEW em, NEW sts,
           From(st, p, ops, vals, fns, em, sts), Finish({"emit"}),
           NEW q, q = GNode, refs[q].kind \in {"fun", "callable"}
    PROVE  DOMAIN Formals(refs[q]) = 1 .. script[q].argc /\ script[q].argc \in Nat
<1>1. Len(Formals(refs[q])) = script[q].argc /\ script[q].argc \in Nat
  BY EmittedItem
<1>2. Formals(refs[q]) \in Seq(Types)
  <2>1. CASE refs[q].kind = "fun"
    <3>1. PICK f : f = refs[q].node
      OBVIOUS
    <3>2. f \in Funs /\ fns[f] # NotCreated /\ f \in 1 .. Len(script)
      BY <2>1, <3>1, CalleeFrom
    <3>3. FunctionAgrees(f, p, vals, fns)
      BY <3>2, FromParts DEF FunctionsAgree
    <3>4. script[f] \in Nodes /\ script[f].op = "fun"
      BY <3>2, <3>3, FromParts, NodeAt DEF FunctionAgrees
    <3>5. script[f].params \in Seq(Params)
      BY <3>4, NodeFields
    <3>6. ParamTypes(script[f].params) \in Seq(Types)
      BY <3>5, ParamTypesType
    <3> QED  BY <2>1, <3>1, <3>6 DEF Formals
  <2>2. CASE refs[q].kind = "callable"
    <3>1. refs[q].name \in GlobalCalls
      BY <2>2, CalleeFrom
    <3>2. Signature[refs[q].name].params \in Seq(Types)
      BY <3>1, SignatureAssumption
    <3> QED  BY <2>2, <3>2 DEF Formals
  <2> QED  BY <2>1, <2>2
<1> QED  BY <1>1, <1>2, LenProperties

LEMMA CrashingReturn ==
    ASSUME NEW st, NEW p, NEW ops, NEW vals, NEW fns, NEW em, NEW sts,
           From(st, p, ops, vals, fns, em, sts), NullsLast(st, ops, vals), ReturnsLast,
           Generating, Codegen, status' = "crashed"
    PROVE  GenerateReturn
<1> USE DEF Generating
<1>1. CASE \/ GenerateConstant \/ GenerateVariable \/ GenerateOperands \/ BuildVector
           \/ GenerateLet \/ GenerateFunction \/ DefineFunction \/ BeginCodegen
           \/ MergeBranches \/ BindVariable \/ GenerateCall \/ CloseGeneratedFrame
  BY <1>1 DEF GenerateConstant, GenerateVariable, GenerateOperands, BuildVector,
     GenerateLet, GenerateFunction, DefineFunction, BeginCodegen,
     MergeBranches, BindVariable, GenerateCall, CloseGeneratedFrame, Continue, Stop
<1>2. CASE ExpectType
  <2>1. PICK w : w = {"real", "boolean"}
    OBVIOUS
  <2>2. Finish(w) /\ w \subseteq {"real", "boolean", "ret"}
    BY <1>2, <2>1 DEF ExpectType
  <2>3. Top # Null
    BY <2>2, TopNotNull
  <2> QED  BY <1>2, <2>3 DEF ExpectType, Continue, Stop
<1>3. CASE ReturnValue
  <2>1. PICK w : w = {"ret"}
    OBVIOUS
  <2>2. Finish(w) /\ w \subseteq {"real", "boolean", "ret"}
    BY <1>3, <2>1 DEF ReturnValue
  <2>3. Top # Null
    BY <2>2, TopNotNull
  <2> QED  BY <1>3, <2>3 DEF ReturnValue, Continue, Stop
<1>4. ASSUME NEW q, q = GNode, Finish({"emit"}), refs[q].kind \in {"fun", "callable"},
             NEW args, args = Taken(script[GNode].argc), NEW extra, NEW ret,
             NEW error, error # "crashed",
             CheckArguments(args, Formals(refs[q]), error,
                            Emit(refs[q], args, extra, ret))
      PROVE  FALSE
  <2>1. PICK a : a = script[GNode].argc
    OBVIOUS
  <2>2. \A i \in 1 .. a : args[i] # Null
    BY <1>4, <2>1, ArgumentsNotNull
  <2>3. PICK types : types = Formals(refs[q])
    OBVIOUS
  <2>4. DOMAIN types = 1 .. a /\ a \in Nat
    BY <1>4, <2>1, <2>3, FormalsDomain
  <2>5. PICK s : s = refs[q]
    OBVIOUS
  <2>6. CheckArguments(args, types, error, Emit(s, args, extra, ret))
    BY <1>4, <2>3, <2>5
  <2>7. error # "crashed"
    BY <1>4
  <2>8. status' # "crashed"
    BY <2>2, <2>4, <2>6, <2>7, CheckedNotNull
  <2> QED  BY <2>8
<1>5. PICK q : q = GNode
  OBVIOUS
<1>6. PICK args : args = Taken(script[GNode].argc)
  OBVIOUS
<1>7. CASE EmitIntrinsicCall
  <2>1. PICK extra : extra = <<>>
    OBVIOUS
  <2>2. PICK ret : ret = Signature[refs[q].name].ret
    OBVIOUS
  <2>3. PICK error : error = Signature[refs[q].name].wrong
    OBVIOUS
  <2>4. /\ Finish({"emit"}) /\ refs[q].kind = "callable"
        /\ \/ CheckArguments(args, Formals(refs[q]), error,
                             Emit(refs[q], args, extra, ret))
           \/ EmitUnchecked(refs[q], args)
           \/ Stop("refused") \/ Stop("failed")
    BY <1>5, <1>6, <1>7, <2>1, <2>2, <2>3 DEF EmitIntrinsicCall
  <2>5. error # "crashed"
    <3>1. refs[q].name \in GlobalCalls
      BY <1>5, <2>4, CalleeFrom
    <3> QED  BY <2>3, <3>1, SignatureAssumption
  <2>6. ~ EmitUnchecked(refs[q], args)
    <3>1. PICK a : a = script[GNode].argc
      OBVIOUS
    <3>2. \A i \in 1 .. a : args[i] # Null
      BY <1>6, <2>4, <3>1, ArgumentsNotNull
    <3>3. a \in Nat /\ args \in Seq(Values) /\ Len(args) = a
      BY <1>6, <2>4, <3>1, ArgumentsTaken
    <3>4. Null \notin {args[i] : i \in DOMAIN args}
      BY <3>2, <3>3
    <3> QED  BY <3>4 DEF EmitUnchecked, Emit, Continue
  <2>7. ~ Stop("refused") /\ ~ Stop("failed")
    BY DEF Stop
  <2> QED  BY <1>4, <1>5, <1>6, <2>4, <2>5, <2>6, <2>7
<1>8. CASE EmitFunctionCall
  <2>1. PICK f : f = refs[q].node
    OBVIOUS
  <2>2. PICK extra : extra = [v \in Upvalues(f) |-> values[GFunction][v]]
    OBVIOUS
  <2>3. PICK ret : ret = script[f].ret
    OBVIOUS
  <2>4. Finish({"emit"}) /\ refs[q].kind = "fun"
    BY <1>5, <1>8 DEF EmitFunctionCall
  <2>5. \/ CheckArguments(args, Formals(refs[q]), "type mismatch",
                          Emit(refs[q], args, extra, ret))
        \/ Stop("aborted")
    BY <1>5, <1>6, <1>8, <2>1, <2>2, <2>3 DEF EmitFunctionCall
  <2>6. ~ Stop("aborted")
    BY DEF Stop
  <2> QED  BY <1>4, <1>5, <1>6, <2>4, <2>5, <2>6
<1> QED  BY <1>1, <1>2, <1>3, <1>7, <1>8 DEF Codegen

\* The `return' at p finds an output that is named like a function.
NamedLikeFunction(p) ==
    /\ p \in NodesOf(script, "return")
    /\ \E i \in DOMAIN Outputs : ValueAt(script, p, i).kind \in {"fun", "callable"}

LEMMA CrashingOutput ==
    ASSUME NEW st, NEW p, NEW ops, NEW vals, NEW fns, NEW em, NEW sts,
           From(st, p, ops, vals, fns, em, sts), Generating, GenerateReturn,
           status' = "crashed"
    PROVE  gpos' = p + 1 /\ NamedLikeFunction(p + 1)
<1>1. PICK w : w = {"return"}
  OBVIOUS
<1>2. Generate(w)
  BY <1>1 DEF GenerateReturn
<1>3. PICK q : q = p + 1
  OBVIOUS
<1>4. /\ gpos' = q /\ q \in 1 .. Len(script) /\ Reached(q) /\ script[q].op \in {"return"}
  BY <1>1, <1>2, <1>3, VisitFrom
<1>5. PICK sc : sc = ScopeAt(q)
  OBVIOUS
<1>6. sc.table = GTable
  BY <1>2, <1>3, <1>5, SeenFrom
<1>7. PICK found : found = [i \in DOMAIN Outputs |-> GTable[Outputs[i].name]]
  OBVIOUS
<1>8. PICK bad : bad = {i \in DOMAIN Outputs : ~ IsValued(found[i])}
  OBVIOUS
<1>9. PICK first : first = CHOOSE i \in bad : \A j \in bad : i <= j
  OBVIOUS
<1>10. bad # {} /\ found[first].kind # "none"
  BY <1>7, <1>8, <1>9 DEF GenerateReturn, Continue, Stop, Generating
<1>11. first \in bad
  <2>1. DOMAIN Outputs = 1 .. Len(Outputs) /\ Len(Outputs) \in Nat
    BY OutputsAssumption, LenProperties
  <2>2. bad \subseteq Nat
    BY <1>8, <2>1
  <2>3. \E i \in bad : \A j \in bad : i <= j
    BY <1>10, <2>2, LeastNumber
  <2> QED  BY <1>9, <2>3
<1>12. PICK x : x = Outputs[first].name
  OBVIOUS
<1>13. x \in Names /\ first \in DOMAIN Outputs
  <2>1. first \in DOMAIN Outputs
    BY <1>8, <1>11
  <2>2. Outputs[first] \in Params
    BY <2>1, OutputsAssumption
  <2> QED  BY <1>12, <2>1, <2>2 DEF Params
<1>14. found[first] = sc.table[x]
  BY <1>6, <1>7, <1>12, <1>13
<1>15. script \in Seq(Nodes) /\ st \in Stacks
  BY FromParts
<1>16. sc.table[x] = Denotes(script, q, x)
  BY <1>4, <1>5, <1>13, <1>15, ScopeLexical
<1>17. sc.table[x].kind \in Kinds
  <2>1. sc.table \in Tables
    BY <1>6, <1>15, TopOfGenerated, TopType DEF From
  <2> QED  BY <1>13, <2>1 DEF Tables, Symbols
<1>18. sc.table[x].kind \in {"fun", "callable"}
  <2>1. ~ IsValued(found[first])
    BY <1>8, <1>11
  <2> QED  BY <1>10, <1>14, <1>17, <2>1 DEF IsValued, Kinds
<1>19. q \in NodesOf(script, "return")
  BY <1>4, <1>15, LenProperties DEF NodesOf
<1>20. NamedLikeFunction(q)
  BY <1>12, <1>13, <1>16, <1>18, <1>19 DEF NamedLikeFunction, ValueAt
<1> QED  BY <1>3, <1>4, <1>20

(* The inductive invariant of the second pass, with BothPasses.            *)
NullsOnlyLast ==
    /\ Generating => NullsLast(gstack, operands, values)
    /\ CrashesOnlyOnReturn

LEMMA CrashesMeans ==
    CrashesOnlyOnReturn
        <=> (status = "crashed" /\ ReturnsLast => NamedLikeFunction(gpos))
BY DEF CrashesOnlyOnReturn, ReturnsLast, NamedLikeFunction

LEMMA NamedFixed ==
    ASSUME Kept
    PROVE  \A p : NamedLikeFunction(p)' <=> NamedLikeFunction(p)
BY DEF Kept, NamedLikeFunction

LEMMA CrashesMeansLater ==
    ASSUME Kept, NEW p, p = gpos',
           status' = "crashed" /\ ReturnsLast => NamedLikeFunction(p)
    PROVE  CrashesOnlyOnReturn'
<1>1. ReturnsLast' <=> ReturnsLast
  BY NullsFixed
<1>2. NamedLikeFunction(p)' <=> NamedLikeFunction(p)
  BY NamedFixed
<1>3. (status = "crashed" /\ ReturnsLast => NamedLikeFunction(gpos))'
  BY <1>1, <1>2
<1> QED  BY <1>3, CrashesMeans, PTL

LEMMA NullsThen ==
    ASSUME Kept, NullsLeft
    PROVE  NullsLast(gstack, operands, values)'
<1>1. PICK st : st = gstack'
  OBVIOUS
<1>2. PICK ops : ops = operands'
  OBVIOUS
<1>3. PICK vals : vals = values'
  OBVIOUS
<1>4. NullsLast(st, ops, vals)
  BY <1>1, <1>2, <1>3 DEF NullsLeft
<1>5. NullsLast(st, ops, vals)'
  BY <1>4, NullsFixed
<1> QED  BY <1>1, <1>2, <1>3, <1>5

LEMMA GeneratingNullsStay ==
    ASSUME BothPasses, Inserting, Generating, Codegen, NullsOnlyLast,
           UNCHANGED <<script, pos, stack, parent, locals, refs, climb>>
    PROVE  NullsOnlyLast'
<1>1. Kept
  BY DEF Kept
<1>2. /\ HandedOver
      /\ GeneratedSo(gstack, gpos, operands, values, llvm, emitted, stores)
  BY DEF BothPasses, Generated
<1>3. PICK st : st = gstack
  OBVIOUS
<1>4. PICK p : p = gpos
  OBVIOUS
<1>5. PICK ops : ops = operands
  OBVIOUS
<1>6. PICK vals : vals = values
  OBVIOUS
<1>7. PICK fns : fns = llvm
  OBVIOUS
<1>8. PICK em : em = emitted
  OBVIOUS
<1>9. PICK sts : sts = stores
  OBVIOUS
<1>10. From(st, p, ops, vals, fns, em, sts)
  BY <1>1, <1>2, <1>3, <1>4, <1>5, <1>6, <1>7, <1>8, <1>9 DEF From
<1>11. NullsLast(st, ops, vals)
  BY <1>3, <1>5, <1>6 DEF NullsOnlyLast
<1>12. CASE status' = "generating"
  <2>1. NullsLeft
    BY <1>10, <1>11, <1>12, GeneratingNulls DEF Generating
  <2>2. NullsLast(gstack, operands, values)'
    BY <1>1, <2>1, NullsThen
  <2>3. CrashesOnlyOnReturn'
    BY <1>12 DEF CrashesOnlyOnReturn
  <2> QED  BY <2>2, <2>3 DEF NullsOnlyLast
<1>13. CASE status' # "generating"
  <2>1. ASSUME status' = "crashed", ReturnsLast
        PROVE  gpos' = p + 1 /\ NamedLikeFunction(p + 1)
    <3>1. GenerateReturn
      BY <1>10, <1>11, <2>1, CrashingReturn
    <3> QED  BY <1>10, <2>1, <3>1, CrashingOutput
  <2>2. PICK q : q = gpos'
    OBVIOUS
  <2>3. status' = "crashed" /\ ReturnsLast => NamedLikeFunction(q)
    BY <2>1, <2>2
  <2>4. CrashesOnlyOnReturn'
    BY <1>1, <2>2, <2>3, CrashesMeansLater
  <2> QED  BY <1>13, <2>4 DEF NullsOnlyLast, Generating
<1> QED  BY <1>12, <1>13

LEMMA NullsStay ==
    BothPasses /\ Inserting /\ NullsOnlyLast /\ [Compile]_vars => NullsOnlyLast'
<1> SUFFICES ASSUME BothPasses, Inserting, NullsOnlyLast, [Compile]_vars PROVE NullsOnlyLast'
  OBVIOUS
<1>1. CASE Next /\ UNCHANGED gvars
  <2>1. status = "resolving" /\ status' # "generating"
    BY <1>1, ResolvingPreserves
  <2>2. status' # "crashed"
    BY <1>1, <2>1 DEF Next, ResolveOperands, ResolveVariable, ResolveReturn, ResolveLet,
          EnterLet, ResolveFunction, EnterBody, ResolveCall, ImportUpvalues,
          CloseFrame, ImportFound, ImportFromParent, Throw
  <2> QED  BY <2>1, <2>2 DEF NullsOnlyLast, Generating, CrashesOnlyOnReturn
<1>2. CASE BeginCodegen /\ UNCHANGED <<script, pos, stack, parent, locals, refs, climb>>
  <2>1. status = "resolved" /\ status' = "generating" /\ Kept
    BY <1>2 DEF BeginCodegen, Kept
  <2>2. CodegenInit /\ script \in Seq(Nodes)
    BY <2>1 DEF BothPasses, Inserting
  <2>3. NullsLeft
    BY <1>2, <2>2, BeginNulls
  <2>4. NullsLast(gstack, operands, values)'
    BY <2>1, <2>3, NullsThen
  <2>5. CrashesOnlyOnReturn'
    BY <2>1 DEF CrashesOnlyOnReturn
  <2> QED  BY <2>4, <2>5 DEF NullsOnlyLast
<1>3. CASE /\ Codegen /\ ~ BeginCodegen
           /\ UNCHANGED <<script, pos, stack, parent, locals, refs, climb>>
  <2>1. Generating
    BY <1>3 DEF Codegen, GenerateConstant, GenerateVariable, GenerateOperands,
       ExpectType, BuildVector, MergeBranches, GenerateLet, BindVariable,
       GenerateFunction, DefineFunction, ReturnValue, GenerateCall, EmitFunctionCall,
       EmitIntrinsicCall, GenerateReturn, CloseGeneratedFrame, Generate, Finish
  <2> QED  BY <1>3, <2>1, GeneratingNullsStay
<1>4. CASE UNCHANGED vars
  <2>1. UNCHANGED rvars /\ UNCHANGED gvars
    BY <1>4 DEF vars
  <2>2. /\ status' = status /\ gpos' = gpos /\ gstack' = gstack /\ operands' = operands
        /\ values' = values /\ Kept
    BY <2>1 DEF rvars, gvars, Kept
  <2>3. Generating' => NullsLast(gstack, operands, values)'
    <3>1. ASSUME Generating' PROVE NullsLeft
      <4>1. NullsLast(gstack, operands, values)
        BY <2>2, <3>1 DEF Generating, NullsOnlyLast
      <4>2. NoneAdded
        BY <2>2, SameOperands DEF NoneAdded
      <4> QED  BY <2>2, <4>1, <4>2 DEF NullsLeft
    <3> QED  BY <2>2, <3>1, NullsThen
  <2>4. CrashesOnlyOnReturn'
    <3>1. PICK p : p = gpos
      OBVIOUS
    <3>2. CrashesOnlyOnReturn
      BY DEF NullsOnlyLast
    <3>3. status' = "crashed" /\ ReturnsLast => NamedLikeFunction(p)
      BY <2>2, <3>1, <3>2, CrashesMeans
    <3> QED  BY <2>2, <3>1, <3>3, CrashesMeansLater
  <2> QED  BY <2>3, <2>4 DEF NullsOnlyLast
<1> QED  BY <1>1, <1>2, <1>3, <1>4 DEF Compile

(* The null pointer of a `return' is followed only in a program where a    *)
(* `return' is not the end of the toplevel code, or at a `return' that     *)
(* finds an output named like a function, whatever the program.            *)
THEOREM CrashesAreReturns == CompileSpec => []CrashesOnlyOnReturn
<1>1. CompileInit => NullsOnlyLast
  BY DEF CompileInit, Init, NullsOnlyLast, Generating, CrashesOnlyOnReturn
<1>2. BothPasses /\ Inserting /\ NullsOnlyLast /\ [Compile]_vars => NullsOnlyLast'
  BY NullsStay
<1>3. NullsOnlyLast => CrashesOnlyOnReturn
  BY DEF NullsOnlyLast
<1> QED  BY <1>1, <1>2, <1>3, PassesAgree, FramesInsert, PTL DEF CompileSpec

-----------------------------------------------------------------------------
(* The types of what is stored.  A variable of the toplevel code has the   *)
(* type that it was declared with, and once there is the NULL of a         *)
(* `return' the stores are those of the outputs' types.                    *)
DeclaredOK(vals) ==
    \A v \in locals[0] :
        Bound(vals, 0, v) => TypeGiven(script, v) \in {Infer, vals[0][v].type}

StoresOK(ops, sts) ==
    OutputsTyped(script) /\ (\E k \in 1 .. Len(ops) : ops[k] = Null)
        => sts = ParamTypes(Outputs)

StoresSound == Generating => DeclaredOK(values) /\ StoresOK(operands, stores)

LEMMA StoresFixed ==
    ASSUME Kept
    PROVE  /\ \A vals : DeclaredOK(vals)' <=> DeclaredOK(vals)
           /\ \A ops, sts : StoresOK(ops, sts)' <=> StoresOK(ops, sts)
<1>1. script' = script /\ locals' = locals
  BY DEF Kept
<1>2. \A v : TypeGiven(script, v)' = TypeGiven(script, v)
  BY <1>1
<1>3. \A vals : DeclaredOK(vals)' <=> DeclaredOK(vals)
  BY <1>1, <1>2 DEF DeclaredOK, Bound
<1>4. OutputsTyped(script)' <=> OutputsTyped(script)
  BY <1>1
<1>5. \A ops, sts : StoresOK(ops, sts)' <=> StoresOK(ops, sts)
  BY <1>4 DEF StoresOK, Null, Constant, Value, ParamTypes
<1> QED  BY <1>3, <1>5

DeclaredLeft == \A vals : vals = values' => DeclaredOK(vals)
StoresLeft == \A ops, sts : ops = operands' /\ sts = stores' => StoresOK(ops, sts)

LEMMA StoresThen ==
    ASSUME Kept, DeclaredLeft, StoresLeft
    PROVE  (DeclaredOK(values) /\ StoresOK(operands, stores))'
<1>1. PICK vals : vals = values'
  OBVIOUS
<1>2. PICK ops : ops = operands'
  OBVIOUS
<1>3. PICK sts : sts = stores'
  OBVIOUS
<1>4. DeclaredOK(vals) /\ StoresOK(ops, sts)
  BY <1>1, <1>2, <1>3 DEF DeclaredLeft, StoresLeft
<1>5. DeclaredOK(vals)' /\ StoresOK(ops, sts)'
  BY <1>4, StoresFixed
<1> QED  BY <1>1, <1>2, <1>3, <1>5

LEMMA BindDeclared ==
    ASSUME NEW st, NEW p, NEW ops, NEW vals, NEW fns, NEW em, NEW sts,
           From(st, p, ops, vals, fns, em, sts), DeclaredOK(vals),
           BindVariable, Generating'
    PROVE  DeclaredLeft
<1>1. PICK w : w = {"bind"}
  OBVIOUS
<1>2. Finish(w)
  BY <1>1 DEF BindVariable
<1>3. PICK q : q = GNode
  OBVIOUS
<1>4. q \in 1 .. Len(script)
  <2>1. PICK e : e = st[Len(st)].todo[1]
    OBVIOUS
  <2>2. e.do \in {"bind"} /\ GNode = e.node /\ Ready(e, p, vals, fns)
    BY <1>1, <1>2, <2>1, WorkFrom
  <2>3. p \in 0 .. Len(script) /\ Len(script) \in Nat
    BY FromParts
  <2> QED  BY <1>3, <2>2, <2>3 DEF Ready
<1>5. PICK s : s = Variable(GFunction, q, script[q].name)
  OBVIOUS
<1>6. PICK t : t = Top
  OBVIOUS
<1>7. PICK g : g = GFunction
  OBVIOUS
<1>8. /\ script[q].type \in {Infer, t.type}
      /\ values' = [vals EXCEPT ![g][s] = t]
  BY <1>3, <1>5, <1>6, <1>7 DEF BindVariable, Stop, Generating, From
<1>9. TypeGiven(script, s) = script[q].type
  BY <1>4, <1>5 DEF Variable, TypeGiven
<1>10. PICK row : row = [vals[g] EXCEPT ![s] = t]
  OBVIOUS
<1>11. PICK vals2 : vals2 = values'
  OBVIOUS
<1>12. vals = [f \in Funs |-> vals[f]] /\ vals[0] \in [locals[0] -> Values] /\ 0 \in Funs
  BY FromParts DEF ValuesAgree, Funs
<1>13. vals2[0] = IF g = 0 THEN row ELSE vals[0]
  <2>1. vals2 = [vals EXCEPT ![g] = row]
    BY <1>8, <1>10, <1>11
  <2> QED  BY <1>12, <2>1
<1>14. ASSUME NEW v \in locals[0], Bound(vals2, 0, v)
       PROVE  TypeGiven(script, v) \in {Infer, vals2[0][v].type}
  <2>1. CASE g = 0 /\ v = s
    <3>1. vals2[0][v] = t
      BY <1>10, <1>12, <1>13, <2>1
    <3> QED  BY <1>8, <1>9, <2>1, <3>1
  <2>2. CASE ~ (g = 0 /\ v = s)
    <3>1. vals2[0][v] = vals[0][v]
      BY <1>10, <1>12, <1>13, <2>2
    <3>2. Bound(vals, 0, v)
      BY <1>14, <3>1 DEF Bound
    <3>3. TypeGiven(script, v) \in {Infer, vals[0][v].type}
      BY <3>2 DEF DeclaredOK
    <3> QED  BY <3>1, <3>3
  <2> QED  BY <2>1, <2>2
<1>15. DeclaredOK(vals2)
  BY <1>14 DEF DeclaredOK
<1> QED  BY <1>11, <1>15 DEF DeclaredLeft

LEMMA DefineDeclared ==
    ASSUME NEW st, NEW p, NEW ops, NEW vals, NEW fns, NEW em, NEW sts,
           From(st, p, ops, vals, fns, em, sts), DeclaredOK(vals), DefineFunction
    PROVE  DeclaredLeft
<1>1. PICK w : w = {"define"}
  OBVIOUS
<1>2. Finish(w)
  BY <1>1 DEF DefineFunction
<1>3. PICK q : q = GNode
  OBVIOUS
<1>4. q \in 1 .. Len(script)
  <2>1. PICK e : e = st[Len(st)].todo[1]
    OBVIOUS
  <2>2. e.do \in {"define"} /\ GNode = e.node /\ Ready(e, p, vals, fns)
    BY <1>1, <1>2, <2>1, WorkFrom
  <2>3. p \in 0 .. Len(script) /\ Len(script) \in Nat
    BY FromParts
  <2> QED  BY <1>3, <2>2, <2>3 DEF Ready
<1>5. PICK vals2 : vals2 = values'
  OBVIOUS
<1>6. PICK row : row = Entry(q, vals)
  OBVIOUS
<1>7. vals2 = [vals EXCEPT ![q] = row]
  BY <1>3, <1>5, <1>6 DEF DefineFunction, Entry, RootTypes, From
<1>8. vals = [f \in Funs |-> vals[f]] /\ 0 \in Funs
  BY FromParts DEF ValuesAgree, Funs
<1>9. vals2[0] = vals[0]
  BY <1>4, <1>7, <1>8
<1>10. DeclaredOK(vals2)
  BY <1>9 DEF DeclaredOK, Bound
<1> QED  BY <1>5, <1>10 DEF DeclaredLeft

LEMMA DeclaredStays ==
    ASSUME NEW st, NEW p, NEW ops, NEW vals, NEW fns, NEW em, NEW sts,
           From(st, p, ops, vals, fns, em, sts), DeclaredOK(vals),
           Generating, Codegen, Generating'
    PROVE  DeclaredLeft
<1>1. CASE BindVariable
  BY <1>1, BindDeclared
<1>2. CASE DefineFunction
  BY <1>2, DefineDeclared
<1>3. CASE ~ (BindVariable \/ DefineFunction)
  <2>1. \A s, args, extra, ret : Emit(s, args, extra, ret) => values' = values
    BY DEF Emit
  <2>2. EmitIntrinsicCall \/ EmitFunctionCall => values' = values
    BY <2>1 DEF EmitIntrinsicCall, EmitUnchecked, EmitFunctionCall, CheckArguments, Stop
  <2>3. values' = values
    BY <1>3, <2>2
    DEF Generating, Codegen, BeginCodegen, GenerateConstant, GenerateVariable,
        GenerateOperands, ExpectType, BuildVector, MergeBranches, GenerateLet,
        GenerateFunction, ReturnValue, GenerateCall, GenerateReturn,
        CloseGeneratedFrame, Stop
  <2> QED  BY <2>3 DEF DeclaredLeft, From
<1> QED  BY <1>1, <1>2, <1>3

LEMMA ReturnStored ==
    ASSUME NEW st, NEW p, NEW ops, NEW vals, NEW fns, NEW em, NEW sts,
           From(st, p, ops, vals, fns, em, sts), DeclaredOK(vals),
           GenerateReturn, Generating', OutputsTyped(script)
    PROVE  stores' = ParamTypes(Outputs)
<1>1. Generate({"return"})
  BY DEF GenerateReturn
<1>2. PICK q : q = p + 1
  OBVIOUS
<1>3. q \in 1 .. Len(script) /\ Reached(q)
      /\ script[q] \in Nodes /\ script[q].op \in {"return"}
  BY <1>1, <1>2, VisitFrom
<1>4. PICK sc : sc = ScopeAt(q)
  OBVIOUS
<1>5. /\ VariablesSettled(sc, vals, fns)
      /\ Records(sc, script[q], q, locals, refs[q], <<>>)
      /\ sc.table = GTable
      /\ \A x \in Names : sc.table[x].kind = "var" => sc.table[x] \in sc.seen
  BY <1>1, <1>2, <1>4, SeenFrom
<1>6. HandedOver /\ script \in Seq(Nodes)
  BY FromParts
<1>7. q \in NodesOf(script, "return")
  BY <1>3, <1>6, LenProperties DEF NodesOf
<1>8. \A x \in Names : sc.table[x] = Denotes(script, q, x)
  BY <1>3, <1>4, <1>6, ScopeLexical
<1>9. /\ \A i \in DOMAIN Outputs : IsValued(GTable[Outputs[i].name])
      /\ stores' = [i \in DOMAIN Outputs |->
             IF GTable[Outputs[i].name].kind = "var"
             THEN values[0][GTable[Outputs[i].name]].type ELSE "real"]
  BY DEF GenerateReturn, Stop, Generating, Continue
<1>10. ASSUME NEW i \in DOMAIN Outputs
       PROVE  (IF GTable[Outputs[i].name].kind = "var"
               THEN values[0][GTable[Outputs[i].name]].type ELSE "real") = Outputs[i].type
  <2>1. Outputs[i] \in Params
    BY OutputsAssumption
  <2>2. Outputs[i].name \in Names /\ Outputs[i].type \in Types
    BY <2>1 DEF Params
  <2>3. PICK s : s = sc.table[Outputs[i].name]
    OBVIOUS
  <2>4. s = ValueAt(script, q, i) /\ s = GTable[Outputs[i].name]
    BY <1>5, <1>8, <2>2, <2>3 DEF ValueAt
  <2>5. Fits(script, s, Outputs[i].type)
    BY <1>7, <2>4 DEF OutputsTyped
  <2>6. s.kind \in {"var", "value"}
    BY <1>9, <2>4 DEF IsValued
  <2>7. CASE s.kind = "var"
    <3>1. s \in sc.seen
      BY <1>5, <2>2, <2>3, <2>7
    <3>2. s.fn = 0 /\ s \in locals[0] /\ Bound(vals, 0, s)
      BY <1>1, <1>2, <1>3, <1>4, <3>1, SeenAtReturn
    <3>3. TypeGiven(script, s) \in {Infer, vals[0][s].type}
      BY <3>2 DEF DeclaredOK
    <3>4. TypeGiven(script, s) = Outputs[i].type
      BY <2>5, <2>7 DEF Fits
    <3>5. Outputs[i].type # Infer
      BY <2>2 DEF Types, Infer
    <3>6. vals[0][s].type = Outputs[i].type
      BY <3>3, <3>4, <3>5
    <3> QED  BY <2>4, <2>7, <3>6 DEF From
  <2>8. CASE s.kind = "value"
    <3>1. Outputs[i].type = "real"
      BY <2>5, <2>8 DEF Fits
    <3> QED  BY <2>4, <2>8, <3>1
  <2> QED  BY <2>6, <2>7, <2>8
<1> QED  BY <1>9, <1>10 DEF ParamTypes

LEMMA StoresStep ==
    ASSUME NEW st, NEW p, NEW ops, NEW vals, NEW fns, NEW em, NEW sts,
           From(st, p, ops, vals, fns, em, sts), NullsLast(st, ops, vals),
           DeclaredOK(vals), StoresOK(ops, sts), Generating, Codegen, Generating'
    PROVE  StoresLeft
<1> SUFFICES ASSUME NEW new, new = operands', NEW sts2, sts2 = stores',
                    OutputsTyped(script), NEW k \in 1 .. Len(new), new[k] = Null
             PROVE  sts2 = ParamTypes(Outputs)
  BY DEF StoresLeft, StoresOK
<1>1. CASE GenerateReturn
  BY <1>1, ReturnStored
<1>2. CASE ~ GenerateReturn
  <2>1. NoneAdded
    BY GeneratingNulls DEF NullsLeft
  <2>2. OldOrValues(ops, new)
    BY <1>2, <2>1 DEF NoneAdded, From
  <2>3. PICK i \in 1 .. Len(ops) : new[k] = ops[i]
    BY <2>2 DEF OldOrValues
  <2>4. sts = ParamTypes(Outputs)
    BY <2>3 DEF StoresOK
  <2>5. \A s, args, extra, ret : Emit(s, args, extra, ret) => stores' = stores
    BY DEF Emit
  <2>6. EmitIntrinsicCall \/ EmitFunctionCall => stores' = stores
    BY <2>5 DEF EmitIntrinsicCall, EmitUnchecked, EmitFunctionCall, CheckArguments, Stop
  <2>7. stores' = stores
    BY <1>2, <2>6
    DEF Generating, Codegen, BeginCodegen, GenerateConstant, GenerateVariable,
        GenerateOperands, ExpectType, BuildVector, MergeBranches, GenerateLet,
        BindVariable, GenerateFunction, DefineFunction, ReturnValue, GenerateCall,
        CloseGeneratedFrame, Stop
  <2> QED  BY <2>4, <2>7 DEF From
<1> QED  BY <1>1, <1>2

LEMMA BeginStored ==
    ASSUME CodegenInit, BeginCodegen
    PROVE  DeclaredLeft /\ StoresLeft
<1>1. ASSUME NEW vals, vals = values' PROVE DeclaredOK(vals)
  <2>1. vals = Inherited
    BY <1>1 DEF BeginCodegen, Inherited
  <2>2. 0 \in Funs
    BY DEF Funs
  <2>3. vals[0] = [v \in locals[0] |->
                     IF v \in Arguments(0, Inputs)
                     THEN Value(0, TypeOfParam(Inputs, v.name)) ELSE Unbound]
    BY <2>1, <2>2 DEF Inherited
  <2>4. ASSUME NEW v \in locals[0], Bound(vals, 0, v)
        PROVE  TypeGiven(script, v) = vals[0][v].type
    <3>1. v \in Arguments(0, Inputs)
      BY <2>3, <2>4 DEF Bound, Unbound, Constant, Value
    <3>2. v.node = 0
      BY <3>1 DEF Arguments, Variable
    <3>3. vals[0][v].type = TypeOfParam(Inputs, v.name)
      BY <2>3, <3>1 DEF Value
    <3> QED  BY <3>2, <3>3 DEF TypeGiven
  <2> QED  BY <2>4 DEF DeclaredOK
<1>2. ASSUME NEW ops, ops = operands', NEW sts PROVE StoresOK(ops, sts)
  <2>1. Len(ops) = 0
    BY <1>2 DEF BeginCodegen, CodegenInit
  <2> QED  BY <2>1 DEF StoresOK
<1> QED  BY <1>1, <1>2 DEF DeclaredLeft, StoresLeft

\* The second pass aborts at a call.
LEMMA AbortsAtCall ==
    ASSUME BothPasses, Inserting, Generating, Codegen,
           UNCHANGED <<script, pos, stack, parent, locals, refs, climb>>,
           status' = "aborted"
    PROVE  GNode' \in NodesOf(script, "call")
<1>1. Left
  BY StopLeaves DEF Generating
<1>2. GNode' = GNode
  BY <1>1 DEF Left, GNode, GTodo, GTop
<1>3. /\ HandedOver
      /\ GeneratedSo(gstack, gpos, operands, values, llvm, emitted, stores)
  BY DEF BothPasses, Generated
<1>4. PICK st : st = gstack
  OBVIOUS
<1>5. PICK p : p = gpos
  OBVIOUS
<1>6. PICK ops : ops = operands
  OBVIOUS
<1>7. PICK vals : vals = values
  OBVIOUS
<1>8. PICK fns : fns = llvm
  OBVIOUS
<1>9. PICK em : em = emitted
  OBVIOUS
<1>10. PICK sts : sts = stores
  OBVIOUS
<1>11. From(st, p, ops, vals, fns, em, sts)
  BY <1>3, <1>4, <1>5, <1>6, <1>7, <1>8, <1>9, <1>10 DEF From, Kept
<1>12. EmitFunctionCall
  BY <1>11, AbortingCall
<1>13. Finish({"emit"})
  BY <1>12 DEF EmitFunctionCall
<1>14. PICK q : q = GNode
  OBVIOUS
<1>15. /\ q \in 1 .. Len(script) /\ script[q].op = "call"
       /\ script \in Seq(Nodes)
  BY <1>11, <1>13, <1>14, EmittedItem, FromParts
<1> QED  BY <1>2, <1>14, <1>15, LenProperties DEF NodesOf

\* Compiling goes on until there is an outcome, and then stops.
LEMMA CompileMoves ==
    ASSUME Compile
    PROVE  /\ script' = script
           /\ status \in {"resolving", "resolved", "generating"}
           /\ status' \in {"aborted", "crashed", "failed", "compiled"} =>
                 /\ Generating /\ Codegen
                 /\ UNCHANGED <<script, pos, stack, parent, locals, refs, climb>>
<1>1. CASE Next /\ UNCHANGED gvars
  <2>1. script' = script /\ status = "resolving"
    BY <1>1, ResolvingPreserves
  <2>2. status' \notin {"aborted", "crashed", "failed", "compiled"}
    BY <1>1, <2>1 DEF Next, ResolveOperands, ResolveVariable, ResolveReturn, ResolveLet,
          EnterLet, ResolveFunction, EnterBody, ResolveCall, ImportUpvalues,
          CloseFrame, ImportFound, ImportFromParent, Throw
  <2> QED  BY <2>1, <2>2
<1>2. CASE BeginCodegen /\ UNCHANGED <<script, pos, stack, parent, locals, refs, climb>>
  BY <1>2 DEF BeginCodegen
<1>3. CASE /\ Codegen /\ ~ BeginCodegen
           /\ UNCHANGED <<script, pos, stack, parent, locals, refs, climb>>
  <2>1. Generating
    BY <1>3 DEF Codegen, GenerateConstant, GenerateVariable, GenerateOperands,
       ExpectType, BuildVector, MergeBranches, GenerateLet, BindVariable,
       GenerateFunction, DefineFunction, ReturnValue, GenerateCall, EmitFunctionCall,
       EmitIntrinsicCall, GenerateReturn, CloseGeneratedFrame, Generate, Finish
  <2> QED  BY <1>3, <2>1 DEF Generating
<1> QED  BY <1>1, <1>2, <1>3 DEF Compile

\* What the program has to be like stays as it is.
LEMMA ProgramStays ==
    ASSUME script' = script
    PROVE  /\ Plain(script)' <=> Plain(script)
           /\ OutputsTyped(script)' <=> OutputsTyped(script)
OBVIOUS

LEMMA StoresStay ==
    BothPasses /\ Inserting /\ NullsOnlyLast /\ StoresSound /\ [Compile]_vars
        => StoresSound'
<1> SUFFICES ASSUME BothPasses, Inserting, NullsOnlyLast, StoresSound, [Compile]_vars,
                    Generating'
             PROVE  (DeclaredOK(values) /\ StoresOK(operands, stores))'
  BY DEF StoresSound
<1>1. CASE Next /\ UNCHANGED gvars
  <2>1. status' # "generating"
    BY <1>1, ResolvingPreserves
  <2> QED  BY <2>1 DEF Generating
<1>2. CASE BeginCodegen /\ UNCHANGED <<script, pos, stack, parent, locals, refs, climb>>
  <2>1. status = "resolved" /\ Kept
    BY <1>2 DEF BeginCodegen, Kept
  <2>2. CodegenInit
    BY <2>1 DEF BothPasses
  <2>3. DeclaredLeft /\ StoresLeft
    BY <1>2, <2>2, BeginStored
  <2> QED  BY <2>1, <2>3, StoresThen
<1>3. CASE /\ Codegen /\ ~ BeginCodegen
           /\ UNCHANGED <<script, pos, stack, parent, locals, refs, climb>>
  <2>1. Generating
    BY <1>3 DEF Codegen, GenerateConstant, GenerateVariable, GenerateOperands,
       ExpectType, BuildVector, MergeBranches, GenerateLet, BindVariable,
       GenerateFunction, DefineFunction, ReturnValue, GenerateCall, EmitFunctionCall,
       EmitIntrinsicCall, GenerateReturn, CloseGeneratedFrame, Generate, Finish
  <2>2. Kept
    BY <1>3 DEF Kept
  <2>3. PICK st, p, ops, vals, fns, em, sts : From(st, p, ops, vals, fns, em, sts)
    BY <1>3, <2>1, <2>2 DEF BothPasses, Generated, From
  <2>4. /\ NullsLast(st, ops, vals) /\ DeclaredOK(vals) /\ StoresOK(ops, sts)
    BY <2>1, <2>3 DEF NullsOnlyLast, StoresSound, From
  <2>5. DeclaredLeft /\ StoresLeft
    BY <1>3, <2>1, <2>3, <2>4, DeclaredStays, StoresStep
  <2> QED  BY <2>2, <2>5, StoresThen
<1>4. CASE UNCHANGED vars
  <2>1. UNCHANGED rvars /\ UNCHANGED gvars
    BY <1>4 DEF vars
  <2>2. /\ status' = status /\ operands' = operands
        /\ values' = values /\ stores' = stores /\ Kept
    BY <2>1 DEF rvars, gvars, Kept
  <2>3. DeclaredOK(values) /\ StoresOK(operands, stores)
    BY <2>2 DEF Generating, StoresSound
  <2>4. DeclaredLeft /\ StoresLeft
    BY <2>2, <2>3 DEF DeclaredLeft, StoresLeft
  <2> QED  BY <2>2, <2>4, StoresThen
<1> QED  BY <1>1, <1>2, <1>3, <1>4 DEF Compile

\* Only a call of an intrinsic fails in another way, and not if it is sturdy.
LEMMA FailingCall ==
    ASSUME Generating, Codegen
    PROVE  /\ status' = "failed" =>
                 EmitIntrinsicCall /\ ~ Sturdy(refs[GNode].name) /\ Stop("failed")
           /\ status' = "compiled" => operands = <<Null>> /\ stores' = stores
<1> USE DEF Generating
<1>1. ASSUME NEW args, NEW types, NEW s, NEW as, NEW extra, NEW ret, NEW error,
             CheckArguments(args, types, error, Emit(s, as, extra, ret)),
             status' \in {"failed", "compiled"}
      PROVE  status' = error /\ Stop(error)
  BY <1>1 DEF CheckArguments, Emit, Continue, Stop
<1>2. CASE \/ GenerateConstant \/ GenerateVariable \/ GenerateOperands \/ BuildVector
           \/ GenerateLet \/ GenerateFunction \/ DefineFunction \/ BeginCodegen
           \/ ExpectType \/ MergeBranches \/ BindVariable \/ ReturnValue
           \/ GenerateCall \/ GenerateReturn
  BY <1>2 DEF GenerateConstant, GenerateVariable, GenerateOperands, BuildVector,
     GenerateLet, GenerateFunction, DefineFunction, BeginCodegen, ExpectType,
     MergeBranches, BindVariable, ReturnValue, GenerateCall, GenerateReturn,
     Continue, Stop
<1>3. CASE EmitIntrinsicCall
  <2>1. PICK x : x = refs[GNode].name
    OBVIOUS
  <2>2. PICK error : error = Signature[x].wrong
    OBVIOUS
  <2>3. \/ /\ error \in {"type mismatch", "failed"}
           /\ \E args, types, as, extra, ret :
                 CheckArguments(args, types, error, Emit(refs[GNode], as, extra, ret))
        \/ \E args : EmitUnchecked(refs[GNode], args)
        \/ Stop("refused")
        \/ Signature[x].breaks /\ Stop("failed")
    BY <1>3, <2>1, <2>2 DEF EmitIntrinsicCall
  <2>4. CASE /\ error \in {"type mismatch", "failed"}
             /\ \E args, types, as, extra, ret :
                   CheckArguments(args, types, error, Emit(refs[GNode], as, extra, ret))
    <3>1. status' \in {"failed", "compiled"} => status' = error /\ Stop(error)
      BY <1>1, <2>4
    <3> QED  BY <1>3, <2>1, <2>2, <2>4, <3>1 DEF Sturdy
  <2>5. CASE Stop("refused") \/ (Signature[x].breaks /\ Stop("failed"))
    BY <1>3, <2>1, <2>5 DEF Sturdy, Stop
  <2>6. CASE \E args : EmitUnchecked(refs[GNode], args)
    BY <2>6 DEF EmitUnchecked, Emit, Continue, Stop
  <2> QED  BY <2>3, <2>4, <2>5, <2>6
<1>4. CASE EmitFunctionCall
  <2>1. \/ \E args, types, as, extra, ret :
               CheckArguments(args, types, "type mismatch",
                              Emit(refs[GNode], as, extra, ret))
        \/ Stop("aborted")
    BY <1>4 DEF EmitFunctionCall
  <2>2. PICK error : error = "type mismatch"
    OBVIOUS
  <2>3. ASSUME NEW args, NEW types, NEW as, NEW extra, NEW ret,
               CheckArguments(args, types, error, Emit(refs[GNode], as, extra, ret))
        PROVE  status' \notin {"failed", "compiled"}
    <3>1. status' \in {"failed", "compiled"} => status' = error
      BY <1>1, <2>3
    <3> QED  BY <2>2, <3>1
  <2>4. status' \notin {"failed", "compiled"}
    BY <2>1, <2>2, <2>3 DEF Stop
  <2> QED  BY <2>4
<1>5. CASE CloseGeneratedFrame
  BY <1>5 DEF CloseGeneratedFrame, Stop
<1> QED  BY <1>2, <1>3, <1>4, <1>5 DEF Codegen

\* The intrinsics that a plain program calls are sturdy.
LEMMA SturdyCall ==
    ASSUME NEW st, NEW p, NEW ops, NEW vals, NEW fns, NEW em, NEW sts,
           From(st, p, ops, vals, fns, em, sts), EmitIntrinsicCall, Plain(script)
    PROVE  Sturdy(refs[GNode].name)
<1>1. Finish({"emit"}) /\ refs[GNode].kind = "callable"
  BY DEF EmitIntrinsicCall
<1>2. PICK q : q = GNode
  OBVIOUS
<1>3. /\ q \in 1 .. Len(script) /\ Reached(q) /\ script[q].op = "call"
      /\ script[q].name \in Names
  BY <1>1, <1>2, EmittedItem
<1>4. HandedOver /\ script \in Seq(Nodes)
  BY FromParts
<1>5. PICK sc : sc = ScopeAt(q)
  OBVIOUS
<1>6. refs[q] = sc.table[script[q].name]
  <2>1. Records(sc, script[q], q, locals, refs[q], <<>>)
    BY <1>3, <1>4, <1>5, ReachedRecords
  <2> QED  BY <1>3, <2>1 DEF Records
<1>7. refs[q] = Denotes(script, q, script[q].name)
  BY <1>3, <1>4, <1>5, <1>6, ScopeLexical
<1>8. q \in NodesOf(script, "call")
  BY <1>3, <1>4, LenProperties DEF NodesOf
<1>9. CallsSturdy(script, q)
  BY <1>8 DEF Plain
<1> QED  BY <1>1, <1>2, <1>7, <1>9 DEF CallsSturdy

LEMMA PlainReturns == Plain(script) /\ CrashesOnlyOnReturn => status # "crashed"
BY DEF Plain, CrashesOnlyOnReturn

\* How compiling a plain program cannot end, and a typed one.
LEMMA PlainEnds ==
    ASSUME BothPasses, Inserting, Compile, Plain(script),
           AbortsOnlyOutward', CrashesOnlyOnReturn'
    PROVE  status' \notin {"aborted", "crashed", "failed"}
<1>1. script' = script
  BY CompileMoves
<1>2. Plain(script)'
  BY <1>1, ProgramStays
<1>3. (status # "crashed")'
  <2>1. (Plain(script) /\ CrashesOnlyOnReturn => status # "crashed")'
    BY PlainReturns, PTL
  <2> QED  BY <1>2, <2>1
<1>4. ASSUME status' \in {"aborted", "failed"} PROVE FALSE
  <2>1. /\ Generating /\ Codegen
        /\ UNCHANGED <<script, pos, stack, parent, locals, refs, climb>>
    BY <1>4, CompileMoves
  <2>2. CASE status' = "aborted"
    <3>1. GNode' \in NodesOf(script, "call")
      BY <2>1, <2>2, AbortsAtCall
    <3>2. PICK q : q = GNode'
      OBVIOUS
    <3>3. CallsOutward(script, GNode)'
      BY <2>2 DEF AbortsOnlyOutward
    <3>4. CallsOutward(script, q)
      BY <2>1, <3>2, <3>3, CallsFixed
    <3> QED  BY <3>1, <3>2, <3>4 DEF Plain
  <2>3. CASE status' = "failed"
    <3>1. EmitIntrinsicCall /\ ~ Sturdy(refs[GNode].name)
      BY <2>1, <2>3, FailingCall
    <3>2. Kept
      BY <2>1 DEF Kept
    <3>3. PICK st, p, ops, vals, fns, em, sts : From(st, p, ops, vals, fns, em, sts)
      BY <2>1, <3>2 DEF BothPasses, Generated, From
    <3> QED  BY <3>1, <3>3, SturdyCall
  <2> QED  BY <1>4, <2>2, <2>3
<1> QED  BY <1>3, <1>4

LEMMA TypedEnds ==
    ASSUME StoresSound, Compile, OutputsTyped(script), status' = "compiled"
    PROVE  stores' = ParamTypes(Outputs)
<1>1. Generating /\ Codegen
  BY CompileMoves
<1>2. operands = <<Null>> /\ stores' = stores
  BY <1>1, FailingCall
<1>3. StoresOK(operands, stores)
  BY <1>1 DEF StoresSound
<1>4. Len(operands) = 1 /\ operands[1] = Null
  BY <1>2
<1> QED  BY <1>2, <1>3, <1>4 DEF StoresOK

\* Each step maps to one of the contract.
LEMMA ContractStep ==
    ASSUME BothPasses, Inserting, StoresSound, [Compile]_vars, CodegenTypeOK',
           AbortsOnlyOutward', CrashesOnlyOnReturn'
    PROVE  [Contract!Next]_outcome
<1>1. CASE UNCHANGED vars
  <2>1. status' = status /\ stores' = stores
    BY <1>1 DEF vars, rvars, gvars
  <2> QED  BY <2>1 DEF outcome, ParamTypes
<1>2. CASE Compile
  <2>1. status \in {"resolving", "resolved", "generating"}
    BY <1>2, CompileMoves
  <2>2. outcome = "compiling"
    BY <2>1 DEF outcome, Exceptions, Failures
  <2>3. status' \in {"resolving", "resolved", "generating", "compiled",
                      "aborted", "crashed", "failed"} \cup Exceptions
    BY DEF CodegenTypeOK, Outcomes, Exceptions, Failures
  <2>4. CASE status' \in {"resolving", "resolved", "generating"}
    BY <2>2, <2>4 DEF outcome, Exceptions, Failures
  <2>5. CASE status' \in Exceptions
    BY <2>2, <2>5 DEF outcome, Contract!Next, Contract!Fail
  <2>6. CASE status' \in {"aborted", "crashed", "failed"}
    <3>1. ~ Plain(script)
      BY <1>2, <2>6, PlainEnds
    <3>2. outcome' = status'
      BY <2>6 DEF outcome, Exceptions, Failures
    <3> QED  BY <2>2, <2>6, <3>1, <3>2 DEF Contract!Next, Contract!Break
  <2>7. CASE status' = "compiled"
    <3>1. CASE stores' = ParamTypes(Outputs)
      <4>1. outcome' = "function"
        BY <2>7, <3>1 DEF outcome, Exceptions, Failures, ParamTypes
      <4> QED  BY <2>2, <4>1 DEF Contract!Next, Contract!Succeed
    <3>2. CASE stores' # ParamTypes(Outputs)
      <4>1. outcome' = "malformed"
        BY <2>7, <3>2 DEF outcome, Exceptions, Failures, ParamTypes
      <4>2. ~ OutputsTyped(script)
        BY <1>2, <2>7, <3>2, TypedEnds
      <4> QED  BY <2>2, <4>1, <4>2 DEF Contract!Next, Contract!Garble
    <3> QED  BY <3>1, <3>2
  <2> QED  BY <2>3, <2>4, <2>5, <2>6, <2>7
<1> QED  BY <1>1, <1>2

(* Every step of compiling any program is one that CompileContract allows: *)
(* the compiler refuses it with an exception or makes a function of it,    *)
(* and does worse only to a program that is not plain or not typed.        *)
THEOREM ContractKept == CompileSpec => Contract!Safety
<1>1. CompileInit => NullsOnlyLast /\ StoresSound /\ Contract!Init
  BY DEF CompileInit, Init, NullsOnlyLast, StoresSound, Generating, CrashesOnlyOnReturn,
     Contract!Init, outcome, Exceptions, Failures
<1>2. BothPasses /\ Inserting /\ NullsOnlyLast /\ [Compile]_vars => NullsOnlyLast'
  BY NullsStay
<1>3. BothPasses /\ Inserting /\ NullsOnlyLast /\ StoresSound /\ [Compile]_vars
        => StoresSound'
  BY StoresStay
<1>4. BothPasses /\ Inserting /\ StoresSound /\ [Compile]_vars /\ CodegenTypeOK'
        /\ AbortsOnlyOutward' /\ CrashesOnlyOnReturn' => [Contract!Next]_outcome
  BY ContractStep
<1> QED
  BY <1>1, <1>2, <1>3, <1>4, PassesAgree, FramesInsert, CodegenTypes,
     AbortsAreOutward, CrashesAreReturns, PTL DEF CompileSpec, Contract!Safety
=============================================================================
