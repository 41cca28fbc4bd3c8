---------------------------- MODULE ParserProofs ----------------------------
(***************************************************************************)
(* Theorems about Parser: its variables have their types, and whatever is  *)
(* nested in whatever, each call of a parse function finds the trees it    *)
(* combines and leaves one.                                                *)
(***************************************************************************)
EXTENDS ParserGrammar, AnySequence, TLAPS

(* What compile() waits for, and what the parse functions are called for.  *)
Outer  == {e \in Items : e.do \in {"code", "toplevel"}}
Plain == Items \ Outer

(* compile() is what remains when the calls it has made have returned.     *)
Pending(t) ==
    /\ t \in Seq(Items) /\ t # <<>>
    /\ \A i \in 1 .. Len(t) : t[i] \in Outer <=> i = Len(t)

(* Of h trees those are taken that the items of w want, one after another, *)
(* and k are there afterwards: g counts them.                              *)
Counts(g, h, w, k) ==
    /\ g \in [0 .. Len(w) -> Nat]
    /\ g[0] = h /\ g[Len(w)] = k
    /\ \A i \in 1 .. Len(w) :
          g[i - 1] >= Takes(w[i]) /\ g[i] = g[i - 1] - Takes(w[i]) + Leaves(w[i])

Goes(h, w, k) == \E g : Counts(g, h, w, k)

(* Functions that take n trees and leave m.                                *)
Parses(w, n, m) ==
    /\ w \in Seq(Plain)
    /\ \A h \in Nat : h >= n => Goes(h, w, h - n + m)

-----------------------------------------------------------------------------
(* What the items are, by their kinds.                                     *)
KindOf(e) ==
    /\ e.do = "expect" => e \in [do : {"expect"}, token : Words]
    /\ e.do = "build" => e \in [do : {"build"}, node : Nodes]
    /\ e.do = "operators" => e \in [do : {"operators"}, min : Nat]
    /\ e.do = "apply" => e \in [do : {"apply"}, op : BinaryOperators]
    /\ e.do \in {"arguments", "call", "inputs", "more"} =>
          e \in [do : {"arguments", "call", "inputs", "more"},
                 name : Names, argc : Nat]
    /\ e.do = "elements" =>
          e \in [do : {"elements"}, of : {"vector", "[]"}, argc : Nat]
    /\ e.do = "parameters" => e \in [do : {"parameters"}, list : Lists]
    /\ e.do = "parameter" =>
          e \in [do : {"parameter"}, list : Lists, name : Identifiers]
    /\ e.do \in {"name", "definition", "function", "lanes"} =>
          e \in [do : {"name", "definition", "function", "lanes"},
                 name : Identifiers]
    /\ e.do = "size" => e \in [do : {"size"}, name : Sized]
    /\ e.do = "find" =>
          e \in [do : {"find"},
                 name : Identifiers \cup VectorNames]

LEMMA ItemKinds ==
    ASSUME NEW e \in Items
    PROVE  KindOf(e)
<1>1. CASE e \in [do : {"expect"}, token : Words]
  BY <1>1 DEF KindOf
<1>2. CASE e \in [do : {"build"}, node : Nodes]
  BY <1>2 DEF KindOf
<1>3. CASE e \in [do : {"operators"}, min : Nat]
  BY <1>3 DEF KindOf
<1>4. CASE e \in [do : {"apply"}, op : BinaryOperators]
  BY <1>4 DEF KindOf
<1>5. CASE e \in [do : {"arguments", "call", "inputs", "more"}, name : Names, argc : Nat]
  BY <1>5 DEF KindOf
<1>6. CASE e \in [do : {"elements"}, of : {"vector", "[]"}, argc : Nat]
  BY <1>6 DEF KindOf
<1>7. CASE e \in [do : {"parameters"}, list : Lists]
  BY <1>7 DEF KindOf
<1>8. CASE e \in [do : {"parameter"}, list : Lists, name : Identifiers]
  BY <1>8 DEF KindOf
<1>9. CASE e \in [do : {"name", "definition", "function", "lanes"}, name : Identifiers]
  BY <1>9 DEF KindOf
<1>10. CASE e \in [do : {"size"}, name : Sized]
  BY <1>10 DEF KindOf
<1>11. CASE e \in [do : {"find"}, name : Identifiers \cup VectorNames]
  BY <1>11 DEF KindOf
<1>12. CASE e \in [do : {"leaf", "postfix", "unary", "method", "separator", "vector",
                     "splat", "let", "typespec", "typename", "code", "toplevel"}]
  BY <1>12 DEF KindOf
<1> QED
  BY <1>1, <1>2, <1>3, <1>4, <1>5, <1>6, <1>7, <1>8, <1>9, <1>10, <1>11, <1>12
  DEF Items

LEMMA ArityNumber ==
    ASSUME NEW n \in Nodes
    PROVE  Arity(n) \in Nat
BY DEF Nodes, Arity

LEMMA ItemCounts ==
    ASSUME NEW e \in Items
    PROVE  Takes(e) \in Nat /\ Leaves(e) \in {0, 1}
<1>1. CASE e.do = "build"
  <2>1. e.node \in Nodes
    BY <1>1, ItemKinds DEF KindOf
  <2> QED  BY <1>1, <2>1, ArityNumber DEF Takes, Leaves
<1>2. CASE e.do \in {"arguments", "call", "inputs", "more", "elements"}
  <2>1. e.argc \in Nat
    BY <1>2, ItemKinds DEF KindOf
  <2> QED  BY <1>2, <2>1 DEF Takes, Leaves
<1>3. CASE e.do \notin {"build", "arguments", "call", "inputs", "more", "elements"}
  BY <1>3 DEF Takes, Leaves
<1> QED  BY <1>1, <1>2, <1>3

-----------------------------------------------------------------------------
LEMMA GoesNothing ==
    ASSUME NEW h \in Nat
    PROVE  Goes(h, <<>>, h)
<1> DEFINE g == [i \in 0 .. 0 |-> h]
<1>1. Len(<<>>) = 0
  OBVIOUS
<1>2. Counts(g, h, <<>>, h)
  BY <1>1 DEF Counts
<1> QED  BY <1>2 DEF Goes

LEMMA GoesOne ==
    ASSUME NEW e \in Items, NEW h \in Nat, h >= Takes(e)
    PROVE  Goes(h, <<e>>, h - Takes(e) + Leaves(e))
<1> DEFINE k == h - Takes(e) + Leaves(e)
           g == [i \in 0 .. 1 |-> IF i = 0 THEN h ELSE k]
<1>1. k \in Nat
  BY ItemCounts
<1> HIDE DEF k
<1>2. Len(<<e>>) = 1 /\ <<e>>[1] = e
  OBVIOUS
<1>3. g \in [0 .. 1 -> Nat] /\ g[0] = h /\ g[1] = k
  BY <1>1
<1> HIDE DEF g
<1>4. ASSUME NEW i \in 1 .. 1
      PROVE  /\ g[i - 1] >= Takes(<<e>>[i])
             /\ g[i] = g[i - 1] - Takes(<<e>>[i]) + Leaves(<<e>>[i])
  <2>1. i = 1 /\ i - 1 = 0
    OBVIOUS
  <2> QED  BY <1>2, <1>3, <2>1 DEF k
<1>5. Counts(g, h, <<e>>, k)
  BY <1>2, <1>3, <1>4 DEF Counts
<1> QED  BY <1>5 DEF Goes, k

LEMMA GoesThen ==
    ASSUME NEW S, NEW w \in Seq(S), NEW v \in Seq(S), NEW h, NEW k, NEW l,
           Goes(h, w, k), Goes(k, v, l)
    PROVE  Goes(h, w \o v, l)
<1>1. PICK f : Counts(f, h, w, k)
  BY DEF Goes
<1>2. PICK g : Counts(g, k, v, l)
  BY DEF Goes
<1>3. PICK m \in Nat : m = Len(w)
  OBVIOUS
<1>4. PICK n \in Nat : n = Len(v)
  OBVIOUS
<1> DEFINE u == w \o v
           c == [i \in 0 .. m + n |-> IF i <= m THEN f[i] ELSE g[i - m]]
<1>5. /\ Len(u) = m + n
      /\ \A i \in 1 .. m : u[i] = w[i]
      /\ \A i \in 1 .. n : u[m + i] = v[i]
  BY <1>3, <1>4
<1> HIDE DEF u
<1>6. /\ f \in [0 .. m -> Nat] /\ f[0] = h /\ f[m] = k
      /\ \A i \in 1 .. m :
            f[i - 1] >= Takes(w[i]) /\ f[i] = f[i - 1] - Takes(w[i]) + Leaves(w[i])
  BY <1>1, <1>3 DEF Counts
<1>7. /\ g \in [0 .. n -> Nat] /\ g[0] = k /\ g[n] = l
      /\ \A i \in 1 .. n :
            g[i - 1] >= Takes(v[i]) /\ g[i] = g[i - 1] - Takes(v[i]) + Leaves(v[i])
  BY <1>2, <1>4 DEF Counts
<1>8. c \in [0 .. m + n -> Nat]
  <2>1. ASSUME NEW i \in 0 .. m + n PROVE c[i] \in Nat
    <3>1. CASE i <= m
      <4>1. i \in 0 .. m
        BY <3>1
      <4> QED  BY <1>6, <3>1, <4>1
    <3>2. CASE ~ (i <= m)
      <4>1. i - m \in 0 .. n
        BY <3>2
      <4> QED  BY <1>7, <3>2, <4>1
    <3> QED  BY <3>1, <3>2
  <2> QED  BY <2>1
<1>9. /\ \A i \in 0 .. m : c[i] = f[i]
      /\ \A i \in 0 .. n : c[m + i] = g[i]
  <2>1. ASSUME NEW i \in 0 .. m PROVE c[i] = f[i]
    OBVIOUS
  <2>2. ASSUME NEW i \in 0 .. n PROVE c[m + i] = g[i]
    <3>1. CASE i = 0
      BY <1>6, <1>7, <3>1
    <3>2. CASE i # 0
      <4>1. m + i \in 0 .. m + n /\ ~ (m + i <= m) /\ (m + i) - m = i
        BY <3>2
      <4> QED  BY <4>1
    <3> QED  BY <3>1, <3>2
  <2> QED  BY <2>1, <2>2
<1> HIDE DEF c
<1>10. ASSUME NEW i \in 1 .. m + n
       PROVE  /\ c[i - 1] >= Takes(u[i])
              /\ c[i] = c[i - 1] - Takes(u[i]) + Leaves(u[i])
  <2>1. CASE i <= m
    <3>1. i \in 1 .. m /\ i \in 0 .. m /\ i - 1 \in 0 .. m
      BY <2>1
    <3> QED  BY <1>5, <1>6, <1>9, <3>1
  <2>2. CASE ~ (i <= m)
    <3> DEFINE j == i - m
    <3>1. j \in 1 .. n /\ j \in 0 .. n /\ j - 1 \in 0 .. n
      BY <2>2
    <3>2. i = m + j /\ i - 1 = m + (j - 1)
      OBVIOUS
    <3> HIDE DEF j
    <3>3. c[i] = g[j] /\ c[i - 1] = g[j - 1] /\ u[i] = v[j]
      BY <1>5, <1>9, <3>1, <3>2
    <3> QED  BY <1>7, <3>1, <3>3
  <2> QED  BY <2>1, <2>2
<1>11. c[0] = h /\ c[m + n] = l
  BY <1>6, <1>7, <1>9
<1>12. Counts(c, h, u, l)
  BY <1>5, <1>8, <1>10, <1>11 DEF Counts
<1> QED  BY <1>12 DEF Goes, u

(* The first item of a list and those after it.                            *)
LEMMA GoesFirst ==
    ASSUME NEW t \in Seq(Items), t # <<>>, NEW h \in Nat, NEW k, Goes(h, t, k)
    PROVE  LET e == Head(t) IN
           /\ e \in Items /\ h >= Takes(e) /\ Tail(t) \in Seq(Items)
           /\ Goes(h - Takes(e) + Leaves(e), Tail(t), k)
<1>1. PICK f : Counts(f, h, t, k)
  BY DEF Goes
<1>2. PICK n \in Nat : n + 1 = Len(t)
  <2>1. Len(t) \in Nat /\ Len(t) # 0
    OBVIOUS
  <2>2. Len(t) - 1 \in Nat /\ (Len(t) - 1) + 1 = Len(t)
    BY <2>1
  <2> QED  BY <2>2
<1> DEFINE e == t[1]
           u == Tail(t)
           g == [i \in 0 .. n |-> f[i + 1]]
<1>3. /\ Head(t) = e /\ e \in Items /\ u \in Seq(Items) /\ Len(u) = n
      /\ \A i \in 1 .. n : u[i] = t[i + 1]
  BY <1>2
<1> HIDE DEF u, e
<1>4. /\ f \in [0 .. n + 1 -> Nat] /\ f[0] = h /\ f[n + 1] = k
      /\ \A i \in 1 .. n + 1 :
            f[i - 1] >= Takes(t[i]) /\ f[i] = f[i - 1] - Takes(t[i]) + Leaves(t[i])
  BY <1>1, <1>2 DEF Counts
<1>5. h >= Takes(e) /\ f[1] = h - Takes(e) + Leaves(e)
  <2>1. 1 \in 1 .. n + 1 /\ 1 - 1 = 0
    OBVIOUS
  <2> QED  BY <1>4, <2>1 DEF e
<1>6. /\ g \in [0 .. n -> Nat] /\ g[0] = f[1] /\ g[n] = k
      /\ \A i \in 0 .. n : g[i] = f[i + 1]
  BY <1>4
<1> HIDE DEF g
<1>7. ASSUME NEW i \in 1 .. n
      PROVE  g[i - 1] >= Takes(u[i]) /\ g[i] = g[i - 1] - Takes(u[i]) + Leaves(u[i])
  <2>1. i + 1 \in 1 .. n + 1 /\ i - 1 \in 0 .. n /\ (i - 1) + 1 = i /\ (i + 1) - 1 = i
    OBVIOUS
  <2>2. g[i - 1] = f[i] /\ g[i] = f[i + 1] /\ u[i] = t[i + 1]
    BY <1>3, <1>6, <2>1
  <2>3. f[i] >= Takes(t[i + 1]) /\ f[i + 1] = f[i] - Takes(t[i + 1]) + Leaves(t[i + 1])
    BY <1>4, <2>1
  <2> QED  BY <2>2, <2>3
<1>8. Counts(g, f[1], u, k)
  BY <1>3, <1>6, <1>7 DEF Counts
<1> QED  BY <1>3, <1>5, <1>8 DEF Goes, u

-----------------------------------------------------------------------------
(* Lists of functions.                                                     *)
LEMMA ParsesNothing ==
    ASSUME NEW a \in Nat
    PROVE  Parses(<<>>, a, a)
<1>1. <<>> \in Seq(Plain)
  OBVIOUS
<1>2. ASSUME NEW h \in Nat, h >= a PROVE Goes(h, <<>>, h - a + a)
  <2>1. h - a + a = h
    OBVIOUS
  <2> QED  BY <2>1, GoesNothing
<1> QED  BY <1>1, <1>2 DEF Parses

LEMMA ParsesOne ==
    ASSUME NEW e \in Plain, NEW a \in Nat, a >= Takes(e)
    PROVE  Parses(<<e>>, a, a - Takes(e) + Leaves(e))
<1>1. <<e>> \in Seq(Plain) /\ e \in Items
  BY DEF Plain
<1>2. Takes(e) \in Nat /\ Leaves(e) \in Nat
  BY <1>1, ItemCounts
<1>3. ASSUME NEW h \in Nat, h >= a
      PROVE  Goes(h, <<e>>, h - a + (a - Takes(e) + Leaves(e)))
  <2>1. h >= Takes(e) /\ h - a + (a - Takes(e) + Leaves(e)) = h - Takes(e) + Leaves(e)
    BY <1>2, <1>3
  <2> QED  BY <1>1, <2>1, GoesOne
<1> QED  BY <1>1, <1>3 DEF Parses

LEMMA ParsesThen ==
    ASSUME NEW a \in Nat, NEW b \in Nat, NEW c \in Nat,
           NEW w, Parses(w, a, b), NEW v, Parses(v, b, c)
    PROVE  Parses(w \o v, a, c)
<1>1. w \in Seq(Plain) /\ v \in Seq(Plain)
  BY DEF Parses
<1>2. w \o v \in Seq(Plain)
  BY <1>1
<1>3. ASSUME NEW h \in Nat, h >= a PROVE Goes(h, w \o v, h - a + c)
  <2> DEFINE k == h - a + b
  <2>1. k \in Nat /\ k >= b /\ k - b + c = h - a + c
    BY <1>3
  <2>2. Goes(h, w, k)
    BY <1>3 DEF Parses
  <2> HIDE DEF k
  <2>3. Goes(k, v, h - a + c)
    BY <2>1 DEF Parses
  <2> QED  BY <1>1, <2>2, <2>3, GoesThen
<1> QED  BY <1>2, <1>3 DEF Parses

(* The first of what is pending is replaced by w.                          *)
LEMMA Replaced ==
    ASSUME NEW t, Pending(t), NEW w \in Seq(Plain), Head(t) \in Plain
    PROVE  Pending(w \o Tail(t))
<1> DEFINE u == Tail(t)
           r == w \o u
<1>1. PICK n \in Nat : n = Len(w)
  OBVIOUS
<1>2. t \in Seq(Items) /\ t # <<>>
  BY DEF Pending
<1>3. PICK m \in Nat : m = Len(t)
  BY <1>2
<1>4. m >= 1 /\ t[1] = Head(t)
  BY <1>2, <1>3
<1>5. m # 1
  <2> SUFFICES ASSUME m = 1 PROVE FALSE
    OBVIOUS
  <2>1. t[1] \in Outer
    BY <1>3 DEF Pending
  <2> QED  BY <1>4, <2>1 DEF Plain
<1>6. u \in Seq(Items) /\ Len(u) = m - 1 /\ \A i \in 1 .. m - 1 : u[i] = t[i + 1]
  BY <1>2, <1>3, <1>4
<1> HIDE DEF u
<1>7. w \in Seq(Items)
  BY DEF Plain
<1>8. /\ r \in Seq(Items) /\ Len(r) = n + (m - 1)
      /\ \A i \in 1 .. n : r[i] = w[i]
      /\ \A i \in 1 .. m - 1 : r[n + i] = u[i]
  <2>1. PICK k \in Nat : k = m - 1
    BY <1>4
  <2>2. u \in Seq(Items)
    BY <1>6
  <2>3. r \in Seq(Items) /\ Len(r) = Len(w) + Len(u)
    BY <1>7, <2>2
  <2>4. \A i \in 1 .. Len(w) : r[i] = w[i]
    BY <1>7, <2>2
  <2>5. \A i \in 1 .. Len(u) : r[Len(w) + i] = u[i]
    BY <1>7, <2>2
  <2>6. Len(u) = k /\ Len(w) = n
    BY <1>1, <1>6, <2>1
  <2> QED  BY <2>1, <2>3, <2>4, <2>5, <2>6
<1> HIDE DEF r
<1>9. ASSUME NEW i \in 1 .. n + (m - 1)
      PROVE  r[i] \in Outer <=> i = n + (m - 1)
  <2>1. CASE i <= n
    <3>1. i \in 1 .. n /\ i # n + (m - 1)
      BY <1>4, <1>5, <2>1
    <3>2. w[i] \in Plain
      BY <1>1, <3>1
    <3>3. r[i] \notin Outer
      BY <1>8, <3>1, <3>2 DEF Plain
    <3> QED  BY <3>1, <3>3
  <2>2. CASE ~ (i <= n)
    <3> DEFINE j == i - n
    <3>1. j \in 1 .. m - 1 /\ i = n + j /\ j + 1 \in 1 .. m
      BY <1>4, <2>2
    <3> HIDE DEF j
    <3>2. r[i] = t[j + 1]
      BY <1>6, <1>8, <3>1
    <3>3. t[j + 1] \in Outer <=> j + 1 = m
      BY <1>3, <3>1 DEF Pending
    <3> QED  BY <1>4, <3>1, <3>2, <3>3
  <2> QED  BY <2>1, <2>2
<1>10. r # <<>>
  BY <1>4, <1>5, <1>8
<1> QED  BY <1>8, <1>9, <1>10 DEF Pending, r, u

(* What is pending and how many trees there are.                           *)
Balanced(t, h) == Pending(t) /\ h \in Nat /\ Goes(h, t, 1)

LEMMA Progress ==
    ASSUME NEW t, NEW h, Balanced(t, h), NEW e, e = Head(t), e \in Plain,
           NEW w, NEW n \in Nat, NEW m \in Nat, Parses(w, n, m),
           NEW b \in Nat, b >= n, b - n + m = h - Takes(e) + Leaves(e)
    PROVE  Balanced(w \o Tail(t), b)
<1>1. t \in Seq(Items) /\ t # <<>> /\ h \in Nat /\ Goes(h, t, 1)
  BY DEF Balanced, Pending
<1>2. Tail(t) \in Seq(Items) /\ Goes(h - Takes(e) + Leaves(e), Tail(t), 1)
  BY <1>1, GoesFirst
<1>3. w \in Seq(Plain) /\ w \in Seq(Items)
  BY DEF Parses, Plain
<1>4. Goes(b, w, h - Takes(e) + Leaves(e))
  BY DEF Parses
<1>5. Goes(b, w \o Tail(t), 1)
  BY <1>2, <1>3, <1>4, GoesThen
<1>6. Pending(w \o Tail(t))
  BY <1>3, Replaced DEF Balanced
<1> QED  BY <1>5, <1>6 DEF Balanced

(* A call that has not yet built anything.                                 *)
LEMMA Continued ==
    ASSUME NEW t, NEW h, Balanced(t, h), NEW e, e = Head(t), e \in Plain,
           NEW w, Parses(w, Takes(e), Leaves(e))
    PROVE  Balanced(w \o Tail(t), h)
<1>1. t \in Seq(Items) /\ t # <<>> /\ h \in Nat /\ Goes(h, t, 1)
  BY DEF Balanced, Pending
<1>2. e \in Items /\ h >= Takes(e)
  BY <1>1, GoesFirst
<1>3. Takes(e) \in Nat /\ Leaves(e) \in Nat
  BY <1>2, ItemCounts
<1> QED  BY <1>1, <1>2, <1>3, Progress

-----------------------------------------------------------------------------
(* The functions that are called from several places, after a trees.       *)
LEMMA ParsesExpect ==
    ASSUME NEW t \in Words, NEW a \in Nat
    PROVE  Parses(<<Expect(t)>>, a, a)
<1> DEFINE e == Expect(t)
<1>1. e \in [do : {"expect"}, token : Words] /\ e.do = "expect"
  BY DEF Expect
<1> HIDE DEF e
<1>2. e \in Plain
  BY <1>1 DEF Items, Plain, Outer
<1>3. Takes(e) = 0 /\ Leaves(e) = 0
  BY <1>1 DEF Takes, Leaves
<1>4. Parses(<<e>>, a, a - 0 + 0)
  BY <1>2, <1>3, ParsesOne
<1> QED  BY <1>4 DEF e

LEMMA ParsesBuild ==
    ASSUME NEW n \in Nodes, NEW k \in Nat, k = Arity(n), NEW a \in Nat, a >= k
    PROVE  Parses(<<Build(n)>>, a, a - k + 1)
<1> DEFINE e == Build(n)
<1>1. e \in [do : {"build"}, node : Nodes] /\ e.do = "build" /\ e.node = n
  BY DEF Build
<1> HIDE DEF e
<1>2. e \in Plain
  BY <1>1 DEF Items, Plain, Outer
<1>3. Takes(e) = k /\ Leaves(e) = 1
  BY <1>1 DEF Takes, Leaves
<1>4. Parses(<<e>>, a, a - k + 1)
  BY <1>2, <1>3, ParsesOne
<1> QED  BY <1>4 DEF e

LEMMA ParsesStep ==
    ASSUME NEW p, NEW a \in Nat
    PROVE  /\ p \in {"leaf", "unary", "vector", "splat", "let"} =>
                 Parses(<<Step(p)>>, a, a + 1)
           /\ p \in {"separator", "typespec", "typename"} => Parses(<<Step(p)>>, a, a)
           /\ p \in {"postfix", "method"} /\ a >= 1 => Parses(<<Step(p)>>, a, a)
<1> DEFINE e == Step(p)
<1>1. e.do = p
  BY DEF Step
<1>2. ASSUME p \in {"leaf", "unary", "vector", "splat", "let", "separator",
                    "typespec", "typename", "postfix", "method"}
      PROVE  e \in Plain
  <2>1. e \in [do : {"leaf", "postfix", "unary", "method", "separator", "vector",
                     "splat", "let", "typespec", "typename", "code", "toplevel"}]
    BY <1>2 DEF Step
  <2> HIDE DEF e
  <2>2. e \in Items
    BY <2>1 DEF Items
  <2> QED  BY <1>1, <1>2, <2>2 DEF Plain, Outer
<1> HIDE DEF e
<1>3. ASSUME p \in {"leaf", "unary", "vector", "splat", "let"}
      PROVE  Parses(<<e>>, a, a + 1)
  <2>1. Takes(e) = 0 /\ Leaves(e) = 1
    BY <1>1, <1>3 DEF Takes, Leaves
  <2>2. Parses(<<e>>, a, a - 0 + 1)
    BY <1>2, <1>3, <2>1, ParsesOne
  <2> QED  BY <2>2
<1>4. ASSUME p \in {"separator", "typespec", "typename"}
      PROVE  Parses(<<e>>, a, a)
  <2>1. Takes(e) = 0 /\ Leaves(e) = 0
    BY <1>1, <1>4 DEF Takes, Leaves
  <2>2. Parses(<<e>>, a, a - 0 + 0)
    BY <1>2, <1>4, <2>1, ParsesOne
  <2> QED  BY <2>2
<1>5. ASSUME p \in {"postfix", "method"}, a >= 1
      PROVE  Parses(<<e>>, a, a)
  <2>1. Takes(e) = 1 /\ Leaves(e) = 1
    BY <1>1, <1>5 DEF Takes, Leaves
  <2>2. Parses(<<e>>, a, a - 1 + 1)
    BY <1>2, <1>5, <2>1, ParsesOne
  <2> QED  BY <2>2
<1> QED  BY <1>3, <1>4, <1>5 DEF e

LEMMA ParsesPair ==
    ASSUME NEW a \in Nat, NEW b \in Nat, NEW c \in Nat, NEW d, NEW e,
           Parses(<<d>>, a, b), Parses(<<e>>, b, c)
    PROVE  Parses(<<d, e>>, a, c)
<1>1. <<d>> \o <<e>> = <<d, e>>
  <2> DEFINE r == <<d>> \o <<e>>
             s == <<d, e>>
             S == {d, e}
  <2>1. <<d>> \in Seq(S) /\ <<e>> \in Seq(S)
    OBVIOUS
  <2>2. s \in Seq(S) /\ Len(s) = 2 /\ s[1] = d /\ s[2] = e
    OBVIOUS
  <2> HIDE DEF S
  <2>3. r \in Seq(S) /\ Len(r) = 2 /\ r[1] = d /\ r[2] = e
    BY <2>1
  <2> HIDE DEF r, s
  <2>4. \A i \in 1 .. Len(r) : r[i] = s[i]
    BY <2>2, <2>3
  <2>5. r = s
    BY <2>2, <2>3, <2>4
  <2> QED  BY <2>5 DEF r, s
<1>2. Parses(<<d>> \o <<e>>, a, c)
  BY ParsesThen
<1> QED  BY <1>1, <1>2

LEMMA ParsesTight ==
    ASSUME NEW a \in Nat
    PROVE  Parses(Tight, a, a + 1)
<1>1. Parses(<<Step("leaf")>>, a, a + 1)
  BY ParsesStep
<1>2. a + 1 \in Nat /\ a + 1 >= 1
  OBVIOUS
<1>3. Parses(<<Step("postfix")>>, a + 1, a + 1)
  BY <1>2, ParsesStep
<1> QED  BY <1>1, <1>2, <1>3, ParsesPair DEF Tight

LEMMA ParsesOperators ==
    ASSUME NEW min \in Nat, NEW a \in Nat, a >= 1
    PROVE  Parses(<<[do |-> "operators", min |-> min]>>, a, a)
<1> DEFINE e == [do |-> "operators", min |-> min]
<1>1. e \in [do : {"operators"}, min : Nat] /\ e.do = "operators"
  OBVIOUS
<1> HIDE DEF e
<1>2. e \in Plain
  BY <1>1 DEF Items, Plain, Outer
<1>3. Takes(e) = 1 /\ Leaves(e) = 1
  BY <1>1 DEF Takes, Leaves
<1>4. Parses(<<e>>, a, a - 1 + 1)
  BY <1>2, <1>3, ParsesOne
<1>5. a - 1 + 1 = a
  OBVIOUS
<1> QED  BY <1>4, <1>5 DEF e

LEMMA ParsesBinary ==
    ASSUME NEW min \in Nat, NEW a \in Nat
    PROVE  Parses(Binary(min), a, a + 1)
<1>1. Parses(<<Step("unary")>>, a, a + 1)
  BY ParsesStep
<1>2. a + 1 \in Nat /\ a + 1 >= 1
  OBVIOUS
<1>3. Parses(<<[do |-> "operators", min |-> min]>>, a + 1, a + 1)
  BY <1>2, ParsesOperators
<1> QED  BY <1>1, <1>2, <1>3, ParsesPair DEF Binary

LEMMA ParsesExpression ==
    ASSUME NEW a \in Nat
    PROVE  Parses(Expression, a, a + 1)
BY ParsesBinary DEF Expression

(* An expression and a token.                                              *)
LEMMA ParsesUpTo ==
    ASSUME NEW t \in Words, NEW a \in Nat
    PROVE  Parses(Expression \o <<Expect(t)>>, a, a + 1)
<1>1. a + 1 \in Nat
  OBVIOUS
<1> QED  BY <1>1, ParsesExpression, ParsesExpect, ParsesThen

LEMMA WordsKnown ==
    /\ {"(", ")", "[", "]", ",", ":", "."} \subseteq Words
    /\ {"=", "in", "then", "else"} \subseteq Words
BY TokensAssumption DEF Words, Punctuation, Operators

LEMMA ParsesCondition == Parses(Condition, 0, 1)
<1> DEFINE x == Expression \o <<Expect("then")>>
           y == x \o Expression
           z == y \o <<Expect("else")>>
           u == z \o Expression
           n == [op |-> "if"]
<1>1. Parses(x, 0, 1)
  <2>1. Parses(x, 0, 0 + 1)
    BY WordsKnown, ParsesUpTo
  <2> QED  BY <2>1
<1> HIDE DEF x
<1>2. Parses(y, 0, 2)
  <2>1. Parses(Expression, 1, 1 + 1)
    BY ParsesExpression
  <2> QED  BY <1>1, <2>1, ParsesThen
<1> HIDE DEF y
<1>3. Parses(z, 0, 2)
  BY <1>2, WordsKnown, ParsesExpect, ParsesThen
<1> HIDE DEF z
<1>4. Parses(u, 0, 3)
  <2>1. Parses(Expression, 2, 2 + 1)
    BY ParsesExpression
  <2> QED  BY <1>3, <2>1, ParsesThen
<1> HIDE DEF u
<1>5. n \in Nodes /\ Arity(n) = 3
  BY DEF Nodes, Arity
<1> HIDE DEF n
<1>6. Parses(<<Build(n)>>, 3, 3 - 3 + 1)
  BY <1>5, ParsesBuild
<1>7. Parses(u \o <<Build(n)>>, 0, 1)
  BY <1>4, <1>6, ParsesThen
<1> QED  BY <1>7 DEF Condition, x, y, z, u, n

LEMMA ParsesDefinition ==
    ASSUME NEW n \in Nodes, Arity(n) = 2
    PROVE  Parses(Definition(n), 0, 1)
<1> DEFINE x == <<Expect("=")>> \o Expression
           y == x \o <<Expect("in")>>
           z == y \o Expression
<1>1. Parses(x, 0, 1)
  <2>1. Parses(Expression, 0, 0 + 1)
    BY ParsesExpression
  <2>2. Parses(<<Expect("=")>>, 0, 0)
    BY WordsKnown, ParsesExpect
  <2> QED  BY <2>1, <2>2, ParsesThen
<1> HIDE DEF x
<1>2. Parses(y, 0, 1)
  BY <1>1, WordsKnown, ParsesExpect, ParsesThen
<1> HIDE DEF y
<1>3. Parses(z, 0, 2)
  <2>1. Parses(Expression, 1, 1 + 1)
    BY ParsesExpression
  <2> QED  BY <1>2, <2>1, ParsesThen
<1> HIDE DEF z
<1>4. Parses(<<Build(n)>>, 2, 2 - 2 + 1)
  BY ParsesBuild
<1>5. Parses(z \o <<Build(n)>>, 0, 1)
  BY <1>3, <1>4, ParsesThen
<1> QED  BY <1>5 DEF Definition, x, y, z

LEMMA ParsesParameters ==
    ASSUME NEW l \in Lists
    PROVE  Parses(<<[do |-> "parameters", list |-> l]>>, 0, 0)
<1> DEFINE e == [do |-> "parameters", list |-> l]
<1>1. e \in [do : {"parameters"}, list : Lists] /\ e.do = "parameters"
  OBVIOUS
<1> HIDE DEF e
<1>2. e \in Plain
  BY <1>1 DEF Items, Plain, Outer
<1>3. Takes(e) = 0 /\ Leaves(e) = 0
  BY <1>1 DEF Takes, Leaves
<1>4. Parses(<<e>>, 0, 0 - 0 + 0)
  BY <1>2, <1>3, ParsesOne
<1> QED  BY <1>4 DEF e

LEMMA ParsesParameterList ==
    ASSUME NEW l \in Lists
    PROVE  Parses(ParameterList(l), 0, 0)
<1>1. Parses(<<Expect("(")>>, 0, 0)
  BY WordsKnown, ParsesExpect
<1> QED  BY <1>1, ParsesParameters, ParsesPair DEF ParameterList

LEMMA ParsesSignature == Parses(Signature, 0, 0)
<1>1. Parses(ParameterList("arguments"), 0, 0) /\ Parses(ParameterList("returns"), 0, 0)
  BY ParsesParameterList DEF Lists
<1>2. Parses(<<Expect(":")>>, 0, 0)
  BY WordsKnown, ParsesExpect
<1>3. Parses(ParameterList("arguments") \o <<Expect(":")>>, 0, 0)
  BY <1>1, <1>2, ParsesThen
<1> QED  BY <1>1, <1>3, ParsesThen DEF Signature

-----------------------------------------------------------------------------
(* The trees of a node's children, one after another, are a list of nodes. *)
LEMMA FlattenSeqType ==
    ASSUME NEW S, NEW s \in Seq(Seq(S))
    PROVE  FlattenSeq(s) \in Seq(S)
<1>1. PICK n \in Nat : n = Len(s)
  OBVIOUS
<1>2. CASE n = 0
  <2>1. Len(s) = 0 /\ IsSeq(s)
    BY <1>1, <1>2 DEF IsSeq
  <2>2. s = <<>>
    BY <2>1, SeqLength
  <2>3. FlattenSeq(s) = s
    BY <2>1 DEF FlattenSeq
  <2>4. <<>> \in Seq(S)
    OBVIOUS
  <2> QED  BY <2>2, <2>3, <2>4
<1>3. CASE n # 0
  <2> DEFINE D == 1 .. n
             Is(f) == f = [i \in D |-> IF i = 1 THEN s[i] ELSE f[i - 1] \o s[i]]
             F == [i \in 1 + 1 .. n |-> [x \in Seq(S) |-> x \o s[i]]]
  <2>1. \A i \in D : s[i] \in Seq(S)
    BY <1>1
  <2>2. 1 + 1 = 2 /\ \A i \in 1 + 1 .. n : i \in D /\ i - 1 \in D /\ i # 1
    OBVIOUS
  <2>3. F \in [1 + 1 .. n -> [Seq(S) -> Seq(S)]]
    BY <2>1, <2>2
  <2>4. \A i \in 1 + 1 .. n : \A x \in Seq(S) : F[i][x] = x \o s[i]
    OBVIOUS
  <2>5. 1 \in D /\ s[1] \in Seq(S) /\ 1 \in Nat /\ 1 <= n
    BY <1>3, <2>1
  <2> HIDE DEF F
  <2>6. PICK f : Iterates(f, Seq(S), 1, n, s[1], F)
    <3>1. Steps(F, Seq(S), 1, n)
      BY <2>3 DEF Steps
    <3> QED  BY <3>1, <2>5, Iteration
  <2>7. f \in [D -> Seq(S)] /\ f[1] = s[1] /\ \A i \in 1 + 1 .. n : f[i] = F[i][f[i - 1]]
    BY <2>6 DEF Iterates
  <2>8. ASSUME NEW i \in D
        PROVE  f[i] = IF i = 1 THEN s[i] ELSE f[i - 1] \o s[i]
    <3>1. CASE i = 1
      BY <2>7, <3>1
    <3>2. CASE i # 1
      <4>1. i \in 1 + 1 .. n
        BY <3>2
      <4>2. f[i - 1] \in Seq(S)
        BY <2>2, <2>7, <4>1
      <4> QED  BY <2>4, <2>7, <3>2, <4>1, <4>2
    <3> QED  BY <3>1, <3>2
  <2>9. Is(f)
    BY <2>7, <2>8
  <2> DEFINE g == CHOOSE h : Is(h)
  <2>10. Is(g)
    BY <2>9
  <2> HIDE DEF g
  <2>11. g[1] = f[1] /\ \A i \in 1 + 1 .. n : g[i] = g[i - 1] \o s[i]
    BY <2>2, <2>5, <2>7, <2>10
  <2>12. \A i \in 1 + 1 .. n : g[i - 1] = f[i - 1] => g[i] = f[i]
    BY <2>2, <2>8, <2>11
  <2>13. \A i \in 1 .. n : g[i] = f[i]
    <3>1. Follows(g, f, 1, n)
      BY <2>11, <2>12 DEF Follows
    <3> QED  BY <3>1, <2>5, SameIteration
  <2>14. n \in D
    BY <1>3
  <2>15. g[n] \in Seq(S)
    BY <2>7, <2>13, <2>14
  <2>16. FlattenSeq(s) = g[n]
    BY <1>1, <1>3 DEF FlattenSeq, g
  <2> QED  BY <2>15, <2>16
<1> QED  BY <1>2, <1>3

(* If there are enough trees for each, the count comes out at 1.           *)
LEMMA TreesCounted ==
    ASSUME NEW h \in Nat, NEW t \in Seq(Items), Goes(h, t, 1)
    PROVE  LET trees[i \in 0 .. Len(t)] ==
                   IF i = 0 THEN h ELSE After(trees[i - 1], t[i])
           IN  trees[Len(t)] = 1
<1>1. PICK n \in Nat : n = Len(t)
  OBVIOUS
<1> DEFINE D == 0 .. n
           Is(f) == f = [i \in D |-> IF i = 0 THEN h ELSE After(f[i - 1], t[i])]
<1>2. PICK f : Counts(f, h, t, 1)
  BY DEF Goes
<1>3. /\ f \in [D -> Nat] /\ f[0] = h /\ f[n] = 1
      /\ \A i \in 1 .. n :
            f[i - 1] >= Takes(t[i]) /\ f[i] = f[i - 1] - Takes(t[i]) + Leaves(t[i])
  BY <1>1, <1>2 DEF Counts
<1>4. ASSUME NEW i \in 1 .. n PROVE f[i] = After(f[i - 1], t[i])
  <2>1. t[i] \in Items /\ i - 1 \in D
    BY <1>1
  <2>2. Takes(t[i]) \in Nat /\ Leaves(t[i]) \in Nat
    BY <2>1, ItemCounts
  <2>3. f[i - 1] \in Nat
    BY <1>3, <2>1
  <2>4. f[i - 1] >= Takes(t[i]) /\ f[i] = f[i - 1] - Takes(t[i]) + Leaves(t[i])
    BY <1>3
  <2>5. ~ (f[i - 1] - Takes(t[i]) < 0)
    BY <2>2, <2>3, <2>4
  <2> QED  BY <2>4, <2>5 DEF After
<1>5. ASSUME NEW i \in D PROVE f[i] = IF i = 0 THEN h ELSE After(f[i - 1], t[i])
  <2>1. CASE i = 0
    BY <1>3, <2>1
  <2>2. CASE i # 0
    <3>1. i \in 1 .. n
      BY <2>2
    <3> QED  BY <1>4, <2>2, <3>1
  <2> QED  BY <2>1, <2>2
<1>6. Is(f)
  BY <1>3, <1>5
<1> DEFINE g == CHOOSE x : Is(x)
<1>7. Is(g)
  BY <1>6
<1> HIDE DEF g
<1>8. 0 \in D /\ 0 + 1 = 1 /\ \A i \in 1 .. n : i \in D /\ i # 0
  OBVIOUS
<1>9. g[0] = f[0] /\ \A i \in 1 .. n : g[i] = After(g[i - 1], t[i])
  BY <1>3, <1>7, <1>8
<1>10. \A i \in 0 + 1 .. n : g[i - 1] = f[i - 1] => g[i] = f[i]
  BY <1>4, <1>8, <1>9
<1>11. \A i \in 0 .. n : g[i] = f[i]
  <2>1. Follows(g, f, 0, n)
    BY <1>9, <1>10 DEF Follows
  <2> QED  BY <2>1, SameIteration
<1>12. g[n] = 1
  BY <1>3, <1>11
<1> QED  BY <1>1, <1>12 DEF g

-----------------------------------------------------------------------------
(* The inductive invariant.                                                *)
Inv == TypeOK /\ Balanced(todo, Len(built))

LEMMA Reading ==
    ASSUME NEW s \in Stages, source \in Sources, text \in [Stages -> Seq(Words)],
           NEW w \in Seq(Words), ReadWord(s, w)
    PROVE  token' \in Words \cup {EOF} /\ text' \in [Stages -> Seq(Words)]
<1>1. PICK t \in Readable(s, Len(w)) :
         token' = t /\ text' = [text EXCEPT ![s] = IF t = EOF THEN w ELSE Append(w, t)]
  BY DEF ReadWord
<1>2. source \in [Stages -> [length : Nat, words : SUBSET Words]]
  BY SourcesAssumption
<1>3. source[s].words \subseteq Words
  BY <1>2
<1>4. t \in Words \cup {EOF}
  BY <1>3 DEF Readable
<1>5. (IF t = EOF THEN w ELSE Append(w, t)) \in Seq(Words)
  BY <1>4
<1> QED  BY <1>1, <1>4, <1>5

(* What is at the head of the list.                                        *)
LEMMA AtHead ==
    ASSUME Inv, NEW d, At(d), d \notin {"code", "toplevel"}
    PROVE  /\ Do \in Plain /\ Do \in Items /\ KindOf(Do) /\ Do.do = d
           /\ Len(built) \in Nat /\ Len(built) >= Takes(Do)
           /\ Takes(Do) \in Nat /\ Leaves(Do) \in {0, 1}
           /\ built \in Seq(Seq(Nodes)) /\ status = "parsing"
           /\ type \in Types \cup {Infer} /\ lists \in [Lists -> Seq(Params)]
           /\ token \in Words \cup {EOF}
<1>1. Balanced(todo, Len(built)) /\ TypeOK
  BY DEF Inv
<1>2. todo \in Seq(Items) /\ todo # <<>> /\ Len(built) \in Nat /\ Goes(Len(built), todo, 1)
  BY <1>1 DEF Balanced, Pending
<1>3. Do \in Items /\ Len(built) >= Takes(Do)
  BY <1>2, GoesFirst DEF Do
<1>4. Do.do = d /\ status = "parsing"
  BY DEF At
<1>5. Do \in Plain
  BY <1>3, <1>4 DEF Plain, Outer
<1> QED  BY <1>1, <1>2, <1>3, <1>4, <1>5, ItemKinds, ItemCounts DEF TypeOK

(* A step of the parser that goes on.                                      *)
LEMMA Advance ==
    ASSUME Inv, Do \in Plain, status = "parsing", NEW w, Consume(w) \/ Stay(w),
           source' = source, stage' = stage,
           type' \in Types \cup {Infer}, lists' \in [Lists -> Seq(Params)],
           built' \in Seq(Seq(Nodes)),
           NEW n \in Nat, NEW m \in Nat, Parses(w, n, m), Len(built') >= n,
           Len(built') - n + m = Len(built) - Takes(Do) + Leaves(Do)
    PROVE  Inv'
<1>1. Balanced(todo, Len(built))
  BY DEF Inv
<1>2. todo' = w \o Tail(todo)
  BY DEF Consume, Stay
<1>3. Len(built') \in Nat
  OBVIOUS
<1>4. Balanced(w \o Tail(todo), Len(built'))
  BY <1>1, <1>3, Progress DEF Do
<1>5. Balanced(todo', Len(built'))
  BY <1>2, <1>4
<1>6. todo' \in Seq(Items)
  BY <1>5 DEF Balanced, Pending
<1>7. token' \in Words \cup {EOF} /\ text' \in [Stages -> Seq(Words)] /\ status' = status
  <2>1. CASE Consume(w)
    <3>1. stage \in Stages /\ source \in Sources /\ text \in [Stages -> Seq(Words)]
      BY DEF Inv, TypeOK
    <3>2. text[stage] \in Seq(Words)
      BY <3>1
    <3> QED  BY <2>1, <3>1, <3>2, Reading DEF Consume
  <2>2. CASE Stay(w)
    BY <2>2 DEF Stay, Inv, TypeOK
  <2> QED  BY <2>1, <2>2
<1>8. TypeOK'
  BY <1>6, <1>7 DEF TypeOK, Inv
<1> QED  BY <1>5, <1>8 DEF Inv

(* ... one that has not yet built anything ...                             *)
LEMMA Descend ==
    ASSUME Inv, NEW d, At(d), d \notin {"code", "toplevel"},
           NEW w, Consume(w) \/ Stay(w), Parses(w, Takes(Do), Leaves(Do)),
           source' = source, stage' = stage, built' = built,
           type' \in Types \cup {Infer}, lists' \in [Lists -> Seq(Params)]
    PROVE  Inv'
<1>1. /\ Do \in Plain /\ status = "parsing" /\ built' \in Seq(Seq(Nodes))
      /\ Takes(Do) \in Nat /\ Leaves(Do) \in Nat /\ Len(built') = Len(built)
      /\ Len(built) >= Takes(Do)
  BY AtHead
<1> QED  BY <1>1, Advance

(* ... and an error.                                                       *)
LEMMA Stops ==
    ASSUME Inv, Reject, UNCHANGED <<source, stage, built, type, lists>>
    PROVE  Inv'
BY DEF Inv, TypeOK, Reject

-----------------------------------------------------------------------------
(* Each parse function keeps the invariant: expressions ...                *)
LEMMA ExpectKeeps == ASSUME Inv, ParseExpected PROVE Inv'
<1>1. At("expect") /\ UNCHANGED <<source, stage, built, type, lists>>
  BY DEF ParseExpected
<1>2. type' \in Types \cup {Infer} /\ lists' \in [Lists -> Seq(Params)]
      /\ Takes(Do) = 0 /\ Leaves(Do) = 0
  BY <1>1, AtHead DEF Takes, Leaves
<1>3. CASE Consume(<<>>)
  BY <1>1, <1>2, <1>3, ParsesNothing, Descend
<1>4. CASE Reject
  BY <1>1, <1>4, Stops
<1> QED  BY <1>3, <1>4 DEF ParseExpected

LEMMA BuildKeeps == ASSUME Inv, BuildNode PROVE Inv'
<1> DEFINE n == Len(built)
           k == Arity(Do.node)
           r == n - k
           s == SubSeq(built, r + 1, n)
           x == <<Do.node>> \o FlattenSeq(s)
<1>1. /\ At("build") /\ Stay(<<>>) /\ UNCHANGED <<source, stage, type, lists>>
      /\ built' = Append(SubSeq(built, 1, r), x)
  BY DEF BuildNode
<1>2. /\ Do \in Plain /\ KindOf(Do) /\ Do.do = "build" /\ status = "parsing"
      /\ n \in Nat /\ n >= Takes(Do) /\ built \in Seq(Seq(Nodes))
      /\ type' \in Types \cup {Infer} /\ lists' \in [Lists -> Seq(Params)]
  BY <1>1, AtHead
<1>3. Do.node \in Nodes
  BY <1>2 DEF KindOf
<1>4. k \in Nat /\ Takes(Do) = k /\ Leaves(Do) = 1
  BY <1>2, <1>3, ArityNumber DEF Takes, Leaves
<1> HIDE DEF k
<1>5. r \in 0 .. n /\ r + 1 >= 1
  BY <1>2, <1>4
<1>6. s \in Seq(Seq(Nodes)) /\ SubSeq(built, 1, r) \in Seq(Seq(Nodes))
      /\ Len(SubSeq(built, 1, r)) = r
  BY <1>2, <1>5
<1> HIDE DEF s
<1>7. x \in Seq(Nodes)
  <2>1. FlattenSeq(s) \in Seq(Nodes)
    BY <1>6, FlattenSeqType
  <2>2. <<Do.node>> \in Seq(Nodes)
    BY <1>3
  <2> HIDE DEF Do
  <2> QED  BY <2>1, <2>2
<1> HIDE DEF x
<1>8. built' \in Seq(Seq(Nodes)) /\ Len(built') = r + 1
  BY <1>1, <1>6, <1>7
<1>9. Len(built') >= 0 /\ Len(built') - 0 + 0 = n - Takes(Do) + Leaves(Do)
  BY <1>2, <1>4, <1>8
<1>10. source' = source /\ stage' = stage
  BY <1>1
<1> QED  BY <1>1, <1>2, <1>8, <1>9, <1>10, ParsesNothing, Advance

LEMMA PrecedenceNumber ==
    ASSUME NEW op
    PROVE  Precedence(op) \in Nat
BY DEF Precedence

LEMMA OperatorsKeep == ASSUME Inv, ParseOperators PROVE Inv'
<1>1. At("operators") /\ UNCHANGED <<source, stage, built, type, lists>>
  BY DEF ParseOperators
<1>2. /\ type' \in Types \cup {Infer} /\ lists' \in [Lists -> Seq(Params)]
      /\ Takes(Do) = 1 /\ Leaves(Do) = 1 /\ Do \in Plain
  BY <1>1, AtHead DEF Takes, Leaves
<1>3. CASE Stay(<<>>)
  BY <1>1, <1>2, <1>3, ParsesNothing, Descend
<1>4. CASE Reject
  BY <1>1, <1>4, Stops
<1>5. ASSUME token \in Operators, Precedence(token) # 0,
             Consume(Binary(Precedence(token) + 1) \o <<[do |-> "apply", op |-> token], Do>>)
      PROVE  Inv'
  <2> DEFINE p == Precedence(token)
             e == [do |-> "apply", op |-> token]
  <2>1. p \in Nat /\ p + 1 \in Nat /\ p > 0
    BY <1>5, PrecedenceNumber
  <2>2. e \in [do : {"apply"}, op : BinaryOperators] /\ e.do = "apply"
    BY <1>5, <2>1 DEF BinaryOperators
  <2> HIDE DEF p, e
  <2>3. e \in Plain
    BY <2>2 DEF Items, Plain, Outer
  <2>4. Takes(e) = 2 /\ Leaves(e) = 1
    BY <2>2 DEF Takes, Leaves
  <2>5. Parses(<<e>>, 2, 2 - 2 + 1)
    BY <2>3, <2>4, ParsesOne
  <2>6. Parses(<<Do>>, 1, 1 - 1 + 1)
    BY <1>2, ParsesOne
  <2>7. Parses(<<e, Do>>, 2, 1)
    BY <2>5, <2>6, ParsesPair
  <2>8. Parses(Binary(p + 1), 1, 1 + 1)
    BY <2>1, ParsesBinary
  <2>9. Parses(Binary(p + 1) \o <<e, Do>>, 1, 1)
    BY <2>7, <2>8, ParsesThen
  <2>10. Consume(Binary(p + 1) \o <<e, Do>>)
    BY <1>5 DEF p, e
  <2> QED  BY <1>1, <1>2, <2>9, <2>10, Descend
<1> QED  BY <1>3, <1>4, <1>5 DEF ParseOperators

LEMMA AppliedType ==
    ASSUME NEW op \in Operators, NEW lhs \in Seq(Nodes), NEW rhs \in Seq(Nodes)
    PROVE  Applied(op, lhs, rhs) \in Seq(Nodes)
<1>1. <<[op |-> "if"]>> \in Seq(Nodes) /\ Boolean \in Seq(Nodes)
  BY DEF Nodes, Boolean, Types
<1>2. Method(op) \in Names
  BY NamesAssumption
<1>3. CallOf(Method(op), 2) \in Nodes
  BY <1>2 DEF CallOf, Nodes
<1>4. <<CallOf(Method(op), 2)>> \in Seq(Nodes)
  BY <1>3
<1> DEFINE i == <<[op |-> "if"]>>
           c == <<CallOf(Method(op), 2)>>
           b == Boolean
<1> HIDE DEF i, c, b
<1>5. i \in Seq(Nodes) /\ b \in Seq(Nodes) /\ c \in Seq(Nodes)
  BY <1>1, <1>4 DEF i, b, c
<1>6. /\ i \o lhs \o rhs \o b \in Seq(Nodes)
      /\ i \o lhs \o b \o rhs \in Seq(Nodes)
      /\ c \o lhs \o rhs \in Seq(Nodes)
  BY <1>5
<1> QED  BY <1>6 DEF Applied, i, c, b

LEMMA ApplyKeeps == ASSUME Inv, ApplyOperator PROVE Inv'
<1> DEFINE n == Len(built)
           x == Applied(Do.op, built[n - 1], built[n])
<1>1. /\ At("apply") /\ Stay(<<>>) /\ UNCHANGED <<source, stage, type, lists>>
      /\ built' = Append(SubSeq(built, 1, n - 2), x)
  BY DEF ApplyOperator
<1>2. /\ Do \in Plain /\ KindOf(Do) /\ Do.do = "apply" /\ status = "parsing"
      /\ n \in Nat /\ n >= Takes(Do) /\ built \in Seq(Seq(Nodes))
      /\ type' \in Types \cup {Infer} /\ lists' \in [Lists -> Seq(Params)]
  BY <1>1, AtHead
<1>3. Do.op \in Operators
  BY <1>2 DEF KindOf, BinaryOperators
<1>4. Takes(Do) = 2 /\ Leaves(Do) = 1
  BY <1>2 DEF Takes, Leaves
<1>5. n >= 2 /\ n - 1 \in 1 .. n /\ n \in 1 .. n /\ n - 2 \in 0 .. n
  BY <1>2, <1>4
<1>6. built[n - 1] \in Seq(Nodes) /\ built[n] \in Seq(Nodes)
  BY <1>2, <1>5
<1>7. x \in Seq(Nodes)
  BY <1>3, <1>6, AppliedType
<1> HIDE DEF x
<1>8. SubSeq(built, 1, n - 2) \in Seq(Seq(Nodes)) /\ Len(SubSeq(built, 1, n - 2)) = n - 2
  <2>1. PICK r \in 0 .. n : r = n - 2
    BY <1>5
  <2>2. SubSeq(built, 1, r) \in Seq(Seq(Nodes)) /\ Len(SubSeq(built, 1, r)) = r
    BY <1>2, <2>1
  <2> QED  BY <2>1, <2>2
<1>9. built' \in Seq(Seq(Nodes)) /\ Len(built') = n - 1
  BY <1>1, <1>5, <1>7, <1>8
<1>10. Len(built') >= 0 /\ Len(built') - 0 + 0 = n - Takes(Do) + Leaves(Do)
  BY <1>2, <1>4, <1>9
<1>11. source' = source /\ stage' = stage
  BY <1>1
<1> QED  BY <1>1, <1>2, <1>9, <1>10, <1>11, ParsesNothing, Advance

LEMMA UnaryKeeps == ASSUME Inv, ParseUnary PROVE Inv'
<1>1. At("unary") /\ UNCHANGED <<source, stage, built, type, lists>>
  BY DEF ParseUnary
<1>2. /\ type' \in Types \cup {Infer} /\ lists' \in [Lists -> Seq(Params)]
      /\ Takes(Do) = 0 /\ Leaves(Do) = 1
  BY <1>1, AtHead DEF Takes, Leaves
<1>3. Parses(Tight, 0, 1)
  <2>1. Parses(Tight, 0, 0 + 1)
    BY ParsesTight
  <2> QED  BY <2>1
<1>4. CASE Stay(Tight)
  BY <1>1, <1>2, <1>3, <1>4, Descend
<1>5. ASSUME token \in {"-", "not"},
             Consume(Tight \o <<Build(CallOf(Method(token), 1))>>)
      PROVE  Inv'
  <2> DEFINE n == CallOf(Method(token), 1)
  <2>1. Method(token) \in Names
    BY <1>5, NamesAssumption DEF Operators
  <2>2. n \in Nodes /\ Arity(n) = 1
    BY <2>1 DEF Nodes, Arity, CallOf
  <2> HIDE DEF n
  <2>3. Parses(<<Build(n)>>, 1, 1 - 1 + 1)
    BY <2>2, ParsesBuild
  <2>4. Parses(Tight \o <<Build(n)>>, 0, 1)
    BY <1>3, <2>3, ParsesThen
  <2>5. Consume(Tight \o <<Build(n)>>)
    BY <1>5 DEF n
  <2> QED  BY <1>1, <1>2, <2>4, <2>5, Descend
<1> QED  BY <1>4, <1>5 DEF ParseUnary

LEMMA ParsesCall ==
    ASSUME NEW d \in {"arguments", "call", "inputs", "more"}, NEW x \in Names,
           NEW k \in Nat, NEW a \in Nat, a >= k
    PROVE  Parses(<<[do |-> d, name |-> x, argc |-> k]>>, a, a - k + 1)
<1> DEFINE e == [do |-> d, name |-> x, argc |-> k]
<1>1. /\ e \in [do : {"arguments", "call", "inputs", "more"}, name : Names, argc : Nat]
      /\ e.do \in {"arguments", "call", "inputs", "more"} /\ e.argc = k
  OBVIOUS
<1> HIDE DEF e
<1>2. e \in Plain
  BY <1>1 DEF Items, Plain, Outer
<1>3. Takes(e) = k /\ Leaves(e) = 1
  BY <1>1 DEF Takes, Leaves
<1>4. Parses(<<e>>, a, a - k + 1)
  BY <1>2, <1>3, ParsesOne
<1> QED  BY <1>4 DEF e

LEMMA ParsesElements ==
    ASSUME NEW o \in {"vector", "[]"}, NEW k \in Nat, NEW a \in Nat, a >= k
    PROVE  Parses(<<[do |-> "elements", of |-> o, argc |-> k]>>, a, a - k + 1)
<1> DEFINE e == [do |-> "elements", of |-> o, argc |-> k]
<1>1. /\ e \in [do : {"elements"}, of : {"vector", "[]"}, argc : Nat]
      /\ e.do = "elements" /\ e.argc = k
  OBVIOUS
<1> HIDE DEF e
<1>2. e \in Plain
  BY <1>1 DEF Items, Plain, Outer
<1>3. Takes(e) = k /\ Leaves(e) = 1
  BY <1>1 DEF Takes, Leaves
<1>4. Parses(<<e>>, a, a - k + 1)
  BY <1>2, <1>3, ParsesOne
<1> QED  BY <1>4 DEF e

LEMMA ParsesCallNode ==
    ASSUME NEW x \in Names, NEW k \in Nat
    PROVE  Parses(<<Build(CallOf(x, k))>>, k, 1)
<1> DEFINE n == CallOf(x, k)
<1>1. n \in Nodes /\ Arity(n) = k
  BY DEF Nodes, Arity, CallOf
<1> HIDE DEF n
<1>2. Parses(<<Build(n)>>, k, k - k + 1)
  BY <1>1, ParsesBuild
<1>3. k - k + 1 = 1
  OBVIOUS
<1> QED  BY <1>2, <1>3 DEF n

(* A call or an argument list that has k arguments so far.                 *)
LEMMA CallShape ==
    ASSUME KindOf(Do), NEW d \in {"arguments", "call", "inputs", "more"}, Do.do = d
    PROVE  /\ Do.name \in Names /\ Do.argc \in Nat
           /\ Do = [do |-> d, name |-> Do.name, argc |-> Do.argc]
           /\ Takes(Do) = Do.argc /\ Leaves(Do) = 1
<1>1. Do \in [do : {"arguments", "call", "inputs", "more"}, name : Names, argc : Nat]
  BY DEF KindOf
<1> HIDE DEF Do
<1>2. Do.name \in Names /\ Do.argc \in Nat
  BY <1>1
<1>3. Do = [do |-> d, name |-> Do.name, argc |-> Do.argc]
  BY <1>1
<1>4. Takes(Do) = Do.argc /\ Leaves(Do) = 1
  BY DEF Takes, Leaves
<1> QED  BY <1>2, <1>3, <1>4

LEMMA BooleanNodes == Boolean \in Seq(Nodes) /\ Real \in Seq(Nodes)
BY DEF Nodes, Boolean, Real, Types

LEMMA NamedType ==
    ASSUME NEW id \in Identifiers
    PROVE  Named(id) \in Seq(Nodes)
<1>1. id \in Names
  BY NamesAssumption
<1>2. [op |-> "return"] \in Nodes /\ [op |-> "var", name |-> id] \in Nodes
  BY <1>1 DEF Nodes
<1> QED  BY <1>2, BooleanNodes DEF Named

(* A leaf that is complete.                                                *)
LEMMA Returns ==
    ASSUME Inv, NEW d, At(d), d \notin {"code", "toplevel"},
           Takes(Do) = 0, Leaves(Do) = 1,
           NEW x \in Seq(Nodes), Return(x), Consume(<<>>) \/ Stay(<<>>),
           UNCHANGED <<source, stage, type, lists>>
    PROVE  Inv'
<1>1. /\ Do \in Plain /\ status = "parsing" /\ Len(built) \in Nat
      /\ built \in Seq(Seq(Nodes))
      /\ type' \in Types \cup {Infer} /\ lists' \in [Lists -> Seq(Params)]
  BY AtHead
<1>2. built' \in Seq(Seq(Nodes)) /\ Len(built') = Len(built) + 1
  BY <1>1 DEF Return
<1>3. Len(built') >= 0 /\ Len(built') - 0 + 0 = Len(built) - Takes(Do) + Leaves(Do)
  BY <1>1, <1>2
<1>4. source' = source /\ stage' = stage
  OBVIOUS
<1> QED  BY <1>1, <1>2, <1>3, <1>4, ParsesNothing, Advance

LEMMA ParsesName ==
    ASSUME NEW d \in {"name", "definition", "function"}, NEW x \in Identifiers
    PROVE  Parses(<<[do |-> d, name |-> x]>>, 0, 1)
<1> DEFINE e == [do |-> d, name |-> x]
<1>1. /\ e \in [do : {"name", "definition", "function", "lanes"}, name : Identifiers]
      /\ e.do \in {"name", "definition", "function"}
  OBVIOUS
<1> HIDE DEF e
<1>2. e \in Plain
  BY <1>1 DEF Items, Plain, Outer
<1>3. Takes(e) = 0 /\ Leaves(e) = 1
  BY <1>1 DEF Takes, Leaves
<1>4. Parses(<<e>>, 0, 0 - 0 + 1)
  BY <1>2, <1>3, ParsesOne
<1> QED  BY <1>4 DEF e

LEMMA LeafKeeps == ASSUME Inv, ParseLeaf PROVE Inv'
<1>1. At("leaf") /\ UNCHANGED <<source, stage, type, lists>>
  BY DEF ParseLeaf
<1>2. /\ type' \in Types \cup {Infer} /\ lists' \in [Lists -> Seq(Params)]
      /\ Takes(Do) = 0 /\ Leaves(Do) = 1
  BY <1>1, AtHead DEF Takes, Leaves
<1>3. CASE Return(Real) /\ Consume(<<>>)
  BY <1>1, <1>2, <1>3, BooleanNodes, Returns
<1>4. ASSUME Alternative, UNCHANGED built PROVE Inv'
  <2>1. ASSUME NEW w, Consume(w), Parses(w, 0, 1) PROVE Inv'
    <3>1. source' = source /\ stage' = stage /\ built' = built
      BY <1>1, <1>4
    <3> QED  BY <1>1, <1>2, <2>1, <3>1, Descend
  <2>2. CASE Consume(Expression \o <<Expect(")")>>)
    <3>1. Parses(Expression \o <<Expect(")")>>, 0, 0 + 1)
      BY WordsKnown, ParsesUpTo
    <3> QED  BY <2>1, <2>2, <3>1
  <2>3. CASE Consume(<<Step("vector")>>) \/ Consume(<<Step("let")>>)
    <3>1. Parses(<<Step("vector")>>, 0, 0 + 1) /\ Parses(<<Step("let")>>, 0, 0 + 1)
      BY ParsesStep
    <3> QED  BY <2>1, <2>3, <3>1
  <2>4. CASE Consume(Condition)
    BY <2>1, <2>4, ParsesCondition
  <2>5. CASE token \in Identifiers /\ Consume(<<[do |-> "name", name |-> token]>>)
    BY <2>1, <2>5, ParsesName
  <2>6. CASE Reject
    BY <1>1, <1>4, <2>6, Stops
  <2> QED  BY <1>4, <2>2, <2>3, <2>4, <2>5, <2>6 DEF Alternative
<1> QED  BY <1>3, <1>4 DEF ParseLeaf

LEMMA NameKeeps == ASSUME Inv, ParseName PROVE Inv'
<1>1. At("name") /\ UNCHANGED <<source, stage, type, lists>>
  BY DEF ParseName
<1>2. /\ type' \in Types \cup {Infer} /\ lists' \in [Lists -> Seq(Params)]
      /\ Takes(Do) = 0 /\ Leaves(Do) = 1 /\ KindOf(Do) /\ Do.do = "name"
  BY <1>1, AtHead DEF Takes, Leaves
<1>3. Do.name \in Identifiers
  BY <1>2 DEF KindOf
<1>4. CASE /\ Consume(<<[do |-> "arguments", name |-> Do.name, argc |-> 0]>>)
           /\ UNCHANGED built
  <2>1. Do.name \in Names
    BY <1>3, NamesAssumption
  <2>2. Parses(<<[do |-> "arguments", name |-> Do.name, argc |-> 0]>>, 0, 0 - 0 + 1)
    BY <2>1, ParsesCall
  <2>3. source' = source /\ stage' = stage /\ built' = built /\ 0 - 0 + 1 = 1
    BY <1>1, <1>4
  <2> QED  BY <1>1, <1>2, <1>4, <2>2, <2>3, Descend
<1>5. CASE Return(Named(Do.name)) /\ Stay(<<>>)
  BY <1>1, <1>2, <1>3, <1>5, NamedType, Returns
<1> QED  BY <1>4, <1>5 DEF ParseName

LEMMA ArgumentsKeep == ASSUME Inv, ParseArguments PROVE Inv'
<1> DEFINE k == Do.argc
           w == Expression \o <<Step("separator"), [Do EXCEPT !.argc = @ + 1]>>
<1>1. At("arguments") /\ UNCHANGED <<source, stage, built, type, lists>>
  BY DEF ParseArguments
<1>2. /\ type' \in Types \cup {Infer} /\ lists' \in [Lists -> Seq(Params)]
      /\ Do.name \in Names /\ k \in Nat /\ Takes(Do) = k /\ Leaves(Do) = 1
      /\ Do = [do |-> "arguments", name |-> Do.name, argc |-> k]
  BY <1>1, AtHead, CallShape
<1>3. Parses(<<Build(CallOf(Do.name, k))>>, k, 1)
  BY <1>2, ParsesCallNode
<1>4. [Do EXCEPT !.argc = @ + 1] = [do |-> "arguments", name |-> Do.name, argc |-> k + 1]
  <2> HIDE DEF Do
  <2> QED  BY <1>2
<1>5. Parses(w, k, 1)
  <2>1. k + 1 \in Nat /\ (k + 1) - (k + 1) + 1 = 1
    BY <1>2
  <2>2. Parses(Expression, k, k + 1)
    BY <1>2, ParsesExpression
  <2>3. Parses(<<Step("separator")>>, k + 1, k + 1)
    BY <2>1, ParsesStep
  <2>4. Parses(<<[do |-> "arguments", name |-> Do.name, argc |-> k + 1]>>, k + 1, 1)
    BY <1>2, <2>1, ParsesCall
  <2>5. Parses(<<Step("separator"), [Do EXCEPT !.argc = @ + 1]>>, k + 1, 1)
    BY <1>4, <2>1, <2>3, <2>4, ParsesPair
  <2> QED  BY <1>2, <2>1, <2>2, <2>5, ParsesThen
<1>6. Consume(<<Build(CallOf(Do.name, k))>>) \/ Stay(w)
  BY DEF ParseArguments
<1> HIDE DEF w
<1>7. source' = source /\ stage' = stage /\ built' = built
  BY <1>1
<1> QED  BY <1>1, <1>2, <1>3, <1>5, <1>6, <1>7, Descend

LEMMA SeparatorKeeps == ASSUME Inv, ParseSeparator PROVE Inv'
<1>1. At("separator") /\ UNCHANGED <<source, stage, built, type, lists>>
  BY DEF ParseSeparator
<1>2. type' \in Types \cup {Infer} /\ lists' \in [Lists -> Seq(Params)]
      /\ Takes(Do) = 0 /\ Leaves(Do) = 0
  BY <1>1, AtHead DEF Takes, Leaves
<1>3. CASE Consume(<<>>) \/ Stay(<<>>)
  BY <1>1, <1>2, <1>3, ParsesNothing, Descend
<1>4. CASE Reject
  BY <1>1, <1>4, Stops
<1> QED  BY <1>3, <1>4 DEF ParseSeparator

LEMMA PostfixKeeps == ASSUME Inv, ParsePostfix PROVE Inv'
<1> DEFINE w == Expression \o <<[do |-> "elements", of |-> "[]", argc |-> 2]>>
<1>1. At("postfix") /\ UNCHANGED <<source, stage, built, type, lists>>
  BY DEF ParsePostfix
<1>2. type' \in Types \cup {Infer} /\ lists' \in [Lists -> Seq(Params)]
      /\ Takes(Do) = 1 /\ Leaves(Do) = 1
  BY <1>1, AtHead DEF Takes, Leaves
<1>3. Parses(<<>>, 1, 1)
  BY ParsesNothing
<1>4. Parses(<<Step("method")>>, 1, 1)
  BY ParsesStep
<1>5. Parses(w, 1, 1)
  <2>1. Parses(Expression, 1, 1 + 1)
    BY ParsesExpression
  <2>2. Parses(<<[do |-> "elements", of |-> "[]", argc |-> 2]>>, 2, 2 - 2 + 1)
    BY ParsesElements
  <2> QED  BY <2>1, <2>2, ParsesThen
<1>6. Consume(<<Step("method")>>) \/ Consume(w) \/ Stay(<<>>)
  BY DEF ParsePostfix
<1> HIDE DEF w
<1>7. source' = source /\ stage' = stage /\ built' = built
  BY <1>1
<1> QED  BY <1>1, <1>2, <1>3, <1>4, <1>5, <1>6, <1>7, Descend

LEMMA MethodKeeps == ASSUME Inv, ParseMethod PROVE Inv'
<1>1. At("method") /\ UNCHANGED <<source, stage, built, type, lists>>
  BY DEF ParseMethod
<1>2. type' \in Types \cup {Infer} /\ lists' \in [Lists -> Seq(Params)]
      /\ Takes(Do) = 1 /\ Leaves(Do) = 1
  BY <1>1, AtHead DEF Takes, Leaves
<1>3. ASSUME token \in Identifiers,
             Consume(<<[do |-> "call", name |-> Method(token), argc |-> 1]>>)
      PROVE  Inv'
  <2>1. Method(token) \in Names
    BY <1>3, NamesAssumption
  <2>2. Parses(<<[do |-> "call", name |-> Method(token), argc |-> 1]>>, 1, 1 - 1 + 1)
    BY <2>1, ParsesCall
  <2>3. source' = source /\ stage' = stage /\ built' = built /\ 1 - 1 + 1 = 1
    BY <1>1
  <2> QED  BY <1>1, <1>2, <1>3, <2>2, <2>3, Descend
<1>4. CASE Reject
  BY <1>1, <1>4, Stops
<1> QED  BY <1>3, <1>4 DEF ParseMethod

LEMMA MethodCallKeeps == ASSUME Inv, ParseMethodCall PROVE Inv'
<1> DEFINE k == Do.argc
<1>1. At("call") /\ UNCHANGED <<source, stage, built, type, lists>>
  BY DEF ParseMethodCall
<1>2. /\ type' \in Types \cup {Infer} /\ lists' \in [Lists -> Seq(Params)]
      /\ Do.name \in Names /\ k \in Nat /\ Takes(Do) = k /\ Leaves(Do) = 1
      /\ Do = [do |-> "call", name |-> Do.name, argc |-> k]
  BY <1>1, AtHead, CallShape
<1>3. Parses(<<Build(CallOf(Do.name, k))>>, k, 1)
  BY <1>2, ParsesCallNode
<1>4. [Do EXCEPT !.do = "inputs"] = [do |-> "inputs", name |-> Do.name, argc |-> k]
  <2> HIDE DEF Do
  <2> QED  BY <1>2
<1>5. Parses(<<[Do EXCEPT !.do = "inputs"]>>, k, 1)
  <2>1. k - k + 1 = 1
    BY <1>2
  <2>2. Parses(<<[do |-> "inputs", name |-> Do.name, argc |-> k]>>, k, k - k + 1)
    BY <1>2, ParsesCall
  <2> QED  BY <1>4, <2>1, <2>2
<1>6. /\ Consume(<<[Do EXCEPT !.do = "inputs"]>>) \/ Stay(<<Build(CallOf(Do.name, k))>>)
      /\ source' = source /\ stage' = stage /\ built' = built
  BY <1>1 DEF ParseMethodCall
<1> QED  BY <1>1, <1>2, <1>3, <1>5, <1>6, Descend

LEMMA MethodArgumentsKeep == ASSUME Inv, ParseMethodArguments PROVE Inv'
<1> DEFINE k == Do.argc
           e == [do |-> "more", name |-> Do.name, argc |-> k + 1]
           w == Expression \o <<e>>
<1>1. At("inputs") /\ UNCHANGED <<source, stage, built, type, lists>>
  BY DEF ParseMethodArguments
<1>2. /\ type' \in Types \cup {Infer} /\ lists' \in [Lists -> Seq(Params)]
      /\ Do.name \in Names /\ k \in Nat /\ Takes(Do) = k /\ Leaves(Do) = 1
      /\ Do = [do |-> "inputs", name |-> Do.name, argc |-> k]
  BY <1>1, AtHead, CallShape
<1>3. Parses(<<Build(CallOf(Do.name, k))>>, k, 1)
  BY <1>2, ParsesCallNode
<1>4. Consume(<<Build(CallOf(Do.name, k))>>) \/ Stay(w)
  BY DEF ParseMethodArguments
<1> HIDE DEF e
<1>5. Parses(w, k, 1)
  <2>1. k + 1 \in Nat /\ (k + 1) - (k + 1) + 1 = 1
    BY <1>2
  <2>2. Parses(Expression, k, k + 1)
    BY <1>2, ParsesExpression
  <2>3. Parses(<<e>>, k + 1, 1)
    BY <1>2, <2>1, ParsesCall DEF e
  <2> QED  BY <1>2, <2>1, <2>2, <2>3, ParsesThen
<1> HIDE DEF w
<1>6. source' = source /\ stage' = stage /\ built' = built
  BY <1>1
<1> QED  BY <1>1, <1>2, <1>3, <1>4, <1>5, <1>6, Descend

LEMMA MethodCommaKeeps == ASSUME Inv, ParseMethodComma PROVE Inv'
<1> DEFINE k == Do.argc
           w == <<Expect(")"), Build(CallOf(Do.name, k))>>
<1>1. At("more") /\ UNCHANGED <<source, stage, built, type, lists>>
  BY DEF ParseMethodComma
<1>2. /\ type' \in Types \cup {Infer} /\ lists' \in [Lists -> Seq(Params)]
      /\ Do.name \in Names /\ k \in Nat /\ Takes(Do) = k /\ Leaves(Do) = 1
      /\ Do = [do |-> "more", name |-> Do.name, argc |-> k]
  BY <1>1, AtHead, CallShape
<1>3. Parses(w, k, 1)
  <2>1. Parses(<<Build(CallOf(Do.name, k))>>, k, 1)
    BY <1>2, ParsesCallNode
  <2>2. Parses(<<Expect(")")>>, k, k)
    BY <1>2, WordsKnown, ParsesExpect
  <2> DEFINE b == Build(CallOf(Do.name, k))
  <2>3. k \in Nat /\ Parses(<<b>>, k, 1)
    BY <1>2, <2>1
  <2> HIDE DEF b, k
  <2>4. Parses(<<Expect(")"), b>>, k, 1)
    BY <2>2, <2>3, ParsesPair
  <2> QED  BY <2>4 DEF b
<1>4. [Do EXCEPT !.do = "inputs"] = [do |-> "inputs", name |-> Do.name, argc |-> k]
  <2> HIDE DEF Do
  <2> QED  BY <1>2
<1>5. Parses(<<[Do EXCEPT !.do = "inputs"]>>, k, 1)
  <2>1. k - k + 1 = 1
    BY <1>2
  <2>2. Parses(<<[do |-> "inputs", name |-> Do.name, argc |-> k]>>, k, k - k + 1)
    BY <1>2, ParsesCall
  <2> QED  BY <1>4, <2>1, <2>2
<1>6. Consume(<<[Do EXCEPT !.do = "inputs"]>>) \/ Stay(w)
  BY DEF ParseMethodComma
<1> HIDE DEF w
<1>7. source' = source /\ stage' = stage /\ built' = built
  BY <1>1
<1> QED  BY <1>1, <1>2, <1>3, <1>5, <1>6, <1>7, Descend

LEMMA VectorKeeps == ASSUME Inv, ParseVector PROVE Inv'
<1> DEFINE w == Expression \o <<[do |-> "elements", of |-> "vector", argc |-> 1]>>
<1>1. At("vector") /\ UNCHANGED <<source, stage, built, type, lists>>
  BY DEF ParseVector
<1>2. type' \in Types \cup {Infer} /\ lists' \in [Lists -> Seq(Params)]
      /\ Takes(Do) = 0 /\ Leaves(Do) = 1
  BY <1>1, AtHead DEF Takes, Leaves
<1>3. Parses(<<Step("splat")>>, 0, 0 + 1)
  BY ParsesStep
<1>4. Parses(w, 0, 1)
  <2>1. Parses(Expression, 0, 0 + 1)
    BY ParsesExpression
  <2>2. Parses(<<[do |-> "elements", of |-> "vector", argc |-> 1]>>, 1, 1 - 1 + 1)
    BY ParsesElements
  <2> QED  BY <2>1, <2>2, ParsesThen
<1>5. Consume(<<Step("splat")>>) \/ Stay(w)
  BY DEF ParseVector
<1> HIDE DEF w
<1>6. source' = source /\ stage' = stage /\ built' = built /\ 0 + 1 = 1
  BY <1>1
<1> QED  BY <1>1, <1>2, <1>3, <1>4, <1>5, <1>6, Descend

LEMMA SplatKeeps == ASSUME Inv, ParseSplat PROVE Inv'
<1> DEFINE n == [op |-> "splat"]
           u == <<Expect("]"), Build(n)>>
<1>1. At("splat") /\ UNCHANGED <<source, stage, built, type, lists>>
  BY DEF ParseSplat
<1>2. type' \in Types \cup {Infer} /\ lists' \in [Lists -> Seq(Params)]
      /\ Takes(Do) = 0 /\ Leaves(Do) = 1
  BY <1>1, AtHead DEF Takes, Leaves
<1>3. Consume(Expression \o u) \/ Reject
  BY DEF ParseSplat
<1>4. n \in Nodes /\ Arity(n) = 1
  BY DEF Nodes, Arity
<1> HIDE DEF n
<1>5. Parses(u, 1, 1)
  <2>1. Parses(<<Build(n)>>, 1, 1 - 1 + 1)
    BY <1>4, ParsesBuild
  <2>2. Parses(<<Expect("]")>>, 1, 1)
    BY WordsKnown, ParsesExpect
  <2> QED  BY <2>1, <2>2, ParsesPair
<1> HIDE DEF u
<1>6. CASE Consume(Expression \o u)
  <2>1. Parses(Expression, 0, 0 + 1)
    BY ParsesExpression
  <2>2. Parses(Expression \o u, 0, 1)
    BY <1>5, <2>1, ParsesThen
  <2> QED  BY <1>1, <1>2, <1>6, <2>2, Descend
<1>7. CASE Reject
  BY <1>1, <1>7, Stops
<1> QED  BY <1>3, <1>6, <1>7

LEMMA ElementsKeep == ASSUME Inv, ParseElements PROVE Inv'
<1> DEFINE k == Do.argc
           o == Do.of
           n == IF o = "vector" THEN [op |-> "vector", argc |-> k]
                ELSE CallOf(Method("[]"), k)
           u == <<Expect("]"), Build(n)>>
           e == [Do EXCEPT !.argc = @ + 1]
           w == Expression \o <<e>>
<1>1. At("elements") /\ UNCHANGED <<source, stage, built, type, lists>>
  BY DEF ParseElements
<1>2. /\ type' \in Types \cup {Infer} /\ lists' \in [Lists -> Seq(Params)]
      /\ Do.do = "elements" /\ KindOf(Do)
  BY <1>1, AtHead
<1>3. Do \in [do : {"elements"}, of : {"vector", "[]"}, argc : Nat]
  BY <1>2 DEF KindOf
<1>4. k \in Nat /\ o \in {"vector", "[]"}
      /\ e = [do |-> "elements", of |-> o, argc |-> k + 1]
  <2> HIDE DEF Do
  <2> QED  BY <1>3
<1>5. Takes(Do) = k /\ Leaves(Do) = 1
  BY <1>2 DEF Takes, Leaves
<1>6. Consume(w) \/ Stay(u)
  BY DEF ParseElements
<1> HIDE DEF k, o, e
<1>7. n \in Nodes /\ Arity(n) = k
  <2>1. CASE o = "vector"
    BY <1>4, <2>1 DEF Nodes, Arity
  <2>2. CASE o # "vector"
    <3>1. Method("[]") \in Names
      BY NamesAssumption
    <3> QED  BY <1>4, <2>2, <3>1 DEF Nodes, Arity, CallOf
  <2> QED  BY <2>1, <2>2
<1> HIDE DEF n
<1>8. Parses(u, k, 1)
  <2>1. Parses(<<Build(n)>>, k, k - k + 1)
    BY <1>4, <1>7, ParsesBuild
  <2>2. Parses(<<Expect("]")>>, k, k)
    BY <1>4, WordsKnown, ParsesExpect
  <2>3. k - k + 1 = 1
    BY <1>4
  <2> QED  BY <1>4, <2>1, <2>2, <2>3, ParsesPair
<1>9. Parses(w, k, 1)
  <2>1. k + 1 \in Nat /\ (k + 1) - (k + 1) + 1 = 1
    BY <1>4
  <2>2. Parses(Expression, k, k + 1)
    BY <1>4, ParsesExpression
  <2>3. Parses(<<[do |-> "elements", of |-> o, argc |-> k + 1]>>, k + 1, 1)
    BY <1>4, <2>1, ParsesElements
  <2> QED  BY <1>4, <2>1, <2>2, <2>3, ParsesThen
<1> HIDE DEF u, w
<1>10. source' = source /\ stage' = stage /\ built' = built
  BY <1>1
<1> QED  BY <1>1, <1>2, <1>5, <1>6, <1>8, <1>9, <1>10, Descend

-----------------------------------------------------------------------------
(* ... types, parameters and definitions ...                               *)
LEMMA TypespecKeeps == ASSUME Inv, ParseTypespec PROVE Inv'
<1>1. At("typespec") /\ UNCHANGED <<source, stage, built, lists>>
  BY DEF ParseTypespec
<1>2. /\ type \in Types \cup {Infer} /\ lists' \in [Lists -> Seq(Params)]
      /\ Takes(Do) = 0 /\ Leaves(Do) = 0
  BY <1>1, AtHead DEF Takes, Leaves
<1>3. type' \in Types \cup {Infer}
  BY <1>2 DEF ParseTypespec
<1>4. Parses(<<Step("typename")>>, 0, 0) /\ Parses(<<>>, 0, 0)
  BY ParsesStep, ParsesNothing
<1>5. Consume(<<Step("typename")>>) \/ Stay(<<>>)
  BY DEF ParseTypespec
<1> QED  BY <1>1, <1>2, <1>3, <1>4, <1>5, Descend

(* A type's name that is looked at or looked up.                           *)
LEMMA ParsesTypeName ==
    /\ \A x \in Identifiers : Parses(<<[do |-> "lanes", name |-> x]>>, 0, 0)
    /\ \A x \in Sized : Parses(<<[do |-> "size", name |-> x]>>, 0, 0)
    /\ \A x \in Identifiers \cup VectorNames :
          Parses(<<[do |-> "find", name |-> x]>>, 0, 0)
<1>1. ASSUME NEW e \in Items, e.do \in {"lanes", "size", "find"}
      PROVE  Parses(<<e>>, 0, 0)
  <2>1. e \in Plain
    BY <1>1 DEF Plain, Outer
  <2>2. Takes(e) = 0 /\ Leaves(e) = 0
    BY <1>1 DEF Takes, Leaves
  <2>3. Parses(<<e>>, 0, 0 - 0 + 0)
    BY <2>1, <2>2, ParsesOne
  <2> QED  BY <2>3
<1>2. ASSUME NEW x \in Identifiers PROVE Parses(<<[do |-> "lanes", name |-> x]>>, 0, 0)
  <2> DEFINE e == [do |-> "lanes", name |-> x]
  <2>1. /\ e \in [do : {"name", "definition", "function", "lanes"}, name : Identifiers]
        /\ e.do = "lanes"
    OBVIOUS
  <2> HIDE DEF e
  <2>2. e \in Items
    BY <2>1 DEF Items
  <2>3. Parses(<<e>>, 0, 0)
    BY <1>1, <2>1, <2>2
  <2> QED  BY <2>3 DEF e
<1>3. ASSUME NEW x \in Sized PROVE Parses(<<[do |-> "size", name |-> x]>>, 0, 0)
  <2> DEFINE e == [do |-> "size", name |-> x]
  <2>1. e \in [do : {"size"}, name : Sized] /\ e.do = "size"
    OBVIOUS
  <2> HIDE DEF e
  <2>2. e \in Items
    BY <2>1 DEF Items
  <2>3. Parses(<<e>>, 0, 0)
    BY <1>1, <2>1, <2>2
  <2> QED  BY <2>3 DEF e
<1>4. ASSUME NEW x \in Identifiers \cup VectorNames
      PROVE  Parses(<<[do |-> "find", name |-> x]>>, 0, 0)
  <2> DEFINE e == [do |-> "find", name |-> x]
             S == Identifiers \cup VectorNames
  <2>1. x \in S
    BY <1>4
  <2> HIDE DEF S
  <2>2. e \in [do : {"find"}, name : S] /\ e.do = "find"
    BY <2>1
  <2> HIDE DEF e
  <2>3. e \in Items
    BY <2>2 DEF Items, S
  <2>4. Parses(<<e>>, 0, 0)
    BY <1>1, <2>2, <2>3
  <2> QED  BY <2>4 DEF e
<1> QED  BY <1>2, <1>3, <1>4

LEMMA TypenameKeeps == ASSUME Inv, ParseTypename PROVE Inv'
<1>1. At("typename") /\ UNCHANGED <<source, stage, built, type, lists>>
  BY DEF ParseTypename
<1>2. /\ type' \in Types \cup {Infer} /\ lists' \in [Lists -> Seq(Params)]
      /\ Takes(Do) = 0 /\ Leaves(Do) = 0
  BY <1>1, AtHead DEF Takes, Leaves
<1>3. CASE token \in Identifiers /\ Consume(<<[do |-> "lanes", name |-> token]>>)
  BY <1>1, <1>2, <1>3, ParsesTypeName, Descend
<1>4. CASE Reject
  BY <1>1, <1>4, Stops
<1> QED  BY <1>3, <1>4 DEF ParseTypename

LEMMA LanesKeep == ASSUME Inv, ParseLanes PROVE Inv'
<1>1. At("lanes") /\ UNCHANGED <<source, stage, built, type, lists>>
  BY DEF ParseLanes
<1>2. /\ type' \in Types \cup {Infer} /\ lists' \in [Lists -> Seq(Params)]
      /\ Takes(Do) = 0 /\ Leaves(Do) = 0 /\ Do.do = "lanes" /\ KindOf(Do)
  BY <1>1, AtHead DEF Takes, Leaves
<1>3. Do.name \in Identifiers
  BY <1>2 DEF KindOf
<1>4. CASE Consume(<<[do |-> "size", name |-> Do.name \o "*"]>>)
  <2> DEFINE x == Do.name \o "*"
             w == <<[do |-> "size", name |-> x]>>
  <2>1. x \in Sized
    BY <1>3 DEF Sized
  <2>2. Consume(w)
    BY <1>4
  <2> HIDE DEF x
  <2>3. Parses(w, 0, 0)
    BY <2>1, ParsesTypeName
  <2> HIDE DEF w
  <2> QED  BY <1>1, <1>2, <2>2, <2>3, Descend
<1>5. CASE Stay(<<[do |-> "find", name |-> Do.name]>>)
  BY <1>1, <1>2, <1>3, <1>5, ParsesTypeName, Descend
<1> QED  BY <1>4, <1>5 DEF ParseLanes

LEMMA SizedNames ==
    ASSUME NEW m \in Sized, NEW z \in Sizes
    PROVE  m \o z \in VectorNames
BY DEF VectorNames

LEMMA SizeKeeps == ASSUME Inv, ParseSize PROVE Inv'
<1>1. At("size") /\ UNCHANGED <<source, stage, built, type, lists>>
  BY DEF ParseSize
<1>2. /\ type' \in Types \cup {Infer} /\ lists' \in [Lists -> Seq(Params)]
      /\ Takes(Do) = 0 /\ Leaves(Do) = 0 /\ Do.do = "size" /\ KindOf(Do)
  BY <1>1, AtHead DEF Takes, Leaves
<1>3. Do.name \in Sized
  BY <1>2 DEF KindOf
<1>4. CASE token \in Sizes /\ Consume(<<[do |-> "find", name |-> Do.name \o token]>>)
  <2> DEFINE x == Do.name \o token
             w == <<[do |-> "find", name |-> x]>>
  <2>1. x \in VectorNames
    BY <1>3, <1>4, SizedNames
  <2>2. Consume(w)
    BY <1>4
  <2> HIDE DEF x
  <2>3. Parses(w, 0, 0)
    BY <2>1, ParsesTypeName
  <2> HIDE DEF w
  <2> QED  BY <1>1, <1>2, <2>2, <2>3, Descend
<1>5. CASE Reject
  BY <1>1, <1>5, Stops
<1> QED  BY <1>4, <1>5 DEF ParseSize

LEMMA FindKeeps == ASSUME Inv, FindType PROVE Inv'
<1>1. At("find") /\ UNCHANGED <<source, stage, built, lists>>
  BY DEF FindType
<1>2. /\ type \in Types \cup {Infer} /\ lists' \in [Lists -> Seq(Params)]
      /\ Takes(Do) = 0 /\ Leaves(Do) = 0
  BY <1>1, AtHead DEF Takes, Leaves
<1>3. type' \in Types \cup {Infer}
  BY <1>2, TypeNamesAssumption DEF FindType
<1>4. CASE Stay(<<>>)
  BY <1>1, <1>2, <1>3, <1>4, ParsesNothing, Descend
<1>5. CASE Reject /\ UNCHANGED type
  BY <1>1, <1>5, Stops
<1> QED  BY <1>4, <1>5 DEF FindType

LEMMA ParsesParameter ==
    ASSUME NEW l \in Lists, NEW x \in Identifiers
    PROVE  Parses(<<[do |-> "parameter", list |-> l, name |-> x]>>, 0, 0)
<1> DEFINE e == [do |-> "parameter", list |-> l, name |-> x]
<1>1. /\ e \in [do : {"parameter"}, list : Lists, name : Identifiers]
      /\ e.do = "parameter"
  OBVIOUS
<1> HIDE DEF e
<1>2. e \in Plain
  BY <1>1 DEF Items, Plain, Outer
<1>3. Takes(e) = 0 /\ Leaves(e) = 0
  BY <1>1 DEF Takes, Leaves
<1>4. Parses(<<e>>, 0, 0 - 0 + 0)
  BY <1>2, <1>3, ParsesOne
<1> QED  BY <1>4 DEF e

(* Four functions one after another.                                       *)
LEMMA ParsesFour ==
    ASSUME NEW b, NEW c, NEW d, NEW e, Parses(<<b>>, 0, 0), Parses(<<c>>, 0, 0),
           Parses(<<d>>, 0, 0), Parses(<<e>>, 0, 0)
    PROVE  Parses(<<b, c, d, e>>, 0, 0)
<1> DEFINE S == {b, c, d, e}
           v == <<b, c>>
           w == <<d, e>>
           r == v \o w
           s == <<b, c, d, e>>
<1>1. Parses(r, 0, 0)
  BY ParsesPair, ParsesThen
<1>2. /\ v \in Seq(S) /\ Len(v) = 2 /\ v[1] = b /\ v[2] = c
      /\ w \in Seq(S) /\ Len(w) = 2 /\ w[1] = d /\ w[2] = e
  OBVIOUS
<1>3. s \in Seq(S) /\ Len(s) = 4 /\ s[1] = b /\ s[2] = c /\ s[3] = d /\ s[4] = e
  OBVIOUS
<1> HIDE DEF S, v, w
<1>4. r \in Seq(S) /\ Len(r) = 4 /\ r[1] = b /\ r[2] = c /\ r[3] = d /\ r[4] = e
  <2>1. v \in Seq(S) /\ w \in Seq(S)
    BY <1>2
  <2>2. r \in Seq(S) /\ Len(r) = Len(v) + Len(w)
    BY <2>1
  <2>3. \A i \in 1 .. Len(v) : r[i] = v[i]
    BY <2>1
  <2>4. \A i \in 1 .. Len(w) : r[Len(v) + i] = w[i]
    BY <2>1
  <2> HIDE DEF r
  <2>5. r[1] = v[1] /\ r[2] = v[2]
    BY <1>2, <2>3
  <2>6. r[2 + 1] = w[1] /\ r[2 + 2] = w[2]
    BY <1>2, <2>4
  <2> QED  BY <1>2, <2>2, <2>5, <2>6
<1> HIDE DEF r, s
<1>5. r = s
  <2>1. ASSUME NEW i \in 1 .. Len(r) PROVE r[i] = s[i]
    <3>1. i = 1 \/ i = 2 \/ i = 3 \/ i = 4
      BY <1>4
    <3> QED  BY <1>3, <1>4, <3>1
  <2>2. r \in Seq(S) /\ s \in Seq(S) /\ Len(r) = Len(s)
    BY <1>3, <1>4
  <2> QED  BY <2>1, <2>2
<1> QED  BY <1>1, <1>5 DEF s

LEMMA ParametersKeep == ASSUME Inv, ParseParameters PROVE Inv'
<1> DEFINE e == [do |-> "parameter", list |-> Do.list, name |-> token]
           w == <<Step("typespec"), e, Step("separator"), Do>>
<1>1. At("parameters") /\ UNCHANGED <<source, stage, built, type, lists>>
  BY DEF ParseParameters
<1>2. /\ type' \in Types \cup {Infer} /\ lists' \in [Lists -> Seq(Params)]
      /\ Takes(Do) = 0 /\ Leaves(Do) = 0 /\ Do.do = "parameters" /\ KindOf(Do)
      /\ Do \in Plain
  BY <1>1, AtHead DEF Takes, Leaves
<1>3. Do.list \in Lists
  BY <1>2 DEF KindOf
<1>4. CASE Consume(<<>>)
  BY <1>1, <1>2, <1>4, ParsesNothing, Descend
<1>5. ASSUME token \in Identifiers, Consume(w) PROVE Inv'
  <2>1. Parses(<<e>>, 0, 0)
    BY <1>3, <1>5, ParsesParameter
  <2>2. Parses(<<Do>>, 0, 0 - 0 + 0)
    BY <1>2, ParsesOne
  <2>3. Parses(<<Step("typespec")>>, 0, 0) /\ Parses(<<Step("separator")>>, 0, 0)
    BY ParsesStep
  <2> HIDE DEF e
  <2>4. Parses(w, 0, 0)
    BY <2>1, <2>2, <2>3, ParsesFour
  <2> HIDE DEF w
  <2> QED  BY <1>1, <1>2, <1>5, <2>4, Descend
<1>6. CASE Reject
  BY <1>1, <1>6, Stops
<1> QED  BY <1>4, <1>5, <1>6 DEF ParseParameters

LEMMA ParameterKeeps == ASSUME Inv, AddParameter PROVE Inv'
<1> DEFINE p == [name |-> Do.name, type |-> OrReal(type)]
           l == Do.list
<1>1. /\ At("parameter") /\ UNCHANGED <<source, stage, built, type>> /\ Stay(<<>>)
      /\ lists' = [lists EXCEPT ![l] = Append(@, p)]
  BY DEF AddParameter
<1>2. /\ type \in Types \cup {Infer} /\ lists \in [Lists -> Seq(Params)]
      /\ Takes(Do) = 0 /\ Leaves(Do) = 0 /\ Do.do = "parameter" /\ KindOf(Do)
  BY <1>1, AtHead DEF Takes, Leaves
<1>3. l \in Lists /\ Do.name \in Names
  BY <1>2, NamesAssumption DEF KindOf
<1>4. p \in Params
  BY <1>2, <1>3 DEF Params, OrReal, Types
<1> HIDE DEF p, l
<1>5. Append(lists[l], p) \in Seq(Params)
  BY <1>2, <1>3, <1>4
<1>6. lists' \in [Lists -> Seq(Params)] /\ type' \in Types \cup {Infer}
  BY <1>1, <1>2, <1>5
<1> QED  BY <1>1, <1>2, <1>6, ParsesNothing, Descend

LEMMA LetKeeps == ASSUME Inv, ParseLet PROVE Inv'
<1>1. At("let") /\ UNCHANGED <<source, stage, built, type, lists>>
  BY DEF ParseLet
<1>2. /\ type' \in Types \cup {Infer} /\ lists' \in [Lists -> Seq(Params)]
      /\ Takes(Do) = 0 /\ Leaves(Do) = 1
  BY <1>1, AtHead DEF Takes, Leaves
<1>3. ASSUME token \in Identifiers,
             Consume(<<Step("typespec"), [do |-> "definition", name |-> token]>>)
      PROVE  Inv'
  <2>1. Parses(<<Step("typespec")>>, 0, 0)
    BY ParsesStep
  <2>2. Parses(<<[do |-> "definition", name |-> token]>>, 0, 1)
    BY <1>3, ParsesName
  <2>3. Parses(<<Step("typespec"), [do |-> "definition", name |-> token]>>, 0, 1)
    BY <2>1, <2>2, ParsesPair
  <2> QED  BY <1>1, <1>2, <1>3, <2>3, Descend
<1>4. CASE Reject
  BY <1>1, <1>4, Stops
<1> QED  BY <1>3, <1>4 DEF ParseLet

LEMMA DefinitionKeeps == ASSUME Inv, ParseDefinition PROVE Inv'
<1> DEFINE n == [op |-> "let", name |-> Do.name, type |-> type]
           w == ParameterList("parameters")
                  \o <<Step("typespec"), [do |-> "function", name |-> Do.name]>>
<1>1. At("definition") /\ UNCHANGED <<source, stage, built, type>>
  BY DEF ParseDefinition
<1>2. /\ type \in Types \cup {Infer} /\ lists \in [Lists -> Seq(Params)]
      /\ Takes(Do) = 0 /\ Leaves(Do) = 1 /\ Do.do = "definition" /\ KindOf(Do)
  BY <1>1, AtHead DEF Takes, Leaves
<1>3. Do.name \in Identifiers /\ Do.name \in Names
  BY <1>2, NamesAssumption DEF KindOf
<1>4. lists' \in [Lists -> Seq(Params)] /\ type' \in Types \cup {Infer}
  <2>1. <<>> \in Seq(Params)
    OBVIOUS
  <2> QED  BY <1>1, <1>2, <2>1 DEF ParseDefinition
<1>5. Parses(w, 0, 1)
  <2>1. Parses(ParameterList("parameters"), 0, 0)
    BY ParsesParameterList DEF Lists
  <2>2. Parses(<<Step("typespec")>>, 0, 0)
    BY ParsesStep
  <2>3. Parses(<<[do |-> "function", name |-> Do.name]>>, 0, 1)
    BY <1>3, ParsesName
  <2>4. Parses(<<Step("typespec"), [do |-> "function", name |-> Do.name]>>, 0, 1)
    BY <2>2, <2>3, ParsesPair
  <2> QED  BY <2>1, <2>4, ParsesThen
<1>6. n \in Nodes /\ Arity(n) = 2
  BY <1>2, <1>3 DEF Nodes, Arity
<1>7. Stay(w) \/ Stay(Definition(n))
  BY DEF ParseDefinition
<1> HIDE DEF n, w
<1>8. Parses(Definition(n), 0, 1)
  BY <1>6, ParsesDefinition
<1> QED  BY <1>1, <1>2, <1>4, <1>5, <1>7, <1>8, Descend

LEMMA FunctionKeeps == ASSUME Inv, ParseFunction PROVE Inv'
<1> DEFINE n == [op |-> "fun", name |-> Do.name, params |-> lists["parameters"],
                 ret |-> OrReal(type)]
<1>1. At("function") /\ UNCHANGED <<source, stage, built, type, lists>> /\ Stay(Definition(n))
  BY DEF ParseFunction
<1>2. /\ type \in Types \cup {Infer} /\ lists \in [Lists -> Seq(Params)]
      /\ Takes(Do) = 0 /\ Leaves(Do) = 1 /\ Do.do = "function" /\ KindOf(Do)
  BY <1>1, AtHead DEF Takes, Leaves
<1>3. Do.name \in Names
  BY <1>2, NamesAssumption DEF KindOf
<1>4. OrReal(type) \in Types /\ lists["parameters"] \in Seq(Params)
  BY <1>2 DEF OrReal, Types, Lists
<1>5. n \in Nodes /\ Arity(n) = 2
  BY <1>3, <1>4 DEF Nodes, Arity
<1> HIDE DEF n
<1>6. Parses(Definition(n), 0, 1)
  BY <1>5, ParsesDefinition
<1>7. lists' \in [Lists -> Seq(Params)] /\ type' \in Types \cup {Infer}
  BY <1>1, <1>2
<1> QED  BY <1>1, <1>2, <1>6, <1>7, Descend

-----------------------------------------------------------------------------
(* ... and compile(), which starts with no tree.                           *)
LEMMA Begins ==
    ASSUME NEW m \in Nat, NEW w, Parses(w, 0, m),
           NEW e \in Outer, Takes(e) = m, Leaves(e) = 1
    PROVE  Balanced(w \o <<e>>, 0)
<1> DEFINE t == w \o <<e>>
<1>1. w \in Seq(Items) /\ w \in Seq(Plain) /\ <<e>> \in Seq(Items) /\ e \in Items
  BY DEF Parses, Plain, Outer
<1>2. Goes(0, w, m)
  <2>1. Goes(0, w, 0 - 0 + m)
    BY DEF Parses
  <2> QED  BY <2>1
<1>3. Goes(m, <<e>>, 1)
  <2>1. Goes(m, <<e>>, m - m + 1)
    BY <1>1, GoesOne
  <2> QED  BY <2>1
<1>4. Goes(0, t, 1)
  BY <1>1, <1>2, <1>3, GoesThen
<1>5. PICK n \in Nat : n = Len(w)
  BY <1>1
<1>6. /\ t \in Seq(Items) /\ Len(t) = n + 1
      /\ \A i \in 1 .. n : t[i] = w[i]
      /\ t[n + 1] = e
  BY <1>1, <1>5
<1> HIDE DEF t
<1>7. ASSUME NEW i \in 1 .. Len(t) PROVE t[i] \in Outer <=> i = Len(t)
  <2>1. CASE i = n + 1
    BY <1>6, <2>1
  <2>2. CASE i # n + 1
    <3>1. i \in 1 .. n
      BY <1>6, <2>2
    <3>2. w[i] \in Plain
      BY <1>1, <1>5, <3>1
    <3> QED  BY <1>6, <2>2, <3>1, <3>2 DEF Plain
  <2> QED  BY <2>1, <2>2
<1>8. t # <<>>
  BY <1>6
<1>9. Balanced(t, 0)
  BY <1>4, <1>6, <1>7, <1>8 DEF Balanced, Pending
<1> QED  BY <1>9 DEF t

LEMMA OuterSteps ==
    /\ Step("code") \in Outer /\ Takes(Step("code")) = 0 /\ Leaves(Step("code")) = 1
    /\ Step("toplevel") \in Outer
    /\ Takes(Step("toplevel")) = 1 /\ Leaves(Step("toplevel")) = 1
<1>1. ASSUME NEW d \in {"code", "toplevel"}
      PROVE  Step(d) \in Outer /\ Step(d).do = d
  <2> DEFINE e == Step(d)
  <2>1. /\ e \in [do : {"leaf", "postfix", "unary", "method", "separator", "vector",
                        "splat", "let", "typespec", "typename", "code", "toplevel"}]
        /\ e.do = d
    BY DEF Step
  <2> HIDE DEF e
  <2>2. e \in Items
    BY <2>1 DEF Items
  <2>3. e \in Outer
    BY <2>1, <2>2 DEF Outer
  <2> QED  BY <2>1, <2>3 DEF e
<1> QED  BY <1>1 DEF Takes, Leaves

LEMMA BeginKeeps == ASSUME Inv, BeginCode PROVE Inv'
<1>1. At("code") /\ UNCHANGED <<source, built, type, lists>>
  BY DEF BeginCode
<1>2. CASE Reject /\ UNCHANGED stage
  BY <1>1, <1>2, Stops
<1>3. ASSUME stage' = "code", ReadWord("code", <<>>), UNCHANGED status,
             todo' = Expression \o <<Step("toplevel")>>
      PROVE  Inv'
  <2> DEFINE h == Len(built)
  <2>1. /\ TypeOK /\ Balanced(todo, h) /\ todo \in Seq(Items) /\ todo # <<>>
        /\ h \in Nat /\ Goes(h, todo, 1)
    BY DEF Inv, Balanced, Pending
  <2>2. Do \in Items /\ Goes(h - Takes(Do) + Leaves(Do), Tail(todo), 1)
    BY <2>1, GoesFirst DEF Do
  <2>3. Takes(Do) = 0 /\ Leaves(Do) = 1 /\ Do \in Outer
    BY <1>1, <2>2 DEF At, Takes, Leaves, Outer
  <2>4. Len(todo) = 1
    <3>1. Len(todo) \in Nat /\ Len(todo) >= 1 /\ todo[1] = Do
      BY <2>1 DEF Do
    <3>2. \A i \in 1 .. Len(todo) : todo[i] \in Outer <=> i = Len(todo)
      BY <2>1 DEF Balanced, Pending
    <3>3. 1 \in 1 .. Len(todo)
      BY <3>1
    <3>4. todo[1] \in Outer
      BY <2>3, <3>1
    <3> QED  BY <3>2, <3>3, <3>4
  <2>5. Len(Tail(todo)) = 0
    BY <2>1, <2>4
  <2>6. h = 0
    <3>1. PICK g : Counts(g, h - Takes(Do) + Leaves(Do), Tail(todo), 1)
      BY <2>2 DEF Goes
    <3>2. g[0] = h - Takes(Do) + Leaves(Do) /\ g[0] = 1
      BY <2>5, <3>1 DEF Counts
    <3> QED  BY <2>1, <2>3, <3>2
  <2>7. Parses(Expression, 0, 0 + 1)
    BY ParsesExpression
  <2>8. Balanced(Expression \o <<Step("toplevel")>>, 0)
    BY <2>7, OuterSteps, Begins
  <2>9. Len(built') = 0
    BY <1>1, <2>6
  <2>10. Balanced(todo', Len(built'))
    BY <1>3, <2>8, <2>9
  <2>11. todo' \in Seq(Items)
    BY <2>10 DEF Balanced, Pending
  <2>12. token' \in Words \cup {EOF} /\ text' \in [Stages -> Seq(Words)]
    <3>1. "code" \in Stages /\ <<>> \in Seq(Words) /\ source \in Sources
          /\ text \in [Stages -> Seq(Words)]
      BY <2>1 DEF TypeOK, Stages
    <3> QED  BY <1>3, <3>1, Reading
  <2>13. TypeOK'
    BY <1>1, <1>3, <2>1, <2>11, <2>12 DEF TypeOK, Stages
  <2> QED  BY <2>10, <2>13 DEF Inv
<1> QED  BY <1>2, <1>3 DEF BeginCode

LEMMA EndKeeps == ASSUME Inv, EndCode PROVE Inv'
<1>1. CASE Reject
  BY <1>1, Stops DEF EndCode
<1>2. CASE status' = "accepted" /\ UNCHANGED <<todo, text, token>>
  BY <1>2 DEF EndCode, Inv, TypeOK
<1> QED  BY <1>1, <1>2 DEF EndCode

-----------------------------------------------------------------------------
LEMMA InitInv == Init => Inv
<1> SUFFICES ASSUME Init PROVE Inv
  OBVIOUS
<1>1. Balanced(todo, 0)
  BY ParsesSignature, OuterSteps, Begins DEF Init
<1>2. Len(built) = 0 /\ built \in Seq(Seq(Nodes))
  BY DEF Init
<1>3. todo \in Seq(Items)
  BY <1>1 DEF Balanced, Pending
<1>4. token \in Words \cup {EOF}
  <2>1. source \in [Stages -> [length : Nat, words : SUBSET Words]]
    BY SourcesAssumption DEF Init
  <2>2. stage \in Stages
    BY DEF Init, Stages
  <2>3. source[stage].words \subseteq Words
    BY <2>1, <2>2
  <2> QED  BY <2>3 DEF Init, Readable
<1>5. text \in [Stages -> Seq(Words)]
  <2>1. ASSUME NEW s \in Stages
        PROVE  (IF s = stage /\ token # EOF THEN <<token>> ELSE <<>>) \in Seq(Words)
    BY <1>4
  <2> QED  BY <2>1 DEF Init
<1>6. lists \in [Lists -> Seq(Params)]
  <2>1. <<>> \in Seq(Params)
    OBVIOUS
  <2> QED  BY <2>1 DEF Init
<1>7. TypeOK
  BY <1>2, <1>3, <1>4, <1>5, <1>6 DEF Init, TypeOK, Stages
<1> QED  BY <1>1, <1>2, <1>7 DEF Inv

LEMMA NextInv == Inv /\ [Next]_vars => Inv'
<1> SUFFICES ASSUME Inv, [Next]_vars PROVE Inv'
  OBVIOUS
<1>1. CASE ParseExpected \/ BuildNode \/ ParseOperators \/ ApplyOperator \/ ParseUnary
  BY <1>1, ExpectKeeps, BuildKeeps, OperatorsKeep, ApplyKeeps, UnaryKeeps
<1>2. CASE ParseLeaf \/ ParseName \/ ParseArguments \/ ParseSeparator \/ ParsePostfix
  BY <1>2, LeafKeeps, NameKeeps, ArgumentsKeep, SeparatorKeeps, PostfixKeeps
<1>3. CASE ParseMethod \/ ParseMethodCall \/ ParseMethodArguments \/ ParseMethodComma
  BY <1>3, MethodKeeps, MethodCallKeeps, MethodArgumentsKeep, MethodCommaKeeps
<1>4. CASE ParseVector \/ ParseSplat \/ ParseElements
  BY <1>4, VectorKeeps, SplatKeeps, ElementsKeep
<1>5. CASE ParseTypespec \/ ParseTypename \/ ParseLanes \/ ParseSize \/ FindType
  BY <1>5, TypespecKeeps, TypenameKeeps, LanesKeep, SizeKeeps, FindKeeps
<1>6. CASE ParseParameters \/ AddParameter
  BY <1>6, ParametersKeep, ParameterKeeps
<1>7. CASE ParseLet \/ ParseDefinition \/ ParseFunction
  BY <1>7, LetKeeps, DefinitionKeeps, FunctionKeeps
<1>8. CASE BeginCode \/ EndCode
  BY <1>8, BeginKeeps, EndKeeps
<1>9. CASE Finished \/ UNCHANGED vars
  BY <1>9 DEF Finished, vars, Inv, TypeOK
<1> QED  BY <1>1, <1>2, <1>3, <1>4, <1>5, <1>6, <1>7, <1>8, <1>9 DEF Next

(* At every step of the parser the variables have their types and what is  *)
(* pending, in order, takes the trees that are built and leaves one.       *)
THEOREM Invariance == Spec => []Inv
<1> QED  BY InitInv, NextInv, PTL DEF Spec

(* The parser's variables have their types, for every vocabulary: it never *)
(* builds a node that the passes of the compiler do not know, nor looks    *)
(* for a token the lexer cannot answer.                                    *)
THEOREM TypeCorrect == Spec => []TypeOK
<1>1. Inv => TypeOK
  BY DEF Inv
<1> QED  BY <1>1, Invariance, PTL

(* Every call of a parse function, of those nested in it and of those that *)
(* wait for it, finds the trees it combines, and the whole leaves one.     *)
THEOREM OperandsFound == Spec => []OperandsBalance
<1>1. Inv => OperandsBalance
  <2> SUFFICES ASSUME Inv PROVE OperandsBalance
    OBVIOUS
  <2>1. Len(built) \in Nat /\ todo \in Seq(Items) /\ Goes(Len(built), todo, 1)
    BY DEF Inv, Balanced, Pending
  <2> QED  BY <2>1, TreesCounted DEF OperandsBalance
<1> QED  BY <1>1, Invariance, PTL
=============================================================================
