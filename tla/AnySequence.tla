---------------------------- MODULE AnySequence ----------------------------
(***************************************************************************)
(* Lemmas about sequences, whatever they hold: stacks of frames, lists of  *)
(* work, calls and their arguments; and induction, on a set of numbers.    *)
(***************************************************************************)
EXTENDS Integers, Sequences, WellFoundedInduction, TLAPS

IsSeq(s) == \E S : s \in Seq(S)

LEMMA SeqLength ==
    ASSUME NEW s, IsSeq(s)
    PROVE  Len(s) \in Nat /\ DOMAIN s = 1 .. Len(s) /\ (Len(s) = 0 <=> s = <<>>)
BY DEF IsSeq

LEMMA SingletonSeq ==
    ASSUME NEW e
    PROVE  IsSeq(<<e>>) /\ Len(<<e>>) = 1 /\ <<e>>[1] = e
<1>1. <<e>> \in Seq({e})
  OBVIOUS
<1> QED  BY <1>1 DEF IsSeq

LEMMA NothingSeq == IsSeq(<<>>) /\ Len(<<>>) = 0
<1>1. <<>> \in Seq({})
  OBVIOUS
<1> QED  BY <1>1 DEF IsSeq

LEMMA PairSeq ==
    ASSUME NEW d, NEW e
    PROVE  IsSeq(<<d, e>>) /\ Len(<<d, e>>) = 2
           /\ <<d, e>>[1] = d /\ <<d, e>>[2] = e
<1>1. <<d, e>> \in Seq({d, e})
  OBVIOUS
<1> QED  BY <1>1 DEF IsSeq

LEMMA AppendSeq ==
    ASSUME NEW s, IsSeq(s), NEW e
    PROVE  /\ IsSeq(Append(s, e)) /\ Len(Append(s, e)) = Len(s) + 1
           /\ \A i \in 1 .. Len(s) : Append(s, e)[i] = s[i]
           /\ Append(s, e)[Len(s) + 1] = e
<1>1. PICK S : s \in Seq(S)
  BY DEF IsSeq
<1> DEFINE T == S \cup {e}
<1>2. s \in Seq(T) /\ e \in T
  BY <1>1
<1> HIDE DEF T
<1>3. Append(s, e) \in Seq(T)
  BY <1>2
<1>4. /\ Len(Append(s, e)) = Len(s) + 1
      /\ \A i \in 1 .. Len(s) : Append(s, e)[i] = s[i]
      /\ Append(s, e)[Len(s) + 1] = e
  BY <1>2
<1> QED  BY <1>3, <1>4 DEF IsSeq

LEMMA ReplacedSeq ==
    ASSUME NEW s, IsSeq(s), NEW n \in 1 .. Len(s), NEW e
    PROVE  LET r == [s EXCEPT ![n] = e] IN
           /\ IsSeq(r) /\ Len(r) = Len(s) /\ r[n] = e
           /\ \A i \in 1 .. Len(s) : i # n => r[i] = s[i]
<1>1. PICK S : s \in Seq(S)
  BY DEF IsSeq
<1> DEFINE T == S \cup {e}
           r == [s EXCEPT ![n] = e]
<1>2. s \in Seq(T) /\ e \in T
  BY <1>1
<1> HIDE DEF T
<1>3. r \in Seq(T) /\ Len(r) = Len(s) /\ r[n] = e
      /\ \A i \in 1 .. Len(s) : i # n => r[i] = s[i]
  BY <1>2
<1> QED  BY <1>3 DEF IsSeq

LEMMA FrontSeq ==
    ASSUME NEW s, IsSeq(s), Len(s) > 1
    PROVE  LET r == SubSeq(s, 1, Len(s) - 1) IN
           /\ IsSeq(r) /\ Len(r) = Len(s) - 1
           /\ \A i \in 1 .. Len(s) - 1 : r[i] = s[i]
<1>1. PICK S : s \in Seq(S)
  BY DEF IsSeq
<1>2. Len(s) \in Nat
  BY <1>1
<1> DEFINE r == SubSeq(s, 1, Len(s) - 1)
<1>3. r \in Seq(S) /\ Len(r) = Len(s) - 1
      /\ \A i \in 1 .. Len(s) - 1 : r[i] = s[i]
  BY <1>1, <1>2
<1> QED  BY <1>3 DEF IsSeq

LEMMA PrefixSeq ==
    ASSUME NEW s, IsSeq(s), NEW n \in 0 .. Len(s)
    PROVE  LET r == SubSeq(s, 1, n) IN
           /\ IsSeq(r) /\ Len(r) = n
           /\ \A i \in 1 .. n : r[i] = s[i]
<1>1. PICK S : s \in Seq(S)
  BY DEF IsSeq
<1>2. Len(s) \in Nat
  BY <1>1
<1> DEFINE r == SubSeq(s, 1, n)
<1>3. r \in Seq(S) /\ Len(r) = n /\ \A i \in 1 .. n : r[i] = s[i]
  BY <1>1, <1>2
<1> QED  BY <1>3 DEF IsSeq

(* The first element of t is replaced by those of w.                       *)
LEMMA ReplaceFirst ==
    ASSUME NEW w, IsSeq(w), NEW t, IsSeq(t), t # <<>>
    PROVE  LET r == w \o Tail(t) IN
           /\ IsSeq(r) /\ Len(r) = Len(w) + Len(t) - 1
           /\ \A i \in 1 .. Len(w) : r[i] = w[i]
           /\ \A i \in 2 .. Len(t) : r[Len(w) + i - 1] = t[i]
<1>1. PICK S : w \in Seq(S)
  BY DEF IsSeq
<1>2. PICK T : t \in Seq(T)
  BY DEF IsSeq
<1> DEFINE U == S \cup T
           u == Tail(t)
           r == w \o u
<1>3. w \in Seq(U) /\ t \in Seq(U)
  BY <1>1, <1>2
<1> HIDE DEF U
<1>4. /\ u \in Seq(U) /\ Len(u) = Len(t) - 1 /\ Len(t) \in Nat \ {0}
      /\ \A i \in 1 .. Len(t) - 1 : u[i] = t[i + 1]
  BY <1>3
<1> HIDE DEF u
<1>5. /\ r \in Seq(U) /\ Len(r) = Len(w) + Len(u) /\ Len(w) \in Nat
      /\ \A i \in 1 .. Len(w) : r[i] = w[i]
      /\ \A i \in 1 .. Len(u) : r[Len(w) + i] = u[i]
  <2>1. u \in Seq(U)
    BY <1>4
  <2>2. r \in Seq(U) /\ Len(r) = Len(w) + Len(u)
    BY <1>3, <2>1
  <2>3. \A i \in 1 .. Len(w) : r[i] = w[i]
    BY <1>3, <2>1
  <2>4. \A i \in 1 .. Len(u) : r[Len(w) + i] = u[i]
    BY <1>3, <2>1
  <2>5. Len(w) \in Nat
    BY <1>3
  <2> QED  BY <2>2, <2>3, <2>4, <2>5
<1> HIDE DEF r
<1>6. Len(r) = Len(w) + Len(t) - 1
  BY <1>4, <1>5
<1>7. ASSUME NEW i \in 2 .. Len(t) PROVE r[Len(w) + i - 1] = t[i]
  <2>1. i - 1 \in 1 .. Len(u) /\ (i - 1) + 1 = i /\ i - 1 \in 1 .. Len(t) - 1
    BY <1>4
  <2>2. Len(w) + (i - 1) = Len(w) + i - 1
    BY <1>4, <1>5
  <2>3. r[Len(w) + (i - 1)] = u[i - 1] /\ u[i - 1] = t[i]
    BY <1>4, <1>5, <2>1
  <2> QED  BY <2>2, <2>3
<1>8. IsSeq(r)
  BY <1>5 DEF IsSeq
<1> QED  BY <1>5, <1>6, <1>7, <1>8 DEF r, u

-----------------------------------------------------------------------------
(* The numbers are well-founded.                                           *)
LEMMA LeastNumber ==
    ASSUME NEW T, T \subseteq Nat, T # {}
    PROVE  \E x \in T : \A y \in T : x <= y
<1> DEFINE R == OpToRel(<, Nat)
<1>1. IsWellFoundedOn(R, Nat)
  BY NatLessThanWellFounded
<1>2. \A x, y \in Nat : y < x => <<y, x>> \in R
  BY DEF OpToRel
<1> HIDE DEF R
<1>3. PICK x \in T : \A y \in T : ~ (<<y, x>> \in R)
  BY <1>1, WFMin
<1>4. ASSUME NEW y \in T PROVE x <= y
  <2>1. x \in Nat /\ y \in Nat
    OBVIOUS
  <2>2. ~ (y < x)
    BY <1>2, <1>3, <2>1
  <2> QED  BY <2>1, <2>2
<1> QED  BY <1>4

(* Induction, on the set of numbers for which something is true.           *)
LEMMA AllNumbers ==
    ASSUME NEW T, 0 \in T, \A n \in Nat : n \in T => n + 1 \in T
    PROVE  Nat \subseteq T
<1> DEFINE U == Nat \ T
<1> SUFFICES ASSUME U # {} PROVE FALSE
  OBVIOUS
<1>1. U \subseteq Nat
  OBVIOUS
<1> HIDE DEF U
<1>2. PICK x \in U : \A y \in U : x <= y
  BY <1>1, LeastNumber
<1>3. x \in Nat /\ x \notin T
  BY DEF U
<1>4. x # 0
  BY <1>3
<1>5. x - 1 \in Nat /\ (x - 1) + 1 = x
  BY <1>3, <1>4
<1>6. x - 1 \notin T
  BY <1>3, <1>5
<1>7. x - 1 \in U
  BY <1>5, <1>6 DEF U
<1> QED  BY <1>2, <1>3, <1>7

(* What is computed step by step, from c at a and with F[i] at each i.     *)
Steps(F, S, a, b) == F \in [a + 1 .. b -> [S -> S]]

Iterates(f, S, a, b, c, F) ==
    /\ f \in [a .. b -> S] /\ f[a] = c
    /\ \A i \in a + 1 .. b : f[i] = F[i][f[i - 1]]

LEMMA Iteration ==
    ASSUME NEW S, NEW a \in Nat, NEW b \in Nat, a <= b, NEW c \in S,
           NEW F, Steps(F, S, a, b)
    PROVE  \E f : Iterates(f, S, a, b, c, F)
<1> USE DEF Steps
<1> DEFINE Upto(m) == \E f \in [a .. a + m -> S] :
                         /\ f[a] = c
                         /\ \A i \in a + 1 .. a + m : f[i] = F[i][f[i - 1]]
           T == {m \in Nat : a + m <= b => Upto(m)}
<1>1. Upto(0)
  <2> DEFINE f == [i \in a .. a + 0 |-> c]
  <2>1. f \in [a .. a + 0 -> S] /\ f[a] = c
    OBVIOUS
  <2> HIDE DEF f
  <2>2. a + 1 .. a + 0 = {}
    OBVIOUS
  <2> QED  BY <2>1, <2>2
<1>2. ASSUME NEW m \in Nat, Upto(m), a + (m + 1) <= b PROVE Upto(m + 1)
  <2>1. PICK f \in [a .. a + m -> S] :
           /\ f[a] = c
           /\ \A i \in a + 1 .. a + m : f[i] = F[i][f[i - 1]]
    BY <1>2
  <2> DEFINE n == a + m + 1
             g == [i \in a .. a + (m + 1) |-> IF i = n THEN F[n][f[a + m]] ELSE f[i]]
  <2>2. n \in a + 1 .. b /\ n - 1 = a + m /\ a + m \in a .. a + m
    BY <1>2
  <2>3. F[n] \in [S -> S] /\ f[a + m] \in S
    BY <2>1, <2>2
  <2>4. F[n][f[a + m]] \in S
    BY <2>3
  <2>5. /\ g \in [a .. a + (m + 1) -> S] /\ g[n] = F[n][f[a + m]]
        /\ \A i \in a .. a + m : g[i] = f[i]
    BY <2>1, <2>4
  <2> HIDE DEF g
  <2>6. g[a] = c
    BY <2>1, <2>5
  <2>7. ASSUME NEW i \in a + 1 .. a + (m + 1) PROVE g[i] = F[i][g[i - 1]]
    <3>1. CASE i = n
      BY <2>2, <2>5, <3>1
    <3>2. CASE i # n
      <4>1. i \in a + 1 .. a + m /\ i \in a .. a + m /\ i - 1 \in a .. a + m
        BY <3>2
      <4> QED  BY <2>1, <2>5, <4>1
    <3> QED  BY <3>1, <3>2
  <2> QED  BY <2>5, <2>6, <2>7
<1> HIDE DEF Upto
<1>3. 0 \in T
  BY <1>1
<1>4. ASSUME NEW m \in Nat, m \in T PROVE m + 1 \in T
  <2>1. a + (m + 1) <= b => a + m <= b
    OBVIOUS
  <2> QED  BY <1>2, <1>4, <2>1
<1> HIDE DEF T
<1>5. Nat \subseteq T
  BY <1>3, <1>4, AllNumbers
<1>6. b - a \in Nat /\ a + (b - a) = b
  OBVIOUS
<1>7. Upto(b - a)
  BY <1>5, <1>6 DEF T
<1> QED  BY <1>6, <1>7 DEF Upto, Iterates

(* ... is the same whenever it is computed.                                *)
Follows(g, f, a, b) ==
    g[a] = f[a] /\ \A i \in a + 1 .. b : g[i - 1] = f[i - 1] => g[i] = f[i]

LEMMA SameIteration ==
    ASSUME NEW a \in Nat, NEW b \in Nat, NEW f, NEW g, Follows(g, f, a, b)
    PROVE  \A i \in a .. b : g[i] = f[i]
<1> USE DEF Follows
<1> DEFINE T == {m \in Nat : a + m <= b => g[a + m] = f[a + m]}
<1>1. 0 \in T
  OBVIOUS
<1>2. ASSUME NEW m \in Nat, m \in T PROVE m + 1 \in T
  <2>1. ASSUME a + (m + 1) <= b PROVE g[a + (m + 1)] = f[a + (m + 1)]
    <3>1. /\ a + m <= b /\ a + (m + 1) \in a + 1 .. b
          /\ (a + (m + 1)) - 1 = a + m
      BY <2>1
    <3>2. g[a + m] = f[a + m]
      BY <1>2, <3>1
    <3> QED  BY <3>1, <3>2
  <2> QED  BY <2>1
<1> HIDE DEF T
<1>3. Nat \subseteq T
  BY <1>1, <1>2, AllNumbers
<1>4. ASSUME NEW i \in a .. b PROVE g[i] = f[i]
  <2>1. i - a \in Nat /\ a + (i - a) = i /\ i <= b
    OBVIOUS
  <2>2. i - a \in T
    BY <1>3, <2>1
  <2> QED  BY <2>1, <2>2 DEF T
<1> QED  BY <1>4

-----------------------------------------------------------------------------
(* A value that the elements of t change one after another, each as R      *)
(* says: from a to z.                                                      *)
Threads(R, t, a, z) ==
    \E g \in [1 .. Len(t) + 1 -> Nat] :
        /\ g[1] = a /\ g[Len(t) + 1] = z
        /\ \A j \in 1 .. Len(t) : <<t[j], g[j], g[j + 1]>> \in R

LEMMA ThreadEnds ==
    ASSUME NEW R, NEW t, IsSeq(t), NEW a, NEW z, Threads(R, t, a, z)
    PROVE  a \in Nat /\ z \in Nat
<1>1. Len(t) \in Nat
  BY SeqLength
<1> DEFINE n == Len(t)
<1>2. PICK g \in [1 .. n + 1 -> Nat] : g[1] = a /\ g[n + 1] = z
  BY DEF Threads
<1> HIDE DEF n
<1>3. n \in Nat
  BY <1>1 DEF n
<1> QED  BY <1>2, <1>3

LEMMA ThreadNothing ==
    ASSUME NEW R, NEW a \in Nat
    PROVE  Threads(R, <<>>, a, a)
<1> DEFINE g == [i \in 1 .. 1 |-> a]
<1>1. Len(<<>>) = 0
  OBVIOUS
<1>2. g \in [1 .. 0 + 1 -> Nat] /\ g[1] = a /\ g[0 + 1] = a
  OBVIOUS
<1> HIDE DEF g
<1>3. \A j \in 1 .. 0 : <<<<>>[j], g[j], g[j + 1]>> \in R
  OBVIOUS
<1> QED  BY <1>1, <1>2, <1>3 DEF Threads

LEMMA ThreadOne ==
    ASSUME NEW R, NEW e, NEW a \in Nat, NEW z \in Nat, <<e, a, z>> \in R
    PROVE  Threads(R, <<e>>, a, z)
<1> DEFINE g == [i \in 1 .. 2 |-> IF i = 1 THEN a ELSE z]
<1>1. Len(<<e>>) = 1 /\ <<e>>[1] = e
  OBVIOUS
<1>2. g \in [1 .. 1 + 1 -> Nat] /\ g[1] = a /\ g[2] = z /\ 1 + 1 = 2
  OBVIOUS
<1> HIDE DEF g
<1>3. \A j \in 1 .. 1 : j = 1
  OBVIOUS
<1>4. \A j \in 1 .. 1 : <<<<e>>[j], g[j], g[j + 1]>> \in R
  BY <1>1, <1>2, <1>3
<1> QED  BY <1>1, <1>2, <1>4 DEF Threads

LEMMA ThreadFirst ==
    ASSUME NEW R, NEW t, IsSeq(t), t # <<>>, NEW a, NEW z, Threads(R, t, a, z)
    PROVE  \E m \in Nat : <<t[1], a, m>> \in R /\ Threads(R, Tail(t), m, z)
<1>1. PICK S : t \in Seq(S)
  BY DEF IsSeq
<1> DEFINE n == Len(t)  u == Tail(t)
<1>2. PICK g \in [1 .. n + 1 -> Nat] :
         /\ g[1] = a /\ g[n + 1] = z
         /\ \A j \in 1 .. n : <<t[j], g[j], g[j + 1]>> \in R
  BY DEF Threads
<1>3. n \in Nat /\ n >= 1 /\ Len(u) = n - 1
  BY <1>1
<1>4. \A j \in 1 .. n - 1 : u[j] = t[j + 1]
  BY <1>1
<1> HIDE DEF n, u
<1> DEFINE h == [i \in 1 .. (n - 1) + 1 |-> g[i + 1]]
<1>5. /\ h \in [1 .. (n - 1) + 1 -> Nat]
      /\ \A i \in 1 .. n : h[i] = g[i + 1]
  BY <1>2, <1>3
<1> HIDE DEF h
<1>6. h[1] = g[2] /\ h[(n - 1) + 1] = z /\ g[2] \in Nat
  <2>1. 1 \in 1 .. n /\ n \in 1 .. n /\ 2 \in 1 .. n + 1 /\ (n - 1) + 1 = n /\ 1 + 1 = 2
    BY <1>3
  <2> QED  BY <1>2, <1>5, <2>1
<1>7. ASSUME NEW j \in 1 .. n - 1
      PROVE  <<u[j], h[j], h[j + 1]>> \in R
  <2>1. j + 1 \in 1 .. n /\ j \in 1 .. n /\ (j + 1) + 1 = j + 2
    BY <1>3
  <2>2. u[j] = t[j + 1] /\ h[j] = g[j + 1] /\ h[j + 1] = g[(j + 1) + 1]
    BY <1>4, <1>5, <2>1
  <2>3. <<t[j + 1], g[j + 1], g[(j + 1) + 1]>> \in R
    BY <1>2, <2>1
  <2> QED  BY <2>2, <2>3
<1>8. Threads(R, u, g[2], z)
  BY <1>3, <1>5, <1>6, <1>7 DEF Threads
<1>9. <<t[1], a, g[2]>> \in R
  <2>1. 1 \in 1 .. n /\ 1 + 1 = 2
    BY <1>3
  <2> QED  BY <1>2, <2>1
<1> QED  BY <1>6, <1>8, <1>9 DEF u

LEMMA ThreadConcat ==
    ASSUME NEW R, NEW w, NEW u, IsSeq(w), IsSeq(u), NEW a, NEW m, NEW z,
           Threads(R, w, a, m), Threads(R, u, m, z)
    PROVE  IsSeq(w \o u) /\ Threads(R, w \o u, a, z)
<1>1. PICK S : w \in Seq(S)
  BY DEF IsSeq
<1>2. PICK T : u \in Seq(T)
  BY DEF IsSeq
<1> DEFINE U == S \cup T  r == w \o u
<1>3. w \in Seq(U) /\ u \in Seq(U)
  BY <1>1, <1>2
<1> HIDE DEF U
<1>4. r \in Seq(U) /\ Len(r) = Len(w) + Len(u)
  BY <1>3
<1>5. \A i \in 1 .. Len(w) : r[i] = w[i]
  BY <1>3
<1>6. \A i \in 1 .. Len(u) : r[Len(w) + i] = u[i]
  BY <1>3
<1> HIDE DEF r
<1> DEFINE k == Len(w)  n == Len(u)
<1>7. k = Len(w) /\ n = Len(u) /\ k \in Nat /\ n \in Nat
  BY <1>3
<1> HIDE DEF k, n
<1>8. PICK g \in [1 .. k + 1 -> Nat] :
         /\ g[1] = a /\ g[k + 1] = m
         /\ \A j \in 1 .. k : <<w[j], g[j], g[j + 1]>> \in R
  BY <1>7 DEF Threads
<1>9. PICK h \in [1 .. n + 1 -> Nat] :
         /\ h[1] = m /\ h[n + 1] = z
         /\ \A j \in 1 .. n : <<u[j], h[j], h[j + 1]>> \in R
  BY <1>7 DEF Threads
<1> DEFINE f == [i \in 1 .. (k + n) + 1 |-> IF i <= k THEN g[i] ELSE h[i - k]]
<1>10. /\ f \in [1 .. (k + n) + 1 -> Nat]
       /\ \A i \in 1 .. k + n + 1 : i <= k => f[i] = g[i]
       /\ \A i \in 1 .. k + n + 1 : ~ (i <= k) => f[i] = h[i - k]
  BY <1>7, <1>8, <1>9
<1> HIDE DEF f
<1>11. f[1] = a /\ f[(k + n) + 1] = z
  <2>1. f[(k + n) + 1] = h[n + 1]
    <3>1. (k + n) + 1 \in 1 .. k + n + 1 /\ ~ ((k + n) + 1 <= k) /\ ((k + n) + 1) - k = n + 1
      BY <1>7
    <3> QED  BY <1>10, <3>1
  <2>2. f[1] = a
    <3>1. CASE k = 0
      <4>1. 1 \in 1 .. k + n + 1 /\ ~ (1 <= k) /\ 1 - k = 1 /\ k + 1 = 1
        BY <1>7, <3>1
      <4> QED  BY <1>8, <1>9, <1>10, <4>1
    <3>2. CASE k # 0
      <4>1. 1 \in 1 .. k + n + 1 /\ 1 <= k
        BY <1>7, <3>2
      <4> QED  BY <1>8, <1>10, <4>1
    <3> QED  BY <3>1, <3>2
  <2> QED  BY <1>9, <2>1, <2>2
<1>12. ASSUME NEW j \in 1 .. k + n
       PROVE  <<r[j], f[j], f[j + 1]>> \in R
  <2>1. CASE j < k
    <3>1. /\ j \in 1 .. k + n + 1 /\ j + 1 \in 1 .. k + n + 1
          /\ j <= k /\ j + 1 <= k /\ j \in 1 .. k
      BY <1>7, <2>1
    <3> QED  BY <1>5, <1>7, <1>8, <1>10, <3>1
  <2>2. CASE j = k
    <3>1. /\ j \in 1 .. k + n + 1 /\ j + 1 \in 1 .. k + n + 1
          /\ j <= k /\ ~ (j + 1 <= k) /\ j \in 1 .. k /\ (j + 1) - k = 1
      BY <1>7, <2>2
    <3>2. f[j] = g[j] /\ f[j + 1] = h[1]
      BY <1>10, <3>1
    <3> QED  BY <1>5, <1>7, <1>8, <1>9, <2>2, <3>1, <3>2
  <2>3. CASE j > k
    <3>1. /\ j \in 1 .. k + n + 1 /\ j + 1 \in 1 .. k + n + 1
          /\ ~ (j <= k) /\ ~ (j + 1 <= k) /\ j - k \in 1 .. n
          /\ (j + 1) - k = (j - k) + 1 /\ k + (j - k) = j
      BY <1>7, <2>3
    <3>2. f[j] = h[j - k] /\ f[j + 1] = h[(j - k) + 1]
      BY <1>10, <3>1
    <3>3. r[j] = u[j - k]
      BY <1>6, <1>7, <3>1
    <3> QED  BY <1>9, <3>1, <3>2, <3>3
  <2> QED  BY <1>7, <2>1, <2>2, <2>3
<1>13. Len(r) = k + n
  BY <1>4, <1>7
<1>14. Threads(R, r, a, z)
  BY <1>10, <1>11, <1>12, <1>13 DEF Threads
<1>15. IsSeq(r)
  BY <1>4 DEF IsSeq
<1> QED  BY <1>14, <1>15 DEF r

LEMMA ThreadTwo ==
    ASSUME NEW R, NEW d, NEW e, NEW a \in Nat, NEW m \in Nat, NEW z \in Nat,
           <<d, a, m>> \in R, <<e, m, z>> \in R
    PROVE  Threads(R, <<d, e>>, a, z)
<1> DEFINE g == [i \in 1 .. 3 |-> IF i = 1 THEN a ELSE IF i = 2 THEN m ELSE z]
           t == <<d, e>>
<1>1. Len(t) = 2 /\ t[1] = d /\ t[2] = e
  BY PairSeq
<1>2. g \in [1 .. 2 + 1 -> Nat] /\ g[1] = a /\ g[2] = m /\ g[3] = z /\ 2 + 1 = 3
  OBVIOUS
<1> HIDE DEF g, t
<1>3. <<t[1], g[1], g[2]>> \in R /\ <<t[2], g[2], g[3]>> \in R
  BY <1>1, <1>2
<1>4. \A j \in 1 .. 2 : (j = 1 /\ j + 1 = 2) \/ (j = 2 /\ j + 1 = 3)
  OBVIOUS
<1>5. \A j \in 1 .. 2 : <<t[j], g[j], g[j + 1]>> \in R
  BY <1>3, <1>4
<1>6. Threads(R, t, a, z)
  BY <1>1, <1>2, <1>5 DEF Threads
<1> QED  BY <1>6 DEF t

(* Only what R says of values up to a matters if no element raises it.     *)
Descends(R) == \A e, x, y : <<e, x, y>> \in R => x \in Nat /\ y \in Nat /\ y <= x

Inherits(R, Q, a) == \A e, x, y : <<e, x, y>> \in R /\ x <= a => <<e, x, y>> \in Q

LEMMA ThreadInherited ==
    ASSUME NEW R, NEW Q, NEW t, IsSeq(t), NEW a, NEW z, Threads(R, t, a, z),
           Descends(R), Inherits(R, Q, a)
    PROVE  Threads(Q, t, a, z) /\ z <= a
<1>1. PICK n : n = Len(t) /\ n \in Nat
  BY SeqLength
<1>2. PICK g \in [1 .. n + 1 -> Nat] :
         /\ g[1] = a /\ g[n + 1] = z
         /\ \A j \in 1 .. n : <<t[j], g[j], g[j + 1]>> \in R
  BY <1>1 DEF Threads
<1> DEFINE T == {m \in Nat : m <= n => g[m + 1] <= a}
<1>3. 0 \in T
  BY <1>1, <1>2
<1>4. ASSUME NEW m \in Nat, m \in T PROVE m + 1 \in T
  <2>1. ASSUME m + 1 <= n PROVE g[(m + 1) + 1] <= a
    <3>1. m + 1 \in 1 .. n /\ m <= n /\ (m + 1) + 1 \in 1 .. n + 1 /\ m + 1 \in 1 .. n + 1
      BY <1>1, <2>1
    <3>2. g[(m + 1) + 1] <= g[m + 1]
      BY <1>2, <3>1 DEF Descends
    <3>3. g[m + 1] <= a
      BY <1>4, <3>1
    <3>4. g[m + 1] \in Nat /\ g[(m + 1) + 1] \in Nat /\ a \in Nat
      <4>1. 1 \in 1 .. n + 1
        BY <1>1
      <4> QED  BY <1>2, <3>1, <4>1
    <3> QED  BY <3>2, <3>3, <3>4
  <2> QED  BY <2>1
<1> HIDE DEF T
<1>5. Nat \subseteq T
  BY <1>3, <1>4, AllNumbers
<1>6. ASSUME NEW j \in 1 .. n + 1 PROVE g[j] <= a
  <2>1. j - 1 \in Nat /\ j - 1 <= n /\ (j - 1) + 1 = j
    BY <1>1
  <2>2. j - 1 \in T
    BY <1>5, <2>1
  <2> QED  BY <2>1, <2>2 DEF T
<1>7. ASSUME NEW j \in 1 .. n PROVE <<t[j], g[j], g[j + 1]>> \in Q
  <2>1. j \in 1 .. n + 1
    BY <1>1
  <2> QED  BY <1>2, <1>6, <2>1 DEF Inherits
<1>8. n + 1 \in 1 .. n + 1
  BY <1>1
<1> QED  BY <1>1, <1>2, <1>6, <1>7, <1>8 DEF Threads
=============================================================================
