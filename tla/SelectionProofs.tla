--------------------------- MODULE SelectionProofs ---------------------------
(***************************************************************************)
(* Facts about the sequences of the project, for sequences of any length:  *)
(* Without, which drops the elements of a set; FlattenSeq; and the front   *)
(* and the rest of a sequence.  The induction each of them needs is Least, *)
(* applied to the set of the lengths at which it fails.                    *)
(***************************************************************************)
EXTENDS Selection, SequencesExt, TLAPS, WellFoundedInduction, NaturalsInduction,
        SequenceTheorems

(* A set of natural numbers that is not empty has a least element. *)
LEMMA Least ==
  ASSUME NEW N, N \subseteq Nat, N # {}
  PROVE  \E n \in N : \A m \in N : n <= m
<1> DEFINE R == {ss \in Nat \X Nat : ss[1] < ss[2]}
<1>1. IsWellFoundedOn(OpToRel(<, Nat), Nat)
  BY NatLessThanWellFounded
<1>2. OpToRel(<, Nat) = R
  BY DEF OpToRel
<1>3. IsWellFoundedOn(R, Nat)
  BY <1>1, <1>2
<1>4. \A m \in Nat, n \in Nat : m < n => <<m, n>> \in R
  OBVIOUS
<1> HIDE DEF R
<1>5. PICK n \in N : \A m \in N : ~ (<<m, n>> \in R)
  BY <1>3, WFMin
<1>6. ASSUME NEW m \in N
      PROVE  n <= m
  <2>1. ~ (<<m, n>> \in R)
    BY <1>5
  <2>2. ~ (m < n)
    BY <1>4, <2>1
  <2> QED
    BY <2>2
<1> QED
  BY <1>6

-----------------------------------------------------------------------------
(* Without. *)

(* f[i] is what Without keeps of the first i elements of s. *)
Kept(s, T, n, f) ==
  /\ f = [i \in 0 .. n |-> f[i]]
  /\ \A i \in 0 .. n :
       f[i] = IF i = 0 THEN <<>>
              ELSE IF s[i] \in T THEN f[i - 1] ELSE Append(f[i - 1], s[i])

(* Every sequence has such a function: by its least length that has none. *)
LEMMA KeptExists ==
  ASSUME NEW s, NEW T, NEW n \in Nat
  PROVE  \E f : Kept(s, T, n, f)
<1> DEFINE Bad == {m \in Nat : ~ \E f : Kept(s, T, m, f)}
<1>1. SUFFICES ASSUME Bad # {}
               PROVE  FALSE
  OBVIOUS
<1>2. PICK m \in Bad : \A k \in Bad : m <= k
  BY <1>1, Least
<1>3. CASE m = 0
  <2> DEFINE f == [i \in 0 .. 0 |-> <<>>]
  <2>1. Kept(s, T, 0, f)
    BY DEF Kept
  <2> QED
    BY <1>3, <2>1
<1>4. CASE m # 0
  <2>1. m - 1 \in Nat /\ m - 1 \notin Bad
    BY <1>2, <1>4
  <2>2. PICK f : Kept(s, T, m - 1, f)
    BY <2>1
  <2> DEFINE g == [i \in 0 .. m |->
                     IF i < m THEN f[i]
                     ELSE IF s[i] \in T THEN f[i - 1] ELSE Append(f[i - 1], s[i])]
  <2>3. \A i \in 0 .. m - 1 : g[i] = f[i]
    BY <2>1
  <2>4. g[m] = IF s[m] \in T THEN g[m - 1] ELSE Append(g[m - 1], s[m])
    BY <2>1
  <2>5. g = [i \in 0 .. m |-> g[i]]
    OBVIOUS
  <2> HIDE DEF g
  <2>6. ASSUME NEW i \in 0 .. m
        PROVE  g[i] = IF i = 0 THEN <<>>
                      ELSE IF s[i] \in T THEN g[i - 1] ELSE Append(g[i - 1], s[i])
    <3>1. CASE i = m
      BY <3>1, <2>4, <1>4
    <3>2. CASE i # m
      <4>1. i \in 0 .. m - 1 /\ (i # 0 => i - 1 \in 0 .. m - 1)
        BY <3>2
      <4>2. f[i] = IF i = 0 THEN <<>>
                   ELSE IF s[i] \in T THEN f[i - 1] ELSE Append(f[i - 1], s[i])
        BY <4>1, <2>2 DEF Kept
      <4> QED
        BY <4>1, <4>2, <2>3
    <3> QED
      BY <3>1, <3>2
  <2>7. Kept(s, T, m, g)
    BY <2>5, <2>6 DEF Kept
  <2> QED
    BY <2>7
<1> QED
  BY <1>3, <1>4

(* Without is the last value of such a function. *)
LEMMA WithoutIsKept ==
  ASSUME NEW s, NEW T, Len(s) \in Nat
  PROVE  \E f : Kept(s, T, Len(s), f) /\ Without(s, T) = f[Len(s)]
<1> DEFINE R(f) == f = [i \in 0 .. Len(s) |->
                          IF i = 0 THEN <<>>
                          ELSE IF s[i] \in T THEN f[i - 1] ELSE Append(f[i - 1], s[i])]
           c == CHOOSE f : R(f)
<1>1. PICK g : Kept(s, T, Len(s), g)
  BY KeptExists
<1>2. R(g)
  BY <1>1 DEF Kept
<1>3. R(c)
  BY <1>2
<1>4. Without(s, T) = c[Len(s)]
  BY DEF Without
<1> HIDE DEF c
<1>5. Kept(s, T, Len(s), c)
  BY <1>3 DEF Kept
<1> QED
  BY <1>4, <1>5

(* Two such functions agree where their sequences do. *)
LEMMA KeptUnique ==
  ASSUME NEW s, NEW t, NEW T, NEW n \in Nat, NEW m \in Nat, NEW f, NEW g, n <= m,
         Kept(s, T, n, f), Kept(t, T, m, g), \A i \in 1 .. n : s[i] = t[i]
  PROVE  f[n] = g[n]
<1> DEFINE Bad == {k \in 0 .. n : f[k] # g[k]}
<1>1. SUFFICES ASSUME Bad # {}
               PROVE  FALSE
  OBVIOUS
<1>2. PICK k \in Bad : \A j \in Bad : k <= j
  <2>1. Bad \subseteq Nat
    OBVIOUS
  <2> HIDE DEF Bad
  <2> QED
    BY <1>1, <2>1, Least
<1>3. k \in 0 .. m /\ k \in 0 .. n
  OBVIOUS
<1>4. CASE k = 0
  BY <1>3, <1>4 DEF Kept
<1>5. CASE k # 0
  <2>1. k - 1 \in 0 .. n /\ k - 1 \notin Bad
    BY <1>2, <1>5
  <2>2. f[k - 1] = g[k - 1] /\ s[k] = t[k]
    BY <2>1, <1>5
  <2>3. f[k] = IF s[k] \in T THEN f[k - 1] ELSE Append(f[k - 1], s[k])
    BY <1>3, <1>5 DEF Kept
  <2>4. g[k] = IF t[k] \in T THEN g[k - 1] ELSE Append(g[k - 1], t[k])
    BY <1>3, <1>5 DEF Kept
  <2> QED
    BY <2>2, <2>3, <2>4
<1> QED
  BY <1>4, <1>5

(* The two equations of Without, which is all that is used of it below. *)
LEMMA WithoutEmpty ==
  ASSUME NEW T
  PROVE  Without(<<>>, T) = <<>>
<1>1. Len(<<>>) = 0
  OBVIOUS
<1>2. PICK f : Kept(<<>>, T, 0, f) /\ Without(<<>>, T) = f[0]
  BY <1>1, WithoutIsKept
<1> QED
  BY <1>2 DEF Kept

LEMMA WithoutAppend ==
  ASSUME NEW S, NEW s, NEW e, NEW T, s \in Seq(S), e \in S
  PROVE  Without(Append(s, e), T) =
           IF e \in T THEN Without(s, T) ELSE Append(Without(s, T), e)
<1> DEFINE t == Append(s, e)
           n == Len(s)
<1>1. n \in Nat /\ Len(t) = n + 1 /\ t[n + 1] = e /\ \A i \in 1 .. n : s[i] = t[i]
  OBVIOUS
<1> HIDE DEF t, n
<1>2. PICK f : Kept(s, T, n, f) /\ Without(s, T) = f[n]
  BY <1>1, WithoutIsKept DEF n
<1>3. PICK g : Kept(t, T, n + 1, g) /\ Without(t, T) = g[n + 1]
  BY <1>1, WithoutIsKept
<1>4. f[n] = g[n]
  BY <1>1, <1>2, <1>3, KeptUnique
<1>5. ASSUME NEW k \in 0 .. n + 1, k = n + 1
      PROVE  g[k] = IF t[k] \in T THEN g[n] ELSE Append(g[n], t[k])
  <2>1. k # 0 /\ k - 1 = n
    BY <1>1, <1>5
  <2>2. g[k] = IF k = 0 THEN <<>>
               ELSE IF t[k] \in T THEN g[k - 1] ELSE Append(g[k - 1], t[k])
    BY <1>3 DEF Kept
  <2> QED
    BY <2>1, <2>2
<1>6. n + 1 \in 0 .. n + 1
  BY <1>1
<1>7. g[n + 1] = IF t[n + 1] \in T THEN g[n] ELSE Append(g[n], t[n + 1])
  BY <1>5, <1>6
<1> QED
  BY <1>1, <1>2, <1>3, <1>4, <1>7 DEF t

(* What is kept is a sequence of elements outside T. *)
LEMMA WithoutIsSeq ==
  ASSUME NEW S, NEW s, NEW T, s \in Seq(S)
  PROVE  Without(s, T) \in Seq(S \ T)
<1> DEFINE Bad == {n \in Nat : \E t \in Seq(S) : Len(t) = n /\ Without(t, T) \notin Seq(S \ T)}
<1>1. SUFFICES ASSUME Bad # {}
               PROVE  FALSE
  OBVIOUS
<1>2. PICK n \in Bad : \A k \in Bad : n <= k
  BY <1>1, Least
<1>3. PICK t \in Seq(S) : Len(t) = n /\ Without(t, T) \notin Seq(S \ T)
  OBVIOUS
<1>4. CASE n = 0
  <2>1. t = <<>>
    BY <1>3, <1>4
  <2> QED
    BY <1>3, <2>1, WithoutEmpty
<1>5. CASE n # 0
  <2> DEFINE u == SubSeq(t, 1, n - 1)
             e == t[n]
  <2>1. u \in Seq(S) /\ e \in S /\ Len(u) = n - 1 /\ t = Append(u, e)
    BY <1>3, <1>5
  <2> HIDE DEF u, e
  <2>2. n - 1 \in Nat /\ n - 1 \notin Bad
    BY <1>2, <1>5
  <2>3. Without(u, T) \in Seq(S \ T)
    BY <2>1, <2>2
  <2>4. Without(t, T) = IF e \in T THEN Without(u, T) ELSE Append(Without(u, T), e)
    BY <2>1, WithoutAppend
  <2> QED
    BY <1>3, <2>1, <2>3, <2>4
<1> QED
  BY <1>4, <1>5

(* Append and \o associate. *)
LEMMA AppendConcat ==
  ASSUME NEW S, NEW s, NEW t, NEW e, s \in Seq(S), t \in Seq(S), e \in S
  PROVE  Append(s \o t, e) = s \o Append(t, e)
OBVIOUS

(* Without of two sequences end to end, by the least second one that fails. *)
LEMMA WithoutConcat ==
  ASSUME NEW S, NEW s, NEW t, NEW T, s \in Seq(S), t \in Seq(S)
  PROVE  Without(s \o t, T) = Without(s, T) \o Without(t, T)
<1> DEFINE Holds(u) == Without(s \o u, T) = Without(s, T) \o Without(u, T)
           Bad == {n \in Nat : \E u \in Seq(S) : Len(u) = n /\ ~ Holds(u)}
<1>1. SUFFICES ASSUME Bad # {}
               PROVE  FALSE
  OBVIOUS
<1>2. PICK n \in Bad : \A k \in Bad : n <= k
  BY <1>1, Least
<1>3. PICK u \in Seq(S) : Len(u) = n /\ ~ Holds(u)
  OBVIOUS
<1>4. Without(s, T) \in Seq(S \ T)
  BY WithoutIsSeq
<1>5. CASE n = 0
  <2>1. u = <<>>
    BY <1>3, <1>5
  <2>2. s \o u = s /\ Without(s, T) \o <<>> = Without(s, T)
    BY <2>1, <1>4
  <2> QED
    BY <1>3, <2>1, <2>2, WithoutEmpty
<1>6. CASE n # 0
  <2> DEFINE v == SubSeq(u, 1, n - 1)
             e == u[n]
  <2>1. v \in Seq(S) /\ e \in S /\ Len(v) = n - 1 /\ u = Append(v, e)
    BY <1>3, <1>6
  <2> HIDE DEF v, e
  <2>2. n - 1 \in Nat /\ n - 1 \notin Bad
    BY <1>2, <1>6
  <2>3. Without(s \o v, T) = Without(s, T) \o Without(v, T)
    BY <2>1, <2>2
  <2>4. s \o u = Append(s \o v, e) /\ s \o v \in Seq(S)
    BY <2>1
  <2>5. Without(s \o u, T) =
          IF e \in T THEN Without(s \o v, T) ELSE Append(Without(s \o v, T), e)
    <3> DEFINE w == s \o v
    <3>1. w \in Seq(S) /\ s \o u = Append(w, e)
      BY <2>4
    <3> HIDE DEF w
    <3>2. Without(Append(w, e), T) = IF e \in T THEN Without(w, T) ELSE Append(Without(w, T), e)
      BY <2>1, <3>1, WithoutAppend
    <3> QED
      BY <3>1, <3>2 DEF w
  <2>6. Without(u, T) = IF e \in T THEN Without(v, T) ELSE Append(Without(v, T), e)
    BY <2>1, WithoutAppend
  <2>7. Without(v, T) \in Seq(S \ T)
    BY <2>1, WithoutIsSeq
  <2>8. CASE e \in T
    BY <1>3, <2>3, <2>5, <2>6, <2>8
  <2>9. CASE e \notin T
    <3>1. e \in S \ T
      BY <2>1, <2>9
    <3>2. Append(Without(s, T) \o Without(v, T), e) = Without(s, T) \o Append(Without(v, T), e)
      BY <1>4, <2>7, <3>1, AppendConcat, SMTT(30)
    <3>3. Without(s \o u, T) = Without(s, T) \o Without(u, T)
      BY <2>3, <2>5, <2>6, <2>9, <3>2
    <3> QED
      BY <1>3, <3>3
  <2> QED
    BY <2>8, <2>9
<1> QED
  BY <1>5, <1>6

(* Without of one element, *)
LEMMA WithoutOne ==
  ASSUME NEW e, NEW T
  PROVE  Without(<<e>>, T) = IF e \in T THEN <<>> ELSE <<e>>
<1> DEFINE t == <<>>
<1>1. t \in Seq({e}) /\ <<e>> = Append(t, e) /\ Without(t, T) = <<>> /\ e \in {e}
  BY WithoutEmpty
<1>2. Append(<<>>, e) = <<e>>
  OBVIOUS
<1> HIDE DEF t
<1>3. Without(Append(t, e), T) = IF e \in T THEN Without(t, T) ELSE Append(Without(t, T), e)
  BY <1>1, WithoutAppend
<1> QED
  BY <1>1, <1>2, <1>3

(* and of a sequence with one element put before it. *)
LEMMA WithoutFirst ==
  ASSUME NEW S, NEW s, NEW e, NEW T, s \in Seq(S), e \in S
  PROVE  Without(<<e>> \o s, T) = IF e \in T THEN Without(s, T) ELSE <<e>> \o Without(s, T)
<1>1. PICK h : h = <<e>>
  OBVIOUS
<1>2. h \in Seq(S)
  BY <1>1
<1>3. Without(h \o s, T) = Without(h, T) \o Without(s, T)
  BY <1>2, WithoutConcat
<1>4. Without(h, T) = IF e \in T THEN <<>> ELSE h
  BY <1>1, WithoutOne
<1>5. Without(s, T) \in Seq(S \ T)
  BY WithoutIsSeq
<1>6. <<>> \o Without(s, T) = Without(s, T)
  BY <1>5
<1>7. CASE e \in T
  BY <1>1, <1>3, <1>4, <1>6, <1>7
<1>8. CASE e \notin T
  BY <1>1, <1>3, <1>4, <1>8
<1> QED
  BY <1>7, <1>8

(* What is kept is not longer. *)
LEMMA WithoutLen ==
  ASSUME NEW S, NEW s, NEW T, s \in Seq(S)
  PROVE  Len(Without(s, T)) \in 0 .. Len(s)
<1> DEFINE Holds(u) == Len(Without(u, T)) \in 0 .. Len(u)
           Bad == {n \in Nat : \E u \in Seq(S) : Len(u) = n /\ ~ Holds(u)}
<1>1. SUFFICES ASSUME Bad # {}
               PROVE  FALSE
  OBVIOUS
<1>2. PICK n \in Bad : \A k \in Bad : n <= k
  BY <1>1, Least
<1>3. PICK u \in Seq(S) : Len(u) = n /\ ~ Holds(u)
  OBVIOUS
<1>4. CASE n = 0
  <2>1. u = <<>>
    BY <1>3, <1>4
  <2> QED
    BY <1>3, <2>1, WithoutEmpty
<1>5. CASE n # 0
  <2> DEFINE v == SubSeq(u, 1, n - 1)
             e == u[n]
  <2>1. v \in Seq(S) /\ e \in S /\ Len(v) = n - 1 /\ u = Append(v, e)
    BY <1>3, <1>5
  <2> HIDE DEF v, e
  <2>2. n - 1 \in Nat /\ n - 1 \notin Bad
    BY <1>2, <1>5
  <2>3. Len(Without(v, T)) \in 0 .. n - 1
    BY <2>1, <2>2
  <2>4. Without(u, T) = IF e \in T THEN Without(v, T) ELSE Append(Without(v, T), e)
    BY <2>1, WithoutAppend
  <2>5. Without(v, T) \in Seq(S \ T)
    BY <2>1, WithoutIsSeq
  <2>6. Len(Append(Without(v, T), e)) = Len(Without(v, T)) + 1
    BY <2>5
  <2> QED
    BY <1>3, <2>3, <2>4, <2>6
<1> QED
  BY <1>4, <1>5

-----------------------------------------------------------------------------
(* Pieces of a sequence. *)

(* A sequence is what comes before an element, that element, and what comes after. *)
Split(S, s, i, a, b, c) ==
  /\ a \in Seq(S) /\ b \in Seq(S) /\ c \in Seq(S)
  /\ Len(a) + Len(b) = Len(s) - 1
  /\ c = <<s[i]>>
  /\ s = a \o (c \o b)
  /\ RemoveAt(s, i) = a \o b

(* Every position splits its sequence. *)
LEMMA SplitAt ==
  ASSUME NEW S, NEW s, NEW i, s \in Seq(S), i \in 1 .. Len(s)
  PROVE  \E a, b, c : Split(S, s, i, a, b, c)
<1>1. PICK a, b, c : a = SubSeq(s, 1, i - 1) /\ b = SubSeq(s, i + 1, Len(s)) /\ c = <<s[i]>>
  OBVIOUS
<1>2. /\ a \in Seq(S) /\ b \in Seq(S) /\ c \in Seq(S) /\ Len(s) \in Nat
      /\ Len(a) = i - 1 /\ Len(b) = Len(s) - i /\ Len(c) = 1
  BY <1>1
<1>3. /\ \A k \in 1 .. i - 1 : a[k] = s[k]
      /\ \A k \in 1 .. Len(s) - i : b[k] = s[k + i]
      /\ c[1] = s[i]
  BY <1>1, <1>2
<1>4. PICK d : d = c \o b
  OBVIOUS
<1>5. /\ d \in Seq(S) /\ Len(d) = Len(c) + Len(b)
      /\ \A k \in 1 .. Len(c) + Len(b) : d[k] = IF k <= Len(c) THEN c[k] ELSE b[k - Len(c)]
  <2>1. c \in Seq(S) /\ b \in Seq(S)
    BY <1>2
  <2> QED
    BY <2>1, <1>4
<1>6. PICK e : e = a \o d
  OBVIOUS
<1>7. /\ e \in Seq(S) /\ Len(e) = Len(a) + Len(d)
      /\ \A k \in 1 .. Len(a) + Len(d) : e[k] = IF k <= Len(a) THEN a[k] ELSE d[k - Len(a)]
  <2>1. a \in Seq(S) /\ d \in Seq(S)
    BY <1>2, <1>5
  <2> QED
    BY <2>1, <1>6
<1>8. Len(e) = Len(s)
  BY <1>2, <1>5, <1>7
<1>9. ASSUME NEW k \in 1 .. Len(s)
      PROVE  e[k] = s[k]
  <2>1. /\ k \in 1 .. Len(a) + Len(d) /\ Len(a) = i - 1 /\ i \in Int /\ k \in Int
        /\ Len(s) \in Nat /\ k <= Len(s) /\ i <= Len(s) /\ Len(c) = 1 /\ Len(b) = Len(s) - i
    BY <1>2, <1>5
  <2>2. e[k] = IF k <= i - 1 THEN a[k] ELSE d[k - (i - 1)]
    BY <1>7, <2>1
  <2>3. CASE k <= i - 1
    <3>1. k \in 1 .. i - 1
      BY <2>3
    <3> QED
      BY <1>3, <2>2, <2>3, <3>1
  <2>4. CASE ~ (k <= i - 1)
    <3>1. k - (i - 1) \in 1 .. Len(c) + Len(b)
      BY <2>1, <2>4
    <3>2. d[k - (i - 1)] = IF k - (i - 1) <= 1 THEN c[k - (i - 1)] ELSE b[k - (i - 1) - 1]
      BY <1>5, <2>1, <3>1
    <3>3. CASE k = i
      <4>1. k - (i - 1) = 1
        BY <2>1, <3>3
      <4> QED
        BY <1>3, <2>2, <2>4, <3>2, <3>3, <4>1
    <3>4. CASE k # i
      <4>1. ~ (k - (i - 1) <= 1) /\ k - (i - 1) - 1 = k - i /\ k - i \in 1 .. Len(s) - i
            /\ (k - i) + i = k
        BY <2>1, <2>4, <3>4
      <4>2. b[k - i] = s[(k - i) + i]
        BY <1>3, <4>1
      <4> QED
        BY <2>2, <2>4, <3>2, <4>1, <4>2
    <3> QED
      BY <3>3, <3>4
  <2> QED
    BY <2>3, <2>4
<1>10. e = s
  BY <1>7, <1>8, <1>9, SeqEqual
<1>11. s = a \o (c \o b)
  BY <1>4, <1>6, <1>10
<1>12. RemoveAt(s, i) = a \o b
  BY <1>1 DEF RemoveAt
<1>13. Len(a) + Len(b) = Len(s) - 1
  BY <1>2
<1>14. c = <<s[i]>>
  BY <1>1
<1>15. Split(S, s, i, a, b, c)
  BY <1>2, <1>11, <1>12, <1>13, <1>14 DEF Split
<1> QED
  BY <1>15

(* Without from the front, as readers take a buffer. *)
LEMMA WithoutHead ==
  ASSUME NEW S, NEW s, NEW T, s \in Seq(S), s # <<>>
  PROVE  /\ Without(s, T) = IF Head(s) \in T THEN Without(Tail(s), T)
                            ELSE <<Head(s)>> \o Without(Tail(s), T)
         /\ Tail(s) \in Seq(S) /\ Head(s) \in S /\ Len(Tail(s)) = Len(s) - 1
<1>1. /\ s = <<Head(s)>> \o Tail(s)
      /\ Tail(s) \in Seq(S) /\ Head(s) \in S /\ Len(Tail(s)) = Len(s) - 1
  OBVIOUS
<1>2. PICK e, t : e = Head(s) /\ t = Tail(s)
  OBVIOUS
<1>3. t \in Seq(S) /\ e \in S
  BY <1>1, <1>2
<1>4. Without(<<e>> \o t, T) = IF e \in T THEN Without(t, T) ELSE <<e>> \o Without(t, T)
  BY <1>3, WithoutFirst
<1> QED
  BY <1>1, <1>2, <1>4

(* Taking an element of T out of the middle changes nothing for Without. *)
LEMMA WithoutRemove ==
  ASSUME NEW S, NEW s, NEW i, NEW T, s \in Seq(S), i \in 1 .. Len(s), s[i] \in T
  PROVE  /\ Without(RemoveAt(s, i), T) = Without(s, T)
         /\ RemoveAt(s, i) \in Seq(S) /\ Len(RemoveAt(s, i)) = Len(s) - 1
<1>1. PICK a, b, c : Split(S, s, i, a, b, c)
  BY SplitAt
<1>2. a \in Seq(S) /\ b \in Seq(S) /\ c \in Seq(S)
  BY <1>1 DEF Split
<1>3. a \o b \in Seq(S) /\ c \o b \in Seq(S) /\ Len(a \o b) = Len(a) + Len(b)
  BY <1>2
<1>4. Len(a) + Len(b) = Len(s) - 1 /\ RemoveAt(s, i) = a \o b /\ s = a \o (c \o b)
  BY <1>1 DEF Split
<1>5. Without(c, T) = <<>>
  <2>1. c = <<s[i]>>
    BY <1>1 DEF Split
  <2> QED
    BY <2>1, WithoutOne
<1>6. /\ Without(c \o b, T) = Without(c, T) \o Without(b, T)
      /\ Without(a \o (c \o b), T) = Without(a, T) \o Without(c \o b, T)
      /\ Without(a \o b, T) = Without(a, T) \o Without(b, T)
  <2>1. Without(c \o b, T) = Without(c, T) \o Without(b, T)
    BY <1>2, WithoutConcat
  <2>2. PICK d : d = c \o b
    OBVIOUS
  <2>3. d \in Seq(S)
    BY <1>3, <2>2
  <2>4. Without(a \o d, T) = Without(a, T) \o Without(d, T)
    BY <1>2, <2>3, WithoutConcat
  <2>5. Without(a \o b, T) = Without(a, T) \o Without(b, T)
    BY <1>2, WithoutConcat
  <2> QED
    BY <2>1, <2>2, <2>4, <2>5
<1>7. <<>> \o Without(b, T) = Without(b, T)
  <2>1. Without(b, T) \in Seq(S \ T)
    BY <1>2, WithoutIsSeq
  <2> QED
    BY <2>1
<1>8. Without(a \o b, T) = Without(s, T)
  BY <1>4, <1>5, <1>6, <1>7
<1> QED
  BY <1>3, <1>4, <1>8

(* Where no element is in T there is nothing to leave out. *)
LEMMA WithoutNone ==
  ASSUME NEW S, NEW s, NEW T, s \in Seq(S), \A k \in 1 .. Len(s) : s[k] \notin T
  PROVE  Without(s, T) = s
<1> DEFINE Holds(u) == (\A k \in 1 .. Len(u) : u[k] \notin T) => Without(u, T) = u
           Bad == {n \in Nat : \E u \in Seq(S) : Len(u) = n /\ ~ Holds(u)}
<1>1. SUFFICES ASSUME Bad # {}
               PROVE  FALSE
  OBVIOUS
<1>2. PICK n \in Bad : \A k \in Bad : n <= k
  BY <1>1, Least
<1>3. PICK u \in Seq(S) : Len(u) = n /\ ~ Holds(u)
  OBVIOUS
<1>4. CASE n = 0
  <2>1. u = <<>>
    BY <1>3, <1>4
  <2> QED
    BY <1>3, <2>1, WithoutEmpty
<1>5. CASE n # 0
  <2> DEFINE v == SubSeq(u, 1, n - 1)
             e == u[n]
  <2>1. v \in Seq(S) /\ e \in S /\ Len(v) = n - 1 /\ u = Append(v, e)
    BY <1>3, <1>5
  <2>2. \A k \in 1 .. n - 1 : v[k] = u[k]
    BY <1>3, <1>5
  <2>3. e \notin T
    BY <1>3, <1>5
  <2> HIDE DEF v, e
  <2>4. n - 1 \in Nat /\ n - 1 \notin Bad
    BY <1>2, <1>5
  <2>5. Holds(v)
    BY <2>1, <2>4
  <2>6. \A k \in 1 .. Len(v) : v[k] \notin T
    BY <1>3, <2>1, <2>2
  <2>7. Without(u, T) = Append(Without(v, T), e)
    BY <2>1, <2>3, WithoutAppend
  <2> QED
    BY <1>3, <2>1, <2>5, <2>6, <2>7
<1> QED
  BY <1>4, <1>5

(* RemoveAt, position by position. *)
LEMMA RemoveAtIs ==
  ASSUME NEW S, NEW s, NEW i, s \in Seq(S), i \in 1 .. Len(s)
  PROVE  /\ RemoveAt(s, i) \in Seq(S) /\ Len(RemoveAt(s, i)) = Len(s) - 1
         /\ \A k \in 1 .. Len(s) - 1 : RemoveAt(s, i)[k] = IF k < i THEN s[k] ELSE s[k + 1]
<1>1. PICK a, b : a = SubSeq(s, 1, i - 1) /\ b = SubSeq(s, i + 1, Len(s))
  OBVIOUS
<1>2. /\ a \in Seq(S) /\ b \in Seq(S) /\ Len(s) \in Nat /\ i \in Nat /\ i <= Len(s)
      /\ Len(a) = i - 1 /\ Len(b) = Len(s) - i
  BY <1>1
<1>3. /\ \A k \in 1 .. i - 1 : a[k] = s[k]
      /\ \A k \in 1 .. Len(s) - i : b[k] = s[k + i]
  BY <1>1, <1>2
<1>4. PICK e : e = a \o b
  OBVIOUS
<1>5. /\ e \in Seq(S) /\ Len(e) = Len(a) + Len(b)
      /\ \A k \in 1 .. Len(a) + Len(b) : e[k] = IF k <= Len(a) THEN a[k] ELSE b[k - Len(a)]
  <2>1. a \in Seq(S) /\ b \in Seq(S)
    BY <1>2
  <2> QED
    BY <2>1, <1>4
<1>6. ASSUME NEW k \in 1 .. Len(s) - 1
      PROVE  e[k] = IF k < i THEN s[k] ELSE s[k + 1]
  <2>1. k \in 1 .. Len(a) + Len(b)
    BY <1>2
  <2>2. e[k] = IF k <= i - 1 THEN a[k] ELSE b[k - (i - 1)]
    BY <1>2, <1>5, <2>1
  <2>3. CASE k < i
    <3>1. k \in 1 .. i - 1 /\ k <= i - 1
      BY <1>2, <2>3
    <3> QED
      BY <1>3, <2>2, <2>3, <3>1
  <2>4. CASE ~ (k < i)
    <3>1. ~ (k <= i - 1) /\ k - (i - 1) \in 1 .. Len(s) - i /\ (k - (i - 1)) + i = k + 1
      BY <1>2, <2>4
    <3>2. b[k - (i - 1)] = s[(k - (i - 1)) + i]
      BY <1>3, <3>1
    <3> QED
      BY <2>2, <2>4, <3>1, <3>2
  <2> QED
    BY <2>3, <2>4
<1>7. RemoveAt(s, i) = e
  BY <1>1, <1>4 DEF RemoveAt
<1>8. Len(e) = Len(s) - 1
  BY <1>2, <1>5
<1> QED
  BY <1>5, <1>6, <1>7, <1>8

(* Position i is the only one with an element of T. *)
Sole(s, i, T) == \A k \in 1 .. Len(s) : s[k] \in T => k = i

(* Without takes such an element out of its place. *)
LEMMA WithoutUnique ==
  ASSUME NEW S, NEW s, NEW i, NEW T, s \in Seq(S), i \in 1 .. Len(s), s[i] \in T, Sole(s, i, T)
  PROVE  Without(s, T) = RemoveAt(s, i)
<1>1. PICK r : r = RemoveAt(s, i)
  OBVIOUS
<1>2. /\ r \in Seq(S) /\ Len(r) = Len(s) - 1
      /\ \A k \in 1 .. Len(s) - 1 : r[k] = IF k < i THEN s[k] ELSE s[k + 1]
  BY <1>1, RemoveAtIs
<1>3. ASSUME NEW k \in 1 .. Len(r)
      PROVE  r[k] \notin T
  <2>1. Len(s) \in Nat /\ k \in 1 .. Len(s) - 1 /\ i \in Nat /\ i <= Len(s)
    BY <1>2
  <2>2. CASE k < i
    <3>1. k \in 1 .. Len(s) /\ k # i /\ r[k] = s[k]
      BY <1>2, <2>1, <2>2
    <3> QED
      BY <3>1 DEF Sole
  <2>3. CASE ~ (k < i)
    <3>1. k + 1 \in 1 .. Len(s) /\ k + 1 # i /\ r[k] = s[k + 1]
      BY <1>2, <2>1, <2>3
    <3> QED
      BY <3>1 DEF Sole
  <2> QED
    BY <2>2, <2>3
<1>4. Without(r, T) = r
  BY <1>2, <1>3, WithoutNone
<1>5. Without(r, T) = Without(s, T)
  <2>1. /\ Without(RemoveAt(s, i), T) = Without(s, T)
        /\ RemoveAt(s, i) \in Seq(S) /\ Len(RemoveAt(s, i)) = Len(s) - 1
    BY WithoutRemove
  <2> QED
    BY <1>1, <2>1
<1> QED
  BY <1>1, <1>4, <1>5

-----------------------------------------------------------------------------
(* FlattenSeq. *)

(* What FlattenSeq has put together of the first sequences of q. *)
Joined(q, n, f) ==
  /\ f = [i \in 1 .. n |-> f[i]]
  /\ \A i \in 1 .. n : f[i] = IF i = 1 THEN q[i] ELSE f[i - 1] \o q[i]

(* Every sequence of sequences can be put together. *)
LEMMA JoinedExists ==
  ASSUME NEW q, NEW n \in Nat, n # 0
  PROVE  \E f : Joined(q, n, f)
<1> DEFINE Bad == {m \in Nat : m # 0 /\ ~ \E f : Joined(q, m, f)}
<1>1. SUFFICES ASSUME Bad # {}
               PROVE  FALSE
  OBVIOUS
<1>2. PICK m \in Bad : \A k \in Bad : m <= k
  BY <1>1, Least
<1>3. CASE m = 1
  <2> DEFINE f == [i \in 1 .. 1 |-> q[1]]
  <2>1. Joined(q, 1, f)
    BY DEF Joined
  <2> QED
    BY <1>3, <2>1
<1>4. CASE m # 1
  <2>1. m - 1 \in Nat /\ m - 1 # 0 /\ m - 1 \notin Bad
    BY <1>2, <1>4
  <2>2. PICK f : Joined(q, m - 1, f)
    BY <2>1
  <2> DEFINE w == f[m - 1] \o q[m]
             g == [i \in 1 .. m |-> IF i < m THEN f[i] ELSE w]
  <2> HIDE DEF w
  <2>3. \A i \in 1 .. m - 1 : g[i] = f[i]
    BY <2>1
  <2>4. g[m] = w /\ g[m - 1] = f[m - 1]
    BY <2>1
  <2>5. g = [i \in 1 .. m |-> g[i]]
    OBVIOUS
  <2> HIDE DEF g
  <2>6. ASSUME NEW i \in 1 .. m
        PROVE  g[i] = IF i = 1 THEN q[i] ELSE g[i - 1] \o q[i]
    <3>1. CASE i = m
      BY <3>1, <2>4, <1>4 DEF w
    <3>2. CASE i # m
      <4>1. i \in 1 .. m - 1 /\ (i # 1 => i - 1 \in 1 .. m - 1)
        BY <3>2
      <4>2. f[i] = IF i = 1 THEN q[i] ELSE f[i - 1] \o q[i]
        BY <4>1, <2>2 DEF Joined
      <4> QED
        BY <4>1, <4>2, <2>3
    <3> QED
      BY <3>1, <3>2
  <2>7. Joined(q, m, g)
    BY <2>5, <2>6 DEF Joined
  <2> QED
    BY <2>7
<1> QED
  BY <1>3, <1>4

(* The pieces of a sequence of sequences over S make a sequence over S. *)
LEMMA FlattenIsSeq ==
  ASSUME NEW S, NEW q, q \in Seq(Seq(S))
  PROVE  FlattenSeq(q) \in Seq(S)
<1> DEFINE n == Len(q)
           R(f) == f = [i \in 1 .. n |-> IF i = 1 THEN q[i] ELSE f[i - 1] \o q[i]]
           c == CHOOSE f : R(f)
<1>1. n \in Nat /\ \A i \in 1 .. n : q[i] \in Seq(S)
  OBVIOUS
<1>2. CASE n = 0
  <2>1. FlattenSeq(q) = q /\ q = <<>>
    BY <1>2 DEF FlattenSeq
  <2> QED
    BY <2>1
<1>3. CASE n # 0
  <2>1. FlattenSeq(q) = c[n]
    BY <1>3 DEF FlattenSeq
  <2>2. PICK g : Joined(q, n, g)
    BY <1>1, <1>3, JoinedExists
  <2>3. R(g)
    BY <2>2 DEF Joined
  <2>4. R(c)
    BY <2>3
  <2> HIDE DEF c
  <2>5. Joined(q, n, c)
    BY <2>4 DEF Joined
  <2> HIDE DEF n
  <2> DEFINE Bad == {i \in 1 .. n : c[i] \notin Seq(S)}
  <2>6. SUFFICES ASSUME Bad # {}
                 PROVE  FALSE
    BY <1>1, <1>3, <2>1
  <2>7. PICK i \in Bad : \A k \in Bad : i <= k
    <3>1. Bad \subseteq Nat
      BY <1>1
    <3> HIDE DEF Bad
    <3> QED
      BY <2>6, <3>1, Least
  <2>8. i \in 1 .. n /\ c[i] = IF i = 1 THEN q[i] ELSE c[i - 1] \o q[i]
    BY <2>5 DEF Joined
  <2>9. q[i] \in Seq(S)
    BY <1>1, <2>8
  <2>10. CASE i = 1
    BY <2>8, <2>9, <2>10
  <2>11. CASE i # 1
    <3>1. i - 1 \in 1 .. n /\ i - 1 \notin Bad
      BY <1>1, <2>7, <2>8, <2>11
    <3>2. c[i - 1] \in Seq(S)
      BY <3>1
    <3>3. c[i - 1] \o q[i] \in Seq(S)
      BY <2>9, <3>2
    <3>4. c[i] = c[i - 1] \o q[i]
      BY <2>8, <2>11
    <3>5. c[i] \in Seq(S)
      BY <3>3, <3>4
    <3> QED
      BY <3>5
  <2> QED
    BY <2>10, <2>11
<1> QED
  BY <1>2, <1>3
=============================================================================
