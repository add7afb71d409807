----------------------------- MODULE ListLemmas -----------------------------
(***************************************************************************)
(* Induction over the naturals without operator parameters: what is to be  *)
(* shown of n is given as a set of numbers.  With it, the folds of Lists   *)
(* are well defined and follow their sequence as it grows and shrinks.     *)
(***************************************************************************)
EXTENDS Lists, SequenceTheorems, WellFoundedInduction, TLAPS

LEMMA LeastNatural ==
  ASSUME NEW T, T \subseteq Nat, T # {}
  PROVE  \E n \in T : \A m \in T : n <= m
<1>1. \E n \in T : \A m \in T : ~(<<m, n>> \in OpToRel(<, Nat))
  BY WFMin, NatLessThanWellFounded
<1>2. \A m, n \in Nat : m < n => <<m, n>> \in OpToRel(<, Nat)
  BY Zenon DEF OpToRel
<1> HIDE DEF OpToRel
<1>3. \E n \in T : \A m \in T : ~(m < n)
  BY <1>1, <1>2, Zenon
<1> QED
  BY <1>3

LEMMA Induction ==
  ASSUME NEW T, 0 \in T, \A n \in Nat : n \in T => n + 1 \in T
  PROVE  \A n \in Nat : n \in T
<1> DEFINE U == Nat \ T
<1> SUFFICES ASSUME U # {} PROVE FALSE
  OBVIOUS
<1>1. PICK n \in U : \A m \in U : n <= m
  BY LeastNatural
<1>2. n # 0 /\ n - 1 \in Nat /\ n - 1 \notin U
  BY <1>1
<1>3. n - 1 \in T
  BY <1>2
<1> QED
  BY <1>1, <1>2, <1>3

-----------------------------------------------------------------------------
(* f follows the definition of SelectedUpTo up to n. *)
Selects(f, n, s, S) ==
  f = [i \in 0 .. n |->
         IF i = 0 THEN <<>>
         ELSE IF s[i] \in S THEN Append(f[i - 1], s[i])
         ELSE f[i - 1]]

LEMMA SelectionExists ==
  ASSUME NEW s, NEW S
  PROVE  \A n \in Nat : \E f : Selects(f, n, s, S)
<1> DEFINE T == {n \in Nat : \E f : Selects(f, n, s, S)}
<1>1. 0 \in T
  <2> DEFINE f == [i \in 0 .. 0 |-> <<>>]
  <2>1. Selects(f, 0, s, S)
    BY DEF Selects
  <2> QED
    BY <2>1
<1>2. ASSUME NEW n \in Nat, n \in T
      PROVE  n + 1 \in T
  <2>1. PICK f : Selects(f, n, s, S)
    BY <1>2
  <2> DEFINE last == IF s[n + 1] \in S THEN Append(f[n], s[n + 1]) ELSE f[n]
             g == [i \in 0 .. n + 1 |-> IF i = n + 1 THEN last ELSE f[i]]
  <2>2. \A i \in 0 .. n :
          f[i] = IF i = 0 THEN <<>>
                 ELSE IF s[i] \in S THEN Append(f[i - 1], s[i])
                 ELSE f[i - 1]
    BY <2>1 DEF Selects
  <2>3. \A i \in 0 .. n + 1 :
          g[i] = IF i = 0 THEN <<>>
                 ELSE IF s[i] \in S THEN Append(g[i - 1], s[i])
                 ELSE g[i - 1]
    <3> SUFFICES ASSUME NEW i \in 0 .. n + 1
                 PROVE  g[i] = IF i = 0 THEN <<>>
                               ELSE IF s[i] \in S THEN Append(g[i - 1], s[i])
                               ELSE g[i - 1]
      OBVIOUS
    <3>1. CASE i = n + 1
      BY <3>1
    <3>2. CASE i \in 0 .. n
      <4>1. g[i] = f[i] /\ (i # 0 => g[i - 1] = f[i - 1])
        BY <3>2
      <4> QED
        BY <2>2, <3>2, <4>1
    <3> QED
      BY <3>1, <3>2
  <2>4. Selects(g, n + 1, s, S)
    BY <2>3 DEF Selects
  <2> QED
    BY <2>4
<1>3. \A n \in Nat : n \in T
  <2> HIDE DEF T
  <2> QED
    BY <1>1, <1>2, Induction
<1> QED
  BY <1>3

LEMMA SelectedUpToDef ==
  ASSUME NEW X, NEW s \in Seq(X), NEW S
  PROVE  LET f == SelectedUpTo(s, S)
         IN  /\ f[0] = <<>>
             /\ \A i \in 1 .. Len(s) :
                  f[i] = IF s[i] \in S THEN Append(f[i - 1], s[i]) ELSE f[i - 1]
<1> DEFINE f == SelectedUpTo(s, S)
<1>1. Len(s) \in Nat
  OBVIOUS
<1>2. \E g : Selects(g, Len(s), s, S)
  BY <1>1, SelectionExists
<1>3. f = CHOOSE g : Selects(g, Len(s), s, S)
  BY DEF SelectedUpTo, Selects
<1>4. Selects(f, Len(s), s, S)
  BY <1>2, <1>3
<1>5. \A i \in 0 .. Len(s) :
          f[i] = IF i = 0 THEN <<>>
                 ELSE IF s[i] \in S THEN Append(f[i - 1], s[i])
                 ELSE f[i - 1]
  BY <1>4 DEF Selects
<1> QED
  BY <1>1, <1>5

(* Sequences with a common prefix select the same from it. *)
LEMMA SelectedUpToPrefix ==
  ASSUME NEW X, NEW s \in Seq(X), NEW t \in Seq(X), NEW S,
         NEW k \in 0 .. Len(s), k <= Len(t),
         \A i \in 1 .. k : t[i] = s[i]
  PROVE  \A i \in 0 .. k : SelectedUpTo(t, S)[i] = SelectedUpTo(s, S)[i]
<1> DEFINE f == SelectedUpTo(s, S)
           g == SelectedUpTo(t, S)
           T == {n \in Nat : n <= k => g[n] = f[n]}
<1>1. Len(s) \in Nat /\ Len(t) \in Nat
  OBVIOUS
<1>2. /\ f[0] = <<>>
      /\ \A i \in 1 .. Len(s) :
           f[i] = IF s[i] \in S THEN Append(f[i - 1], s[i]) ELSE f[i - 1]
  BY SelectedUpToDef
<1>3. /\ g[0] = <<>>
      /\ \A i \in 1 .. Len(t) :
           g[i] = IF t[i] \in S THEN Append(g[i - 1], t[i]) ELSE g[i - 1]
  BY SelectedUpToDef
<1> HIDE DEF f, g
<1>4. 0 \in T
  BY <1>2, <1>3
<1>5. ASSUME NEW n \in Nat, n \in T
      PROVE  n + 1 \in T
  <2> SUFFICES ASSUME n + 1 <= k PROVE g[n + 1] = f[n + 1]
    OBVIOUS
  <2>1. g[n] = f[n] /\ n + 1 \in 1 .. Len(s) /\ n + 1 \in 1 .. Len(t) /\ n + 1 \in 1 .. k
    BY <1>1, <1>5
  <2>2. t[n + 1] = s[n + 1] /\ (n + 1) - 1 = n
    BY <2>1
  <2>3. f[n + 1] = IF s[n + 1] \in S THEN Append(f[n], s[n + 1]) ELSE f[n]
    BY <1>2, <2>1, <2>2
  <2>4. g[n + 1] = IF t[n + 1] \in S THEN Append(g[n], t[n + 1]) ELSE g[n]
    BY <1>3, <2>1, <2>2
  <2> QED
    BY <2>1, <2>2, <2>3, <2>4
<1>6. \A n \in Nat : n \in T
  <2> HIDE DEF T
  <2> QED
    BY <1>4, <1>5, Induction
<1> QED
  BY <1>6 DEF f, g

(* Selection keeps to the elements of the sequence that it selects.        *)
LEMMA SelectedType ==
  ASSUME NEW X, NEW s \in Seq(X), NEW S
  PROVE  Selected(s, S) \in Seq(X \cap S)
<1> DEFINE f == SelectedUpTo(s, S)
           T == {n \in Nat : n <= Len(s) => f[n] \in Seq(X \cap S)}
<1>1. /\ f[0] = <<>>
      /\ \A i \in 1 .. Len(s) :
           f[i] = IF s[i] \in S THEN Append(f[i - 1], s[i]) ELSE f[i - 1]
  BY SelectedUpToDef
<1> HIDE DEF f
<1>2. 0 \in T
  BY <1>1, EmptySeq
<1>3. ASSUME NEW n \in Nat, n \in T
      PROVE  n + 1 \in T
  <2> SUFFICES ASSUME n + 1 <= Len(s) PROVE f[n + 1] \in Seq(X \cap S)
    OBVIOUS
  <2>1. f[n] \in Seq(X \cap S) /\ n + 1 \in 1 .. Len(s) /\ (n + 1) - 1 = n
    BY <1>3
  <2>2. s[n + 1] \in X
    BY <2>1
  <2>3. f[n + 1] = IF s[n + 1] \in S THEN Append(f[n], s[n + 1]) ELSE f[n]
    BY <1>1, <2>1
  <2> QED
    BY <2>1, <2>2, <2>3
<1>4. \A n \in Nat : n \in T
  <2> HIDE DEF T
  <2> QED
    BY <1>2, <1>3, Induction
<1> QED
  BY <1>4 DEF Selected, f

LEMMA SelectedEmpty ==
  ASSUME NEW S
  PROVE  Selected(<<>>, S) = <<>>
<1>1. ASSUME NEW s \in Seq({}), s = <<>> PROVE Selected(s, S) = <<>>
  <2> DEFINE f == SelectedUpTo(s, S)
  <2>1. f[0] = <<>>
    BY SelectedUpToDef
  <2>2. Len(s) = 0
    BY <1>1
  <2> QED
    BY <2>1, <2>2 DEF Selected
<1>2. <<>> \in Seq({})
  BY EmptySeq
<1> QED
  BY <1>1, <1>2

LEMMA SelectedAppend ==
  ASSUME NEW X, NEW s \in Seq(X), NEW x \in X, NEW S
  PROVE  Selected(Append(s, x), S) =
           IF x \in S THEN Append(Selected(s, S), x) ELSE Selected(s, S)
<1> DEFINE t == Append(s, x)
           k == Len(s)
<1>1. /\ t \in Seq(X) /\ Len(t) = k + 1 /\ k \in Nat /\ t[k + 1] = x
      /\ \A i \in 1 .. k : t[i] = s[i]
  OBVIOUS
<1> HIDE DEF t
<1>2. k \in 0 .. Len(s) /\ k <= Len(t) /\ k \in 0 .. k /\ k + 1 \in 1 .. Len(t) /\ (k + 1) - 1 = k
  BY <1>1
<1>3. SelectedUpTo(t, S)[k] = SelectedUpTo(s, S)[k]
  BY <1>1, <1>2, SelectedUpToPrefix
<1>4. SelectedUpTo(t, S)[k + 1] =
        IF t[k + 1] \in S THEN Append(SelectedUpTo(t, S)[k], t[k + 1]) ELSE SelectedUpTo(t, S)[k]
  BY <1>1, <1>2, SelectedUpToDef
<1> QED
  BY <1>1, <1>3, <1>4 DEF Selected, t

(* The first element, if it is selected, comes first; the rest of the      *)
(* selection is the selection of the rest.                                 *)
LEMMA SelectedTail ==
  ASSUME NEW X, NEW s \in Seq(X), s # <<>>, NEW S
  PROVE  IF Head(s) \in S
         THEN /\ Selected(s, S) # <<>>
              /\ Head(Selected(s, S)) = Head(s)
              /\ Tail(Selected(s, S)) = Selected(Tail(s), S)
         ELSE Selected(s, S) = Selected(Tail(s), S)
<1> DEFINE t == Tail(s)
           f == SelectedUpTo(s, S)
           g == SelectedUpTo(t, S)
           Follows(whole, rest) ==
             IF s[1] \in S
             THEN whole # <<>> /\ Head(whole) = s[1] /\ Tail(whole) = rest
             ELSE whole = rest
           T == {n \in Nat : n <= Len(t) => f[n + 1] \in Seq(X) /\ Follows(f[n + 1], g[n])}
<1>1. /\ t \in Seq(X) /\ Len(t) \in Nat /\ Len(s) = Len(t) + 1 /\ Len(s) >= 1
      /\ \A i \in 1 .. Len(t) : t[i] = s[i + 1]
      /\ Head(s) = s[1] /\ s[1] \in X
  OBVIOUS
<1> HIDE DEF t
<1>2. /\ f[0] = <<>>
      /\ \A i \in 1 .. Len(s) :
           f[i] = IF s[i] \in S THEN Append(f[i - 1], s[i]) ELSE f[i - 1]
  BY SelectedUpToDef
<1>3. /\ g[0] = <<>>
      /\ \A i \in 1 .. Len(t) :
           g[i] = IF t[i] \in S THEN Append(g[i - 1], t[i]) ELSE g[i - 1]
  BY <1>1, SelectedUpToDef
<1> HIDE DEF f, g
<1>4. 0 \in T
  <2>1. 1 \in 1 .. Len(s) /\ 1 - 1 = 0 /\ 0 + 1 = 1
    BY <1>1
  <2>2. f[1] = IF s[1] \in S THEN Append(f[0], s[1]) ELSE f[0]
    BY <1>2, <2>1
  <2>3. Append(<<>>, s[1]) = <<s[1]>>
    BY <1>1
  <2>4. f[1] \in Seq(X) /\ Follows(f[1], g[0])
    BY <1>1, <1>2, <1>3, <2>2, <2>3, EmptySeq
  <2> HIDE DEF Follows
  <2> QED
    BY <2>1, <2>4
<1>5. ASSUME NEW n \in Nat, n \in T
      PROVE  n + 1 \in T
  <2> SUFFICES ASSUME n + 1 <= Len(t)
               PROVE  f[n + 2] \in Seq(X) /\ Follows(f[n + 2], g[n + 1])
    BY DEF Follows
  <2>1. /\ n + 1 \in 1 .. Len(t) /\ n + 2 \in 1 .. Len(s)
        /\ (n + 1) - 1 = n /\ (n + 2) - 1 = n + 1
    BY <1>1
  <2>2. f[n + 1] \in Seq(X) /\ Follows(f[n + 1], g[n])
    <3> HIDE DEF Follows
    <3> QED
      BY <1>1, <1>5
  <2>3. t[n + 1] = s[n + 2] /\ s[n + 2] \in X
    BY <1>1, <2>1
  <2>4. f[n + 2] = IF s[n + 2] \in S THEN Append(f[n + 1], s[n + 2]) ELSE f[n + 1]
    BY <1>2, <2>1
  <2>5. g[n + 1] = IF s[n + 2] \in S THEN Append(g[n], s[n + 2]) ELSE g[n]
    BY <1>3, <2>1, <2>3
  <2>6. CASE s[n + 2] \notin S
    BY <2>2, <2>4, <2>5, <2>6
  <2>7. CASE s[n + 2] \in S
    <3> DEFINE u == f[n + 1]
               x == s[n + 2]
    <3>1. f[n + 2] = Append(u, x) /\ g[n + 1] = Append(g[n], x) /\ u \in Seq(X) /\ x \in X
      BY <2>2, <2>3, <2>4, <2>5, <2>7
    <3>2. Follows(u, g[n])
      BY <2>2
    <3> HIDE DEF u, x
    <3>3. Append(u, x) \in Seq(X) /\ Append(u, x) # <<>>
      BY <3>1, AppendProperties, Zenon
    <3>4. /\ Head(Append(u, x)) = IF u = <<>> THEN x ELSE Head(u)
          /\ Tail(Append(u, x)) = IF u = <<>> THEN <<>> ELSE Append(Tail(u), x)
      BY <3>1, HeadTailAppend
    <3> QED
      BY <3>1, <3>2, <3>3, <3>4
  <2> QED
    BY <2>6, <2>7
<1>6. \A n \in Nat : n \in T
  <2> HIDE DEF T
  <2> QED
    BY <1>4, <1>5, Induction
<1>7. Follows(f[Len(t) + 1], g[Len(t)])
  <2> HIDE DEF Follows
  <2> QED
    BY <1>1, <1>6
<1> QED
  BY <1>1, <1>7 DEF Selected, f, g, t

-----------------------------------------------------------------------------
(* What is taken from the front of a sequence t and put behind s leaves    *)
(* the two together as they are,                                           *)
LEMMA FrontMovesOver ==
  ASSUME NEW X, NEW s \in Seq(X), NEW t \in Seq(X), t # <<>>
  PROVE  Append(s, Head(t)) \o Tail(t) = s \o t
<1> DEFINE a == Append(s, Head(t))
           b == Tail(t)
<1>1. /\ Len(s) \in Nat /\ Len(t) \in Nat /\ Len(t) > 0
      /\ Head(t) = t[1] /\ a \in Seq(X) /\ Len(a) = Len(s) + 1
      /\ \A i \in 1 .. Len(s) : a[i] = s[i]
      /\ a[Len(s) + 1] = t[1]
  OBVIOUS
<1>2. /\ b \in Seq(X) /\ Len(b) = Len(t) - 1
      /\ \A i \in 1 .. Len(b) : b[i] = t[i + 1]
  BY HeadTailProperties
<1> HIDE DEF a, b
<1>3. /\ a \o b \in Seq(X) /\ Len(a \o b) = Len(a) + Len(b)
      /\ \A i \in 1 .. Len(a) + Len(b) :
           (a \o b)[i] = IF i <= Len(a) THEN a[i] ELSE b[i - Len(a)]
  BY <1>1, <1>2, ConcatProperties
<1>4. /\ s \o t \in Seq(X) /\ Len(s \o t) = Len(s) + Len(t)
      /\ \A i \in 1 .. Len(s) + Len(t) :
           (s \o t)[i] = IF i <= Len(s) THEN s[i] ELSE t[i - Len(s)]
  BY ConcatProperties
<1>5. Len(a \o b) = Len(s \o t) /\ Len(s \o t) = Len(s) + Len(t)
  BY <1>1, <1>2, <1>3, <1>4
<1>6. ASSUME NEW i \in 1 .. Len(s) + Len(t) PROVE (a \o b)[i] = (s \o t)[i]
  <2>1. CASE i <= Len(s)
    BY <1>1, <1>2, <1>3, <1>4, <2>1
  <2>2. CASE i = Len(s) + 1
    <3>1. i <= Len(a) /\ ~(i <= Len(s)) /\ i - Len(s) = 1 /\ i \in 1 .. Len(a) + Len(b)
      BY <1>1, <1>2, <2>2
    <3>2. (a \o b)[i] = a[i]
      BY <1>3, <3>1
    <3>3. (s \o t)[i] = t[1]
      BY <1>4, <3>1
    <3> QED
      BY <1>1, <2>2, <3>2, <3>3
  <2>3. CASE i > Len(s) + 1
    <3>1. /\ ~(i <= Len(a)) /\ ~(i <= Len(s)) /\ i - Len(a) \in 1 .. Len(b)
          /\ (i - Len(a)) + 1 = i - Len(s) /\ i \in 1 .. Len(a) + Len(b)
      BY <1>1, <1>2, <2>3
    <3> QED
      BY <1>2, <1>3, <1>4, <3>1
  <2>4. i <= Len(s) \/ i = Len(s) + 1 \/ i > Len(s) + 1
    BY <1>1
  <2> QED
    BY <2>1, <2>2, <2>3, <2>4, Zenon
<1>7. a \o b = s \o t
  BY <1>3, <1>4, <1>5, <1>6, SeqEqual
<1> QED
  BY <1>7 DEF a, b

(* what is put behind t is put behind both,                                *)
LEMMA AppendBehind ==
  ASSUME NEW X, NEW s \in Seq(X), NEW t \in Seq(X), NEW x \in X
  PROVE  s \o Append(t, x) = Append(s \o t, x)
<1> DEFINE u == Append(t, x)
           c == s \o t
<1>1. /\ Len(s) \in Nat /\ Len(t) \in Nat /\ u \in Seq(X) /\ Len(u) = Len(t) + 1
      /\ \A i \in 1 .. Len(t) : u[i] = t[i]
      /\ u[Len(t) + 1] = x
  OBVIOUS
<1>2. /\ c \in Seq(X) /\ Len(c) = Len(s) + Len(t)
      /\ \A i \in 1 .. Len(s) + Len(t) :
           c[i] = IF i <= Len(s) THEN s[i] ELSE t[i - Len(s)]
  BY ConcatProperties
<1> HIDE DEF u, c
<1>3. /\ s \o u \in Seq(X) /\ Len(s \o u) = Len(s) + Len(u)
      /\ \A i \in 1 .. Len(s) + Len(u) :
           (s \o u)[i] = IF i <= Len(s) THEN s[i] ELSE u[i - Len(s)]
  BY <1>1, ConcatProperties
<1>4. /\ Append(c, x) \in Seq(X) /\ Len(Append(c, x)) = Len(c) + 1
      /\ \A i \in 1 .. Len(c) : Append(c, x)[i] = c[i]
      /\ Append(c, x)[Len(c) + 1] = x
  BY <1>2, AppendProperties
<1>5. ASSUME NEW i \in 1 .. Len(s) + Len(u) PROVE (s \o u)[i] = Append(c, x)[i]
  <2>1. CASE i <= Len(s)
    BY <1>1, <1>2, <1>3, <1>4, <2>1
  <2>2. CASE i = Len(s) + Len(t) + 1
    <3>1. ~(i <= Len(s)) /\ i - Len(s) = Len(t) + 1 /\ i = Len(c) + 1
      BY <1>1, <1>2, <2>2
    <3>2. (s \o u)[i] = u[Len(t) + 1]
      BY <1>3, <3>1
    <3> QED
      BY <1>1, <1>4, <3>1, <3>2
  <2>3. CASE i > Len(s) /\ i < Len(s) + Len(t) + 1
    <3>1. /\ ~(i <= Len(s)) /\ i - Len(s) \in 1 .. Len(t) /\ i \in 1 .. Len(c)
          /\ i \in 1 .. Len(s) + Len(t)
      BY <1>1, <1>2, <2>3
    <3> QED
      BY <1>1, <1>2, <1>3, <1>4, <3>1
  <2>4. \/ i <= Len(s)
        \/ i = Len(s) + Len(t) + 1
        \/ i > Len(s) /\ i < Len(s) + Len(t) + 1
    BY <1>1
  <2> QED
    BY <2>1, <2>2, <2>3, <2>4, Zenon
<1>6. Len(s \o u) = Len(Append(c, x)) /\ Len(s \o u) = Len(s) + Len(u)
  BY <1>1, <1>2, <1>3, <1>4
<1>7. s \o u = Append(c, x)
  BY <1>3, <1>4, <1>5, <1>6, SeqEqual
<1> QED
  BY <1>7 DEF u, c

(* and s together with the first of t is a prefix of both.                 *)
LEMMA NextOfBoth ==
  ASSUME NEW X, NEW s \in Seq(X), NEW t \in Seq(X), t # <<>>
  PROVE  /\ Len(s) < Len(s \o t)
         /\ SubSeq(s \o t, 1, Len(s) + 1) = Append(s, Head(t))
<1> DEFINE c == s \o t
           a == Append(s, Head(t))
           n == Len(s) + 1
<1>1. /\ Len(s) \in Nat /\ Len(t) \in Nat /\ Len(t) > 0
      /\ Head(t) = t[1] /\ a \in Seq(X) /\ Len(a) = n
      /\ \A i \in 1 .. Len(s) : a[i] = s[i]
      /\ a[n] = t[1]
  OBVIOUS
<1>2. /\ c \in Seq(X) /\ Len(c) = Len(s) + Len(t)
      /\ \A i \in 1 .. Len(s) + Len(t) :
           c[i] = IF i <= Len(s) THEN s[i] ELSE t[i - Len(s)]
  BY ConcatProperties
<1> HIDE DEF c, a
<1>3. n <= Len(c) /\ \A i \in 1 .. n : c[i] \in X
  BY <1>1, <1>2, ElementOfSeq
<1>4. /\ SubSeq(c, 1, n) \in Seq(X) /\ Len(SubSeq(c, 1, n)) = n
      /\ \A i \in 1 .. n : SubSeq(c, 1, n)[i] = c[i]
  <2>1. /\ SubSeq(c, 1, n) \in Seq(X)
        /\ Len(SubSeq(c, 1, n)) = IF 1 <= n THEN n - 1 + 1 ELSE 0
        /\ \A i \in 1 .. n - 1 + 1 : SubSeq(c, 1, n)[i] = c[1 + i - 1]
    BY <1>1, <1>3, SubSeqProperties
  <2> QED
    BY <1>1, <2>1
<1>5. ASSUME NEW i \in 1 .. n PROVE SubSeq(c, 1, n)[i] = a[i]
  <2>1. CASE i <= Len(s)
    <3>1. i \in 1 .. Len(s) + Len(t) /\ i \in 1 .. Len(s)
      BY <1>1, <2>1
    <3>2. c[i] = s[i]
      BY <1>2, <2>1, <3>1
    <3> QED
      BY <1>1, <1>4, <3>1, <3>2
  <2>2. CASE i = n
    <3>1. ~(i <= Len(s)) /\ i - Len(s) = 1 /\ i \in 1 .. Len(s) + Len(t)
      BY <1>1, <2>2
    <3>2. c[i] = t[1]
      BY <1>2, <3>1
    <3> QED
      BY <1>1, <1>4, <2>2, <3>2
  <2>3. i \in Int /\ Len(s) \in Int /\ i <= Len(s) + 1
    BY <1>1
  <2> QED
    BY <2>1, <2>2, <2>3
<1>6. SubSeq(c, 1, n) = a
  BY <1>1, <1>4, <1>5, SeqEqual
<1> QED
  BY <1>1, <1>2, <1>3, <1>6 DEF a, c

(* Whatever selects every element is the sequence itself. *)
LEMMA SelectedAll ==
  ASSUME NEW X, NEW s \in Seq(X), NEW S, \A i \in 1 .. Len(s) : s[i] \in S
  PROVE  Len(Selected(s, S)) = Len(s)
<1> DEFINE f == SelectedUpTo(s, S)
           T == {n \in Nat : n <= Len(s) => f[n] \in Seq(X) /\ Len(f[n]) = n}
<1>1. /\ f[0] = <<>>
      /\ \A i \in 1 .. Len(s) :
           f[i] = IF s[i] \in S THEN Append(f[i - 1], s[i]) ELSE f[i - 1]
  BY SelectedUpToDef
<1> HIDE DEF f
<1>2. 0 \in T
  BY <1>1, EmptySeq
<1>3. ASSUME NEW n \in Nat, n \in T
      PROVE  n + 1 \in T
  <2> SUFFICES ASSUME n + 1 <= Len(s)
               PROVE  f[n + 1] \in Seq(X) /\ Len(f[n + 1]) = n + 1
    OBVIOUS
  <2>1. f[n] \in Seq(X) /\ Len(f[n]) = n /\ n + 1 \in 1 .. Len(s) /\ (n + 1) - 1 = n
    BY <1>3
  <2>2. s[n + 1] \in X /\ s[n + 1] \in S
    BY <2>1
  <2>3. f[n + 1] = Append(f[n], s[n + 1])
    BY <1>1, <2>1, <2>2
  <2> QED
    BY <2>1, <2>2, <2>3
<1>4. \A n \in Nat : n \in T
  <2> HIDE DEF T
  <2> QED
    BY <1>2, <1>3, Induction
<1> QED
  BY <1>4 DEF Selected, f

-----------------------------------------------------------------------------
(* f follows the definition of TotalUpTo up to n. *)
AddsUp(f, n, s) == f = [i \in 0 .. n |-> IF i = 0 THEN 0 ELSE f[i - 1] + s[i]]

LEMMA SumExists ==
  ASSUME NEW s
  PROVE  \A n \in Nat : \E f : AddsUp(f, n, s)
<1> DEFINE T == {n \in Nat : \E f : AddsUp(f, n, s)}
<1>1. 0 \in T
  <2> DEFINE f == [i \in 0 .. 0 |-> 0]
  <2>1. AddsUp(f, 0, s)
    BY DEF AddsUp
  <2> QED
    BY <2>1
<1>2. ASSUME NEW n \in Nat, n \in T
      PROVE  n + 1 \in T
  <2>1. PICK f : AddsUp(f, n, s)
    BY <1>2
  <2> DEFINE g == [i \in 0 .. n + 1 |-> IF i = n + 1 THEN f[n] + s[n + 1] ELSE f[i]]
  <2>2. \A i \in 0 .. n : f[i] = IF i = 0 THEN 0 ELSE f[i - 1] + s[i]
    BY <2>1 DEF AddsUp
  <2>3. \A i \in 0 .. n + 1 : g[i] = IF i = 0 THEN 0 ELSE g[i - 1] + s[i]
    <3> SUFFICES ASSUME NEW i \in 0 .. n + 1
                 PROVE  g[i] = IF i = 0 THEN 0 ELSE g[i - 1] + s[i]
      OBVIOUS
    <3>1. CASE i = n + 1
      BY <3>1
    <3>2. CASE i \in 0 .. n
      <4>1. g[i] = f[i] /\ (i # 0 => g[i - 1] = f[i - 1])
        BY <3>2
      <4> QED
        BY <2>2, <3>2, <4>1
    <3> QED
      BY <3>1, <3>2
  <2>4. AddsUp(g, n + 1, s)
    BY <2>3 DEF AddsUp
  <2> QED
    BY <2>4
<1>3. \A n \in Nat : n \in T
  <2> HIDE DEF T
  <2> QED
    BY <1>1, <1>2, Induction
<1> QED
  BY <1>3

LEMMA TotalUpToDef ==
  ASSUME NEW X, NEW s \in Seq(X)
  PROVE  LET f == TotalUpTo(s)
         IN  f[0] = 0 /\ \A i \in 1 .. Len(s) : f[i] = f[i - 1] + s[i]
<1> DEFINE f == TotalUpTo(s)
<1>1. Len(s) \in Nat
  OBVIOUS
<1>2. \E g : AddsUp(g, Len(s), s)
  BY <1>1, SumExists
<1>3. f = CHOOSE g : AddsUp(g, Len(s), s)
  BY DEF TotalUpTo, AddsUp
<1>4. AddsUp(f, Len(s), s)
  BY <1>2, <1>3
<1>5. \A i \in 0 .. Len(s) : f[i] = IF i = 0 THEN 0 ELSE f[i - 1] + s[i]
  BY <1>4 DEF AddsUp
<1> QED
  BY <1>1, <1>5

LEMMA TotalEmpty == Total(<<>>) = 0
<1>1. <<>> \in Seq({}) /\ Len(<<>>) = 0
  OBVIOUS
<1>2. TotalUpTo(<<>>)[0] = 0
  BY <1>1, TotalUpToDef
<1> QED
  BY <1>1, <1>2 DEF Total

LEMMA TotalAppend ==
  ASSUME NEW s \in Seq(Int), NEW x \in Int
  PROVE  /\ Total(s) \in Int
         /\ Total(Append(s, x)) = Total(s) + x
<1> DEFINE t == Append(s, x)
           k == Len(s)
           f == TotalUpTo(s)
           g == TotalUpTo(t)
           T == {n \in Nat : n <= k => g[n] = f[n] /\ f[n] \in Int}
<1>1. /\ t \in Seq(Int) /\ Len(t) = k + 1 /\ k \in Nat /\ t[k + 1] = x
      /\ \A i \in 1 .. k : t[i] = s[i] /\ s[i] \in Int
  OBVIOUS
<1> HIDE DEF t
<1>2. f[0] = 0 /\ \A i \in 1 .. Len(s) : f[i] = f[i - 1] + s[i]
  BY TotalUpToDef
<1>3. g[0] = 0 /\ \A i \in 1 .. Len(t) : g[i] = g[i - 1] + t[i]
  BY <1>1, TotalUpToDef
<1> HIDE DEF f, g, k
<1>4. 0 \in T
  BY <1>2, <1>3
<1>5. ASSUME NEW n \in Nat, n \in T
      PROVE  n + 1 \in T
  <2> SUFFICES ASSUME n + 1 <= k PROVE g[n + 1] = f[n + 1] /\ f[n + 1] \in Int
    OBVIOUS
  <2>1. /\ g[n] = f[n] /\ f[n] \in Int
        /\ n + 1 \in 1 .. k /\ n + 1 \in 1 .. Len(t) /\ n + 1 \in 1 .. Len(s) /\ (n + 1) - 1 = n
    BY <1>1, <1>5 DEF k
  <2>2. t[n + 1] = s[n + 1] /\ s[n + 1] \in Int
    BY <1>1, <2>1
  <2>3. f[n + 1] = f[n] + s[n + 1]
    BY <1>2, <2>1
  <2>4. g[n + 1] = g[n] + t[n + 1]
    BY <1>3, <2>1
  <2> QED
    BY <2>1, <2>2, <2>3, <2>4
<1>6. \A n \in Nat : n \in T
  <2> HIDE DEF T
  <2> QED
    BY <1>4, <1>5, Induction
<1>7. g[k] = f[k] /\ f[k] \in Int
  BY <1>1, <1>6
<1>8. g[k + 1] = g[k] + x
  <2>1. k + 1 \in 1 .. Len(t) /\ (k + 1) - 1 = k
    BY <1>1
  <2>2. g[k + 1] = g[k] + t[k + 1]
    BY <1>3, <2>1
  <2> QED
    BY <1>1, <2>2
<1> QED
  BY <1>1, <1>7, <1>8 DEF Total, f, g, k, t

=============================================================================
