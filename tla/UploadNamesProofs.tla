-------------------------- MODULE UploadNamesProofs --------------------------
(***************************************************************************)
(* What the operators of Migrations and Uploads on names and lists of      *)
(* files compute, for names of any length and for any finite directory.    *)
(*                                                                         *)
(* Induction is induction over a set of numbers (Induction): the set of    *)
(* the lengths for which the claim holds.  Every recursive function of the *)
(* model is an iteration of a step, which exists and is unique (Iterated). *)
(***************************************************************************)
EXTENDS Uploads, Integers, TLAPS, FiniteSetTheorems, NaturalsInduction, SequenceTheorems

-----------------------------------------------------------------------------
(* Induction and iteration *)

(* A set of numbers that is not empty has a least one. *)
LEMMA Least ==
    ASSUME NEW T \in SUBSET Nat, T # {}
    PROVE  \E x \in T : \A y \in T : x <= y
<1>1. IsWellFoundedOn(OpToRel(<, Nat), Nat)
    BY NatLessThanWellFounded
<1>2. PICK x \in T : \A y \in T : ~(<<y, x>> \in OpToRel(<, Nat))
    BY <1>1, WFMin
<1>3. \A y \in T : ~(y < x)
    BY <1>2 DEF OpToRel
<1> QED
    BY <1>3

LEMMA Induction ==
    ASSUME NEW P, 0 \in P, \A n \in Nat : n \in P => n + 1 \in P
    PROVE  Nat \subseteq P
<1> DEFINE T == {n \in Nat : n \notin P}
<1> SUFFICES ASSUME T # {} PROVE FALSE
    OBVIOUS
<1>1. PICK x \in T : \A y \in T : x <= y
    BY Least
<1>2. x # 0 /\ x - 1 \in Nat /\ x - 1 \in P
    BY <1>1
<1> QED
    BY <1>2

(* The same below a bound. *)
LEMMA Climb ==
    ASSUME NEW n \in Nat, NEW P, 0 \in P, \A i \in 1..n : i - 1 \in P => i \in P
    PROVE  \A i \in 0..n : i \in P
<1> DEFINE Q == {m \in Nat : m <= n => m \in P}
<1>1. 0 \in Q
    OBVIOUS
<1>2. \A m \in Nat : m \in Q => m + 1 \in Q
    OBVIOUS
<1>3. Nat \subseteq Q
  <2> HIDE DEF Q
  <2> QED
      BY <1>1, <1>2, Induction
<1> QED
    BY <1>3

(* A step taken again and again gives a function on 0..n. *)
Iteration(g, X, a, n, step) ==
    g \in [0..n -> X] /\ g[0] = a /\ \A i \in 1..n : g[i] = step[i][g[i - 1]]

LEMMA Iterated ==
    ASSUME NEW X, NEW a \in X, NEW n \in Nat, NEW step \in [1..n -> [X -> X]]
    PROVE  \E g : Iteration(g, X, a, n, step)
<1> DEFINE P == {m \in Nat : m <= n => \E g : Iteration(g, X, a, m, step)}
<1>1. 0 \in P
  <2> DEFINE g == [i \in 0..0 |-> a]
  <2>1. Iteration(g, X, a, 0, step)
      BY DEF Iteration
  <2> QED
      BY <2>1
<1>2. ASSUME NEW m \in Nat, m \in P PROVE m + 1 \in P
  <2> SUFFICES ASSUME m + 1 <= n PROVE \E h : Iteration(h, X, a, m + 1, step)
      OBVIOUS
  <2>1. PICK g : Iteration(g, X, a, m, step)
      BY <1>2
  <2>2. g \in [0..m -> X] /\ g[0] = a /\ \A i \in 1..m : g[i] = step[i][g[i - 1]]
      BY <2>1 DEF Iteration
  <2> DEFINE h == [i \in 0..(m + 1) |-> IF i = m + 1 THEN step[i][g[m]] ELSE g[i]]
  <2>3. step[m + 1][g[m]] \in X
      BY <2>2
  <2>4. h \in [0..(m + 1) -> X] /\ h[0] = a
      BY <2>2, <2>3
  <2>5. ASSUME NEW i \in 1..(m + 1) PROVE h[i] = step[i][h[i - 1]]
    <3>1. CASE i = m + 1
        BY <3>1
    <3>2. CASE i # m + 1
      <4>1. i \in 1..m /\ h[i] = g[i] /\ h[i - 1] = g[i - 1]
          BY <3>2
      <4> QED
          BY <2>2, <4>1
    <3> QED
        BY <3>1, <3>2
  <2> HIDE DEF h
  <2>6. Iteration(h, X, a, m + 1, step)
      BY <2>4, <2>5 DEF Iteration
  <2> QED
      BY <2>6
<1> HIDE DEF P
<1>3. n \in P
    BY <1>1, <1>2, Induction
<1> QED
    BY <1>3 DEF P

(* Induction over sequences that grow at the end. *)
LEMMA SeqInduction ==
    ASSUME NEW X, NEW P, <<>> \in P,
           \A s \in Seq(X), e \in X : s \in P => Append(s, e) \in P
    PROVE  Seq(X) \subseteq P
<1> DEFINE Q == {n \in Nat : \A s \in Seq(X) : Len(s) = n => s \in P}
<1>1. 0 \in Q
    BY EmptySeq
<1>2. ASSUME NEW n \in Nat, n \in Q PROVE n + 1 \in Q
  <2> SUFFICES ASSUME NEW s \in Seq(X), Len(s) = n + 1 PROVE s \in P
      OBVIOUS
  <2>1. s # <<>>
      OBVIOUS
  <2>2. PICK t \in Seq(X), e \in X : s = Append(t, e)
      BY <2>1, SequenceEmptyOrAppend
  <2>3. Len(s) = Len(t) + 1 /\ Len(t) \in Nat
      BY <2>2, AppendProperties, LenProperties
  <2>4. Len(t) = n
      BY <2>3
  <2> QED
      BY <1>2, <2>2, <2>4
<1> HIDE DEF Q
<1>3. Nat \subseteq Q
    BY <1>1, <1>2, Induction
<1> QED
    BY <1>3, LenProperties DEF Q

-----------------------------------------------------------------------------
(* FlattenSeq *)

LEMMA NameConcat ==
    /\ <<>> \in Name
    /\ \A a, b \in Name : a \o b \in Name /\ a \o <<>> = a /\ <<>> \o a = a
    BY DEF Name

LEMMA NameAssociative ==
    ASSUME NEW a \in Name, NEW b \in Name, NEW c \in Name
    PROVE  (a \o b) \o c = a \o (b \o c)
    BY ConcatAssociative, SMTT(30) DEF Name

LEMMA FlattenUnfold ==
    ASSUME NEW s \in Seq(Name), s # <<>>
    PROVE  \E g \in [1..Len(s) -> Name] :
              /\ g[1] = s[1]
              /\ \A i \in 2..Len(s) : g[i] = g[i - 1] \o s[i]
              /\ FlattenSeq(s) = g[Len(s)]
<1> DEFINE n == Len(s)
           f(g, i) == IF i = 1 THEN s[i] ELSE g[i - 1] \o s[i]
           F == CHOOSE g : g = [i \in 1..n |-> f(g, i)]
           step == [i \in 1..n |-> [x \in Name |-> IF i = 1 THEN s[1] ELSE x \o s[i]]]
<1>1. n \in Nat /\ n # 0 /\ \A i \in 1..n : s[i] \in Name
    OBVIOUS
<1>2. FlattenSeq(s) = F[n]
    BY <1>1 DEF FlattenSeq
<1> HIDE DEF n
<1>3. <<>> \in Name /\ step \in [1..n -> [Name -> Name]]
    BY <1>1, NameConcat
<1>4. \E h : Iteration(h, Name, <<>>, n, step)
  <2> HIDE DEF step
  <2> QED
      BY <1>1, <1>3, Iterated
<1>b. PICK h \in [0..n -> Name] : \A i \in 1..n : h[i] = step[i][h[i - 1]]
    BY <1>4 DEF Iteration
<1>5. ASSUME NEW i \in 1..n
      PROVE  h[i] = IF i = 1 THEN s[1] ELSE h[i - 1] \o s[i]
  <2>1. h[i - 1] \in Name
      BY <1>1
  <2>2. step[i][h[i - 1]] = IF i = 1 THEN s[1] ELSE h[i - 1] \o s[i]
      BY <2>1
  <2> QED
      BY <1>b, <2>2
<1> DEFINE g == [i \in 1..n |-> h[i]]
<1>6. g = [i \in 1..n |-> f(g, i)]
    BY <1>1, <1>5
<1>7. F = [i \in 1..n |-> f(F, i)]
  <2> HIDE DEF g, f
  <2> QED
      BY <1>6
<1> HIDE DEF F, g, step
<1>8. ASSUME NEW i \in 1..n PROVE F[i] = h[i]
  <2> DEFINE P == {j \in Nat : j # 0 => F[j] = h[j]}
  <2>1. 0 \in P
      OBVIOUS
  <2>2. ASSUME NEW j \in 1..n, j - 1 \in P PROVE j \in P
    <3>1. F[j] = f(F, j) /\ h[j] = IF j = 1 THEN s[j] ELSE h[j - 1] \o s[j]
        BY <1>5, <1>7
    <3> QED
        BY <1>1, <2>2, <3>1
  <2> HIDE DEF P
  <2>3. \A j \in 1..n : j - 1 \in P => j \in P
      BY <2>2
  <2>4. \A j \in 0..n : j \in P
      BY <1>1, <2>1, <2>3, Climb
  <2> QED
      BY <1>1, <2>4 DEF P
<1>9. F \in [1..n -> Name]
    BY <1>1, <1>7, <1>8
<1>a. F[1] = s[1] /\ \A i \in 2..n : F[i] = F[i - 1] \o s[i]
  <2>1. 1 \in 1..n /\ \A i \in 2..n : i \in 1..n /\ i # 1
      BY <1>1
  <2> QED
      BY <1>7, <2>1
<1> QED
    BY <1>2, <1>9, <1>a DEF n

LEMMA FlattenEmpty == FlattenSeq(<<>>) = <<>>
    BY DEF FlattenSeq

(* FlattenSeq(Append(s, e)) is FlattenSeq(s) with e behind it. *)
LEMMA FlattenAppend ==
    ASSUME NEW s \in Seq(Name), NEW e \in Name
    PROVE  FlattenSeq(s) \in Name /\ FlattenSeq(Append(s, e)) = FlattenSeq(s) \o e
<1> DEFINE t == Append(s, e)
           n == Len(s)
<1>1. /\ t \in Seq(Name) /\ t # <<>> /\ Len(t) = n + 1 /\ n \in Nat
      /\ t[n + 1] = e /\ \A i \in 1..n : t[i] = s[i]
    BY AppendProperties, LenProperties
<1> HIDE DEF t
<1>2. PICK h \in [1..Len(t) -> Name] :
              /\ h[1] = t[1]
              /\ \A i \in 2..Len(t) : h[i] = h[i - 1] \o t[i]
              /\ FlattenSeq(t) = h[Len(t)]
    BY <1>1, FlattenUnfold
<1>3. CASE s = <<>>
  <2>1. n = 0 /\ FlattenSeq(t) = e
      BY <1>1, <1>2, <1>3
  <2> QED
      BY <1>3, <2>1, FlattenEmpty, NameConcat DEF t
<1>4. CASE s # <<>>
  <2>1. PICK g \in [1..n -> Name] :
              /\ g[1] = s[1]
              /\ \A i \in 2..n : g[i] = g[i - 1] \o s[i]
              /\ FlattenSeq(s) = g[n]
      BY <1>4, FlattenUnfold
  <2>2. n # 0 /\ n >= 1
      BY <1>4
  <2> HIDE DEF n
  <2> DEFINE P == {i \in Nat : i # 0 => g[i] = h[i]}
  <2>3. 0 \in P
      OBVIOUS
  <2>4. ASSUME NEW i \in 1..n, i - 1 \in P PROVE i \in P
    <3>1. CASE i = 1
        BY <1>1, <1>2, <2>1, <2>2, <3>1
    <3>2. CASE i # 1
      <4>1. i \in 2..n /\ i \in 2..Len(t) /\ g[i - 1] = h[i - 1]
          BY <1>1, <2>4, <3>2
      <4>2. g[i] = g[i - 1] \o s[i] /\ h[i] = h[i - 1] \o t[i] /\ s[i] = t[i]
          BY <1>1, <1>2, <2>1, <4>1
      <4>3. i \in Nat
          OBVIOUS
      <4> QED
          BY <4>1, <4>2, <4>3
    <3> QED
        BY <3>1, <3>2
  <2>5. n \in P
    <3> HIDE DEF P
    <3>1. \A i \in 1..n : i - 1 \in P => i \in P
        BY <2>4
    <3>2. \A i \in 0..n : i \in P
        BY <1>1, <2>3, <3>1, Climb
    <3> QED
        BY <1>1, <3>2
  <2>6. g[n] = h[n]
      BY <2>2, <2>5
  <2>7. n + 1 \in 2..Len(t) /\ (n + 1) - 1 = n
      BY <1>1, <2>2
  <2>8. h[n + 1] = h[n] \o e
      BY <1>1, <1>2, <2>7
  <2> QED
      BY <1>1, <1>2, <2>1, <2>2, <2>6, <2>8 DEF t
<1> QED
    BY <1>3, <1>4
-----------------------------------------------------------------------------
(* PathEscape and PathUnescape *)

LEMMA NameAppend ==
    ASSUME NEW n \in Name, NEW t \in Nat
    PROVE  /\ Append(n, t) \in Name /\ Append(n, t) = n \o <<t>>
           /\ Len(n) \in Nat /\ Len(Append(n, t)) = Len(n) + 1
           /\ DOMAIN n = 1..Len(n) /\ DOMAIN Append(n, t) = 1..(Len(n) + 1)
           /\ Append(n, t)[Len(n) + 1] = t
           /\ \A i \in 1..Len(n) : n[i] \in Nat /\ Append(n, t)[i] = n[i]
    BY AppendProperties, LenProperties DEF Name

(* A list of names given by position, and one position more. *)
LEMMA ListAppend ==
    ASSUME NEW m \in Nat, NEW f, NEW g, NEW e \in Name,
           f = [i \in 1..m |-> f[i]], \A i \in 1..m : f[i] \in Name,
           g = [i \in 1..(m + 1) |-> IF i = m + 1 THEN e ELSE f[i]]
    PROVE  f \in Seq(Name) /\ g = Append(f, e)
<1>1. f \in Seq(Name) /\ Len(f) = m
    OBVIOUS
<1>2. /\ Append(f, e) \in Seq(Name) /\ Len(Append(f, e)) = m + 1
      /\ Append(f, e)[m + 1] = e /\ \A i \in 1..m : Append(f, e)[i] = f[i]
    BY <1>1, AppendProperties
<1>3. Append(f, e) = [i \in 1..(m + 1) |-> Append(f, e)[i]]
    BY <1>2, LenProperties
<1> DEFINE h == Append(f, e)
<1>4. h[m + 1] = e /\ \A i \in 1..m : h[i] = f[i]
    BY <1>2
<1> HIDE DEF h
<1>5. \A i \in 1..(m + 1) : h[i] = g[i]
  <2>1. \A i \in 1..(m + 1) : i = m + 1 \/ (i \in 1..m /\ i # m + 1)
      OBVIOUS
  <2> QED
      BY <1>4, <2>1
<1> QED
    BY <1>1, <1>3, <1>5 DEF h

LEMMA EscapeType ==
    ASSUME NEW t \in Nat
    PROVE  escape(t) \in Name
    BY DEF escape, Name, Percent, Slash, Hex2F, Hex25

LEMMA EscapeAppend ==
    ASSUME NEW n \in Name, NEW t \in Nat
    PROVE  /\ PathEscape(n) \in Name
           /\ PathEscape(Append(n, t)) = PathEscape(n) \o escape(t)
<1> DEFINE f == [i \in 1..Len(n) |-> escape(n[i])]
           g == [i \in 1..(Len(n) + 1) |-> escape(Append(n, t)[i])]
<1>1. f = [i \in 1..Len(n) |-> f[i]] /\ \A i \in 1..Len(n) : f[i] \in Name
    BY NameAppend, EscapeType
<1>2. g = [i \in 1..(Len(n) + 1) |-> IF i = Len(n) + 1 THEN escape(t) ELSE f[i]]
  <2>1. ASSUME NEW i \in 1..(Len(n) + 1)
        PROVE  g[i] = IF i = Len(n) + 1 THEN escape(t) ELSE f[i]
      BY NameAppend
  <2> QED
      BY <2>1
<1>3. PathEscape(n) = FlattenSeq(f) /\ PathEscape(Append(n, t)) = FlattenSeq(g)
    BY NameAppend DEF PathEscape
<1>4. f \in Seq(Name) /\ g = Append(f, escape(t))
  <2> HIDE DEF f, g
  <2> QED
      BY <1>1, <1>2, NameAppend, EscapeType, ListAppend
<1> HIDE DEF f, g
<1> QED
    BY <1>3, <1>4, EscapeType, FlattenAppend

LEMMA UnescapeType ==
    ASSUME NEW n \in Name, NEW i \in 1..Len(n)
    PROVE  unescape(n, i) \in Name
<1>1. n[i] \in Nat /\ decoded(n[i + 1]) \in Nat
    BY DEF Name, decoded, Slash, Dot, Percent
<1> QED
    BY <1>1 DEF unescape, Name

(* What follows a valid encoding does not change how it is decoded. *)
LEMMA UnescapeExtend ==
    ASSUME NEW n \in Name, Encoded(n), NEW t \in Nat, t # Percent
    PROVE  /\ Encoded(Append(n, t))
           /\ PathUnescape(n) \in Name
           /\ PathUnescape(Append(n, t)) = Append(PathUnescape(n), t)
<1> DEFINE m == Append(n, t)
           f == [i \in 1..Len(n) |-> unescape(n, i)]
           g == [i \in 1..(Len(n) + 1) |-> unescape(m, i)]
<1>1. /\ m \in Name /\ Len(n) \in Nat /\ Len(m) = Len(n) + 1 /\ m[Len(n) + 1] = t
      /\ DOMAIN n = 1..Len(n) /\ DOMAIN m = 1..(Len(n) + 1)
      /\ \A i \in 1..Len(n) : m[i] = n[i]
    BY NameAppend
<1> HIDE DEF m
<1>2. \A i \in 1..Len(n) : n[i] = Percent => i < Len(n) /\ n[i + 1] \in Codes
    BY <1>1 DEF Encoded
<1>3. Encoded(m)
    BY <1>1, <1>2 DEF Encoded
<1>4. ASSUME NEW i \in 1..Len(n) PROVE unescape(m, i) = unescape(n, i)
  <2>1. m[i] = n[i] /\ (i > 1 => m[i - 1] = n[i - 1]) /\ (n[i] = Percent => m[i + 1] = n[i + 1])
      BY <1>1, <1>2
  <2> QED
      BY <2>1 DEF unescape
<1>5. unescape(m, Len(n) + 1) = <<t>>
  <2>1. m[Len(n) + 1] = t /\ (Len(n) + 1 > 1 => m[(Len(n) + 1) - 1] # Percent)
      BY <1>1, <1>2
  <2> QED
      BY <2>1 DEF unescape
<1>6. f = [i \in 1..Len(n) |-> f[i]] /\ \A i \in 1..Len(n) : f[i] \in Name
    BY UnescapeType
<1>7. g = [i \in 1..(Len(n) + 1) |-> IF i = Len(n) + 1 THEN <<t>> ELSE f[i]]
  <2>1. ASSUME NEW i \in 1..(Len(n) + 1)
        PROVE  g[i] = IF i = Len(n) + 1 THEN <<t>> ELSE f[i]
      BY <1>1, <1>4, <1>5
  <2> QED
      BY <2>1
<1>8. PathUnescape(n) = FlattenSeq(f) /\ PathUnescape(m) = FlattenSeq(g)
    BY <1>1, <1>3 DEF PathUnescape
<1>9. <<t>> \in Name
    BY DEF Name
<1>a. f \in Seq(Name) /\ g = Append(f, <<t>>)
  <2> HIDE DEF f, g
  <2> QED
      BY <1>1, <1>6, <1>7, <1>9, ListAppend
<1> HIDE DEF f, g
<1>b. PathUnescape(n) \in Name /\ PathUnescape(m) = PathUnescape(n) \o <<t>>
    BY <1>8, <1>9, <1>a, FlattenAppend
<1> QED
    BY <1>3, <1>b, NameAppend DEF m

LEMMA UnescapeExtendCode ==
    ASSUME NEW n \in Name, Encoded(n), NEW h \in Codes
    PROVE  /\ Encoded(Append(Append(n, Percent), h))
           /\ PathUnescape(n) \in Name
           /\ PathUnescape(Append(Append(n, Percent), h))
                = Append(PathUnescape(n), decoded(h))
<1> DEFINE l == Append(n, Percent)
           m == Append(l, h)
           t == decoded(h)
           e == [i \in 1..Len(n) |-> unescape(n, i)]
           f == [i \in 1..(Len(n) + 1) |-> IF i = Len(n) + 1 THEN <<t>> ELSE e[i]]
           g == [i \in 1..((Len(n) + 1) + 1) |-> unescape(m, i)]
<1>0. h \in Nat /\ Percent \in Nat /\ t \in Nat /\ h # Percent
    BY DEF Codes, decoded, Hex25, Hex2E, Hex2F, Percent, Dot, Slash
<1>1. /\ l \in Name /\ Len(n) \in Nat /\ Len(l) = Len(n) + 1 /\ l[Len(n) + 1] = Percent
      /\ DOMAIN n = 1..Len(n) /\ \A i \in 1..Len(n) : l[i] = n[i]
    BY <1>0, NameAppend, ZenonT(30)
<1>2. /\ m \in Name /\ Len(m) = Len(n) + 2 /\ m[Len(n) + 2] = h /\ DOMAIN m = 1..(Len(n) + 2)
      /\ m[Len(n) + 1] = Percent /\ \A i \in 1..Len(n) : m[i] = n[i]
  <2> HIDE DEF l
  <2>1. /\ m \in Name /\ Len(m) = Len(l) + 1 /\ m[Len(l) + 1] = h /\ DOMAIN m = 1..(Len(l) + 1)
        /\ \A i \in 1..Len(l) : m[i] = l[i]
      BY <1>0, <1>1, NameAppend
  <2> HIDE DEF m
  <2> QED
      BY <1>1, <2>1
<1> HIDE DEF l, m
<1>3. \A i \in 1..Len(n) : n[i] = Percent => i < Len(n) /\ n[i + 1] \in Codes
    BY <1>1 DEF Encoded
<1>4. Encoded(m)
    BY <1>0, <1>1, <1>2, <1>3 DEF Encoded
<1>5. ASSUME NEW i \in 1..Len(n) PROVE unescape(m, i) = unescape(n, i)
  <2>1. m[i] = n[i] /\ (i > 1 => m[i - 1] = n[i - 1]) /\ (n[i] = Percent => m[i + 1] = n[i + 1])
      BY <1>1, <1>2, <1>3
  <2> QED
      BY <2>1 DEF unescape
<1>6. unescape(m, Len(n) + 1) = <<t>>
  <2>1. /\ m[Len(n) + 1] = Percent /\ m[(Len(n) + 1) + 1] = h
        /\ ~(Len(n) + 1 > 1 /\ m[(Len(n) + 1) - 1] = Percent)
      BY <1>1, <1>2, <1>3
  <2> QED
      BY <2>1 DEF unescape
<1>7. unescape(m, (Len(n) + 1) + 1) = <<>>
  <2>1. /\ m[(Len(n) + 1) + 1] = h /\ (Len(n) + 1) + 1 > 1
        /\ m[((Len(n) + 1) + 1) - 1] = Percent
      BY <1>1, <1>2
  <2> QED
      BY <1>0, <2>1 DEF unescape
<1>8. e = [i \in 1..Len(n) |-> e[i]] /\ \A i \in 1..Len(n) : e[i] \in Name
    BY UnescapeType
<1>9. <<>> \in Name /\ <<t>> \in Name
    BY <1>0 DEF Name
<1>a. g = [i \in 1..((Len(n) + 1) + 1) |-> IF i = (Len(n) + 1) + 1 THEN <<>> ELSE f[i]]
  <2>1. ASSUME NEW i \in 1..((Len(n) + 1) + 1)
        PROVE  unescape(m, i) = IF i = (Len(n) + 1) + 1 THEN <<>> ELSE f[i]
    <3>1. CASE i \in 1..Len(n)
        BY <1>1, <1>5, <3>1
    <3>2. CASE i = Len(n) + 1
        BY <1>1, <1>6, <3>2
    <3>3. CASE i = (Len(n) + 1) + 1
        BY <1>7, <3>3
    <3> QED
        BY <1>1, <3>1, <3>2, <3>3
  <2> QED
      BY <2>1
<1>b. PathUnescape(n) = FlattenSeq(e) /\ PathUnescape(m) = FlattenSeq(g)
    BY <1>1, <1>2, <1>4 DEF PathUnescape
<1>c. e \in Seq(Name) /\ f = Append(e, <<t>>)
  <2>1. f = [i \in 1..(Len(n) + 1) |-> IF i = Len(n) + 1 THEN <<t>> ELSE e[i]]
      OBVIOUS
  <2> HIDE DEF e, f, t
  <2> QED
      BY <1>1, <1>8, <1>9, <2>1, ListAppend
<1>d. f = [i \in 1..(Len(n) + 1) |-> f[i]] /\ \A i \in 1..(Len(n) + 1) : f[i] \in Name
    BY <1>8, <1>9
<1>e. f \in Seq(Name) /\ g = Append(f, <<>>)
  <2>1. Len(n) + 1 \in Nat
      BY <1>1
  <2> HIDE DEF f, g
  <2> QED
      BY <1>9, <1>a, <1>d, <2>1, ListAppend
<1> HIDE DEF e, f, g, t
<1>f. PathUnescape(n) \in Name /\ FlattenSeq(f) = PathUnescape(n) \o <<t>>
    BY <1>9, <1>b, <1>c, FlattenAppend
<1>g. FlattenSeq(f) \in Name /\ FlattenSeq(g) = FlattenSeq(f) \o <<>>
    BY <1>9, <1>e, FlattenAppend
<1>h. PathUnescape(m) = PathUnescape(n) \o <<t>>
    BY <1>b, <1>f, <1>g, NameConcat
<1>i. PathUnescape(m) = Append(PathUnescape(n), t)
    BY <1>0, <1>f, <1>h, NameAppend
<1> QED
    BY <1>4, <1>f, <1>i DEF l, m, t

(* A name of any length that was escaped has no separator, so multipart    *)
(* parsing keeps it, and unescaping gives it back, also when it holds the  *)
(* escape character itself (addFileToWriter of the Go client, uploadPath   *)
(* of apiserver/server.go).                                                *)
THEOREM EscapeRoundTrip ==
    ASSUME NEW n \in Name
    PROVE  /\ PathEscape(n) \in Name /\ Encoded(PathEscape(n))
           /\ PathUnescape(PathEscape(n)) = n
           /\ \A i \in 1..Len(PathEscape(n)) : PathEscape(n)[i] # Slash
           /\ n # <<>> => PathEscape(n) # <<>>
<1> DEFINE Good(m) == /\ PathEscape(m) \in Name /\ Encoded(PathEscape(m))
                      /\ PathUnescape(PathEscape(m)) = m
                      /\ \A i \in 1..Len(PathEscape(m)) : PathEscape(m)[i] # Slash
                      /\ m # <<>> => PathEscape(m) # <<>>
           P == {m \in Name : Good(m)}
<1>1. <<>> \in P
  <2>1. PathEscape(<<>>) = <<>>
    <3>1. [i \in DOMAIN <<>> |-> escape(<<>>[i])] = <<>>
        OBVIOUS
    <3> QED
        BY <3>1, FlattenEmpty DEF PathEscape
  <2>2. Encoded(<<>>)
      BY DEF Encoded
  <2>3. PathUnescape(<<>>) = <<>>
    <3>1. [i \in DOMAIN <<>> |-> unescape(<<>>, i)] = <<>>
        OBVIOUS
    <3> QED
        BY <2>2, <3>1, FlattenEmpty DEF PathUnescape
  <2>4. <<>> \in Name /\ Len(<<>>) = 0
      BY NameConcat
  <2> QED
      BY <2>1, <2>2, <2>3, <2>4
<1>2. ASSUME NEW m \in Seq(Nat), NEW t \in Nat, m \in P PROVE Append(m, t) \in P
  <2> DEFINE e == PathEscape(m)
             d == PathEscape(Append(m, t))
  <2>1. m \in Name /\ Append(m, t) \in Name
      BY <1>2, NameAppend
  <2>2. e \in Name /\ Encoded(e) /\ PathUnescape(e) = m /\ \A i \in 1..Len(e) : e[i] # Slash
      BY <1>2
  <2>3. d = e \o escape(t)
      BY <2>1, EscapeAppend
  <2> HIDE DEF e, d
  <2>4. CASE t \notin {Slash, Percent}
    <3>1. escape(t) = <<t>>
        BY <2>4 DEF escape
    <3>a. d = Append(e, t)
        BY <2>2, <2>3, <3>1, NameAppend
    <3>2. /\ d \in Name /\ Len(e) \in Nat /\ Len(d) = Len(e) + 1
          /\ d[Len(e) + 1] = t /\ \A i \in 1..Len(e) : d[i] = e[i]
        BY <2>2, <3>a, NameAppend
    <3>3. Encoded(d) /\ PathUnescape(d) = Append(m, t)
        BY <2>2, <2>4, <3>a, UnescapeExtend
    <3>4. \A i \in 1..Len(d) : d[i] # Slash
        BY <2>2, <2>4, <3>2
    <3>5. d # <<>>
        BY <3>2
    <3> QED
        BY <2>1, <3>2, <3>3, <3>4, <3>5 DEF d
  <2>5. CASE t \in {Slash, Percent}
    <3> DEFINE h == IF t = Slash THEN Hex2F ELSE Hex25
               l == Append(e, Percent)
    <3>1. escape(t) = <<Percent, h>> /\ h \in Codes /\ h \in Nat /\ Percent \in Nat
          /\ Percent # Slash /\ h # Slash /\ t = decoded(h)
        BY <2>5 DEF escape, Codes, decoded, Hex25, Hex2E, Hex2F, Percent, Slash
    <3> HIDE DEF h
    <3>2. /\ l \in Name /\ l = e \o <<Percent>> /\ Len(l) = Len(e) + 1 /\ Len(e) \in Nat
          /\ l[Len(e) + 1] = Percent /\ \A i \in 1..Len(e) : l[i] = e[i]
        BY <2>2, <3>1, NameAppend
    <3> HIDE DEF l
    <3>3. /\ Append(l, h) \in Name /\ Append(l, h) = l \o <<h>> /\ Len(Append(l, h)) = Len(l) + 1
          /\ Append(l, h)[Len(l) + 1] = h /\ \A i \in 1..Len(l) : Append(l, h)[i] = l[i]
      <4>1. l \in Name /\ h \in Nat
          BY <3>1, <3>2
      <4> QED
          BY <4>1, NameAppend
    <3>4. d = Append(l, h)
      <4>1. <<Percent>> \in Name /\ <<h>> \in Name /\ <<Percent, h>> = <<Percent>> \o <<h>>
          BY <3>1 DEF Name
      <4>2. (e \o <<Percent>>) \o <<h>> = e \o (<<Percent>> \o <<h>>)
          BY <2>2, <4>1, NameAssociative
      <4>3. d = e \o (<<Percent>> \o <<h>>)
          BY <2>3, <3>1, <4>1
      <4>4. Append(l, h) = (e \o <<Percent>>) \o <<h>>
          BY <3>2, <3>3
      <4> QED
          BY <4>2, <4>3, <4>4
    <3>5. Encoded(d) /\ PathUnescape(d) = Append(m, t)
        BY <2>2, <3>1, <3>4, UnescapeExtendCode DEF l
    <3>6. \A i \in 1..Len(d) : d[i] # Slash
        BY <2>2, <3>1, <3>2, <3>3, <3>4
    <3>7. d # <<>> /\ d \in Name
      <4>1. Len(d) = (Len(e) + 1) + 1 /\ Len(d) # 0
          BY <3>2, <3>3, <3>4
      <4> QED
          BY <3>3, <3>4, <4>1
    <3> QED
        BY <2>1, <3>5, <3>6, <3>7 DEF d
  <2> QED
      BY <2>4, <2>5
<1> HIDE DEF P
<1>3. \A m \in Seq(Nat), t \in Nat : m \in P => Append(m, t) \in P
    BY <1>2
<1>4. Seq(Nat) \subseteq P
    BY <1>1, <1>3, SeqInduction
<1> QED
    BY <1>4 DEF P, Name

LEMMA UnescapeName ==
    ASSUME NEW n \in Name
    PROVE  PathUnescape(n) \in Name
<1> DEFINE f == [i \in DOMAIN n |-> unescape(n, i)]
<1>1. DOMAIN n = 1..Len(n) /\ Len(n) \in Nat
    BY DEF Name
<1>2. f \in Seq(Name)
    BY <1>1, UnescapeType
<1>3. FlattenSeq(f) \in Name
    BY <1>2, NameConcat, FlattenAppend
<1> QED
    BY <1>3 DEF PathUnescape

-----------------------------------------------------------------------------
(* Base *)

LEMMA Greatest ==
    ASSUME NEW T \in SUBSET Nat, T # {}, NEW b \in Nat, \A y \in T : y <= b
    PROVE  Max(T) \in T /\ \A y \in T : y <= Max(T)
<1> DEFINE D == {y \in Nat : b - y \in T}
<1>1. PICK y \in T : TRUE
    OBVIOUS
<1>2. b - y \in D /\ D \in SUBSET Nat
    BY <1>1
<1>3. PICK x \in D : \A z \in D : x <= z
    BY <1>2, Least
<1>4. b - x \in T /\ \A z \in T : z <= b - x
  <2>1. ASSUME NEW z \in T PROVE z <= b - x
    <3>1. b - z \in D
        OBVIOUS
    <3>2. x <= b - z
        BY <1>3, <3>1
    <3> QED
        BY <3>2
  <2> QED
      BY <2>1
<1>5. \E m \in T : \A z \in T : m >= z
    BY <1>4
<1>6. Max(T) \in T /\ \A z \in T : Max(T) >= z
    BY <1>5 DEF Max
<1> QED
    BY <1>6

LEMMA BaseType ==
    ASSUME NEW n \in Name
    PROVE  Base(n) \in Name
<1> DEFINE kept == {i \in DOMAIN n : n[i] # Slash}
           cuts == {i \in DOMAIN n : n[i] = Slash /\ i < Max(kept)}
<1>1. DOMAIN n = 1..Len(n) /\ Len(n) \in Nat /\ \A i \in 1..Len(n) : n[i] \in Nat
    BY DEF Name
<1>2. <<Dot>> \in Name /\ <<Slash>> \in Name
    BY DEF Name, Dot, Slash
<1>3. CASE kept # {}
  <2>1. Max(kept) \in 1..Len(n)
    <3>1. kept \in SUBSET Nat /\ \A y \in kept : y <= Len(n)
        BY <1>1
    <3>2. Max(kept) \in kept
      <4> HIDE DEF kept
      <4> QED
          BY <1>1, <1>3, <3>1, Greatest
    <3> QED
        BY <1>1, <3>2
  <2> HIDE DEF kept
  <2>2. Max(cuts \cup {0}) \in Nat
    <3> DEFINE T == cuts \cup {0}
    <3>1. T \in SUBSET Nat /\ T # {} /\ \A y \in T : y <= Len(n)
        BY <1>1
    <3> HIDE DEF T
    <3>2. Max(T) \in T
        BY <1>1, <3>1, Greatest
    <3> QED
        BY <3>1, <3>2 DEF T
  <2> HIDE DEF cuts
  <2>3. SubSeq(n, Max(cuts \cup {0}) + 1, Max(kept)) \in Name
    <3>1. \A i \in (Max(cuts \cup {0}) + 1)..Max(kept) : n[i] \in Nat
        BY <1>1, <2>1, <2>2
    <3>2. Max(cuts \cup {0}) + 1 \in Int /\ Max(kept) \in Int
        BY <2>1, <2>2
    <3> QED
        BY <3>1, <3>2, SubSeqProperties DEF Name
  <2> QED
      BY <1>2, <1>3, <2>3 DEF Base, kept, cuts
<1>4. CASE kept = {}
    BY <1>2, <1>4 DEF Base
<1> QED
    BY <1>3, <1>4

(* A name without a separator is its own last element. *)
LEMMA BaseOfElement ==
    ASSUME NEW n \in Name, n # <<>>, \A i \in 1..Len(n) : n[i] # Slash
    PROVE  Base(n) = n
<1> DEFINE kept == {i \in DOMAIN n : n[i] # Slash}
           cuts == {i \in DOMAIN n : n[i] = Slash /\ i < Max(kept)}
<1>1. DOMAIN n = 1..Len(n) /\ Len(n) \in Nat /\ Len(n) # 0
    BY DEF Name
<1>2. kept = 1..Len(n) /\ cuts = {}
    BY <1>1
<1>3. Max(1..Len(n)) = Len(n)
  <2> DEFINE T == 1..Len(n)
  <2>1. T \in SUBSET Nat /\ T # {} /\ (\A y \in T : y <= Len(n)) /\ Len(n) \in T
      BY <1>1
  <2>2. \A y \in T : y \in Nat /\ y <= Len(n)
      BY <1>1
  <2> HIDE DEF T
  <2>3. Max(T) \in T /\ \A y \in T : y <= Max(T)
      BY <1>1, <2>1, Greatest
  <2>4. Max(T) \in Nat /\ Max(T) <= Len(n) /\ Len(n) <= Max(T)
      BY <2>1, <2>2, <2>3
  <2> QED
      BY <1>1, <2>4 DEF T
<1>4. Max({} \cup {0}) = 0
    BY DEF Max
<1>5. SubSeq(n, 1, Len(n)) = n
    BY DEF Name
<1>6. kept # {}
    BY <1>1, <1>2
<1> HIDE DEF kept, cuts
<1>7. Base(n) = SubSeq(n, Max(cuts \cup {0}) + 1, Max(kept))
    BY <1>6 DEF Base, kept, cuts
<1>8. Base(n) = SubSeq(n, 0 + 1, Len(n))
    BY <1>2, <1>3, <1>4, <1>7
<1> QED
    BY <1>5, <1>8

-----------------------------------------------------------------------------
(* Elements and Join *)

Names == Seq(Name) \ {<<>>}

LEMMA NamesAppend ==
    ASSUME NEW es \in Seq(Name), NEW e \in Name
    PROVE  /\ Append(es, e) \in Names /\ Len(es) \in Nat /\ Len(Append(es, e)) = Len(es) + 1
           /\ DOMAIN es = 1..Len(es) /\ DOMAIN Append(es, e) = 1..(Len(es) + 1)
           /\ Append(es, e)[Len(es) + 1] = e
           /\ \A i \in 1..Len(es) : es[i] \in Name /\ Append(es, e)[i] = es[i]
    BY AppendProperties, LenProperties DEF Names

(* A token that is no separator goes to the last element. *)
LEMMA ElementsStepLast ==
    ASSUME NEW es \in Seq(Name), NEW e \in Name, NEW t \in Nat, t # Slash
    PROVE  ElementsStep(Append(es, e), t) = Append(es, Append(e, t))
<1> DEFINE old == Append(es, e)
           new == Append(es, Append(e, t))
           n == Len(es)
<1>1. Append(e, t) \in Name
    BY NameAppend
<1>2. /\ old \in Seq(Name) /\ n \in Nat /\ Len(old) = n + 1 /\ DOMAIN old = 1..(n + 1)
      /\ old[n + 1] = e /\ \A i \in 1..n : old[i] = es[i]
    BY NamesAppend DEF Names
<1>3. /\ new \in Seq(Name) /\ DOMAIN new = 1..(n + 1)
      /\ new[n + 1] = Append(e, t) /\ \A i \in 1..n : new[i] = es[i]
    BY <1>1, NamesAppend DEF Names
<1> HIDE DEF old, new, n
<1>4. new \in [1..(n + 1) -> Name] /\ old \in [1..(n + 1) -> Name]
    BY <1>2, <1>3, LenProperties
<1> DEFINE up == [old EXCEPT ![n + 1] = Append(old[n + 1], t)]
<1>5. ElementsStep(old, t) = up
    BY <1>2 DEF ElementsStep
<1>6. up \in [1..(n + 1) -> Name]
    BY <1>1, <1>2, <1>4
<1>7. \A i \in 1..(n + 1) : up[i] = new[i]
    BY <1>2, <1>3, <1>4
<1> HIDE DEF up
<1>8. up = new
  <2>1. up = [i \in 1..(n + 1) |-> up[i]] /\ new = [i \in 1..(n + 1) |-> new[i]]
      BY <1>4, <1>6
  <2> QED
      BY <1>7, <2>1
<1> QED
    BY <1>5, <1>8 DEF old, new

LEMMA ElementsStepType ==
    ASSUME NEW es \in Names, NEW t \in Nat
    PROVE  ElementsStep(es, t) \in Names
<1>1. CASE t = Slash
    BY <1>1, NameConcat, NamesAppend DEF ElementsStep, Names
<1>2. CASE t # Slash
  <2>1. PICK ds \in Seq(Name), d \in Name : es = Append(ds, d)
      BY SequenceEmptyOrAppend DEF Names
  <2>2. ElementsStep(es, t) = Append(ds, Append(d, t))
      BY <1>2, <2>1, ElementsStepLast
  <2>3. Append(d, t) \in Name
      BY NameAppend
  <2> QED
      BY <2>2, <2>3, NamesAppend
<1> QED
    BY <1>1, <1>2

(* The list of elements after every token of the name. *)
LEMMA ElementsUnfold ==
    ASSUME NEW n \in Name
    PROVE  \E F \in [0..Len(n) -> Names] :
              /\ F[0] = << <<>> >>
              /\ \A i \in 1..Len(n) : F[i] = ElementsStep(F[i - 1], n[i])
              /\ Elements(n) = F[Len(n)]
<1> DEFINE a == << <<>> >>
           m == Len(n)
           f(g, i) == IF i = 0 THEN a ELSE ElementsStep(g[i - 1], n[i])
           F == CHOOSE g : g = [i \in 0..m |-> f(g, i)]
           step == [i \in 1..m |-> [x \in Names |-> ElementsStep(x, n[i])]]
<1>1. m \in Nat /\ \A i \in 1..m : n[i] \in Nat
    BY DEF Name
<1>2. Elements(n) = F[m]
    BY DEF Elements
<1> HIDE DEF m
<1>3. a \in Names
  <2>1. <<>> \in Name /\ <<>> \in Seq(Name) /\ Append(<<>>, <<>>) = << <<>> >>
      BY NameConcat
  <2> QED
      BY <2>1, NamesAppend
<1> HIDE DEF a
<1>4. step \in [1..m -> [Names -> Names]]
    BY <1>1, ElementsStepType
<1>5. \E h : Iteration(h, Names, a, m, step)
  <2> HIDE DEF step
  <2> QED
      BY <1>1, <1>3, <1>4, Iterated
<1>6. PICK h \in [0..m -> Names] :
          h[0] = a /\ \A i \in 1..m : h[i] = step[i][h[i - 1]]
    BY <1>5 DEF Iteration
<1>7. ASSUME NEW i \in 1..m PROVE h[i] = ElementsStep(h[i - 1], n[i])
  <2>1. h[i - 1] \in Names
      BY <1>1
  <2>2. step[i][h[i - 1]] = ElementsStep(h[i - 1], n[i])
      BY <2>1
  <2> QED
      BY <1>6, <2>2
<1>8. h = [i \in 0..m |-> f(h, i)]
  <2>1. ASSUME NEW i \in 0..m PROVE h[i] = f(h, i)
    <3>1. CASE i = 0
        BY <1>6, <3>1
    <3>2. CASE i # 0
        BY <1>1, <1>7, <3>2
    <3> QED
        BY <3>1, <3>2
  <2> QED
      BY <2>1
<1>9. F = [i \in 0..m |-> f(F, i)]
  <2> HIDE DEF f
  <2> QED
      BY <1>8
<1> HIDE DEF F, step
<1>a. F[0] = a /\ \A i \in 1..m : F[i] = ElementsStep(F[i - 1], n[i])
  <2>1. 0 \in 0..m /\ \A i \in 1..m : i \in 0..m /\ i # 0
      BY <1>1
  <2> QED
      BY <1>9, <2>1
<1> DEFINE P == {i \in Nat : F[i] \in Names}
<1>b. \A i \in 0..m : i \in P
  <2>1. 0 \in P
      BY <1>3, <1>a
  <2>2. \A i \in 1..m : i - 1 \in P => i \in P
      BY <1>1, <1>a, ElementsStepType
  <2> HIDE DEF P
  <2> QED
      BY <1>1, <2>1, <2>2, Climb
<1>c. F \in [0..m -> Names]
    BY <1>9, <1>b
<1> QED
    BY <1>2, <1>a, <1>c DEF m, a

(* The elements with a separator before each: Join without its Tail. *)
Rooted(es) == FlattenSeq([k \in DOMAIN es |-> <<Slash>> \o es[k]])

LEMMA RootedEmpty == Rooted(<<>>) = <<>>
<1>1. [k \in DOMAIN <<>> |-> <<Slash>> \o <<>>[k]] = <<>>
    OBVIOUS
<1> QED
    BY <1>1, FlattenEmpty DEF Rooted

LEMMA RootedAppend ==
    ASSUME NEW es \in Seq(Name), NEW e \in Name
    PROVE  /\ Rooted(es) \in Name
           /\ Rooted(Append(es, e)) = Rooted(es) \o (<<Slash>> \o e)
<1> DEFINE m == Len(es)
           x == <<Slash>> \o e
           f == [k \in 1..m |-> <<Slash>> \o es[k]]
           g == [k \in 1..(m + 1) |-> <<Slash>> \o Append(es, e)[k]]
<1>1. <<Slash>> \in Name
    BY DEF Name, Slash
<1>2. /\ m \in Nat /\ DOMAIN es = 1..m /\ DOMAIN Append(es, e) = 1..(m + 1)
      /\ Append(es, e)[m + 1] = e
      /\ \A i \in 1..m : es[i] \in Name /\ Append(es, e)[i] = es[i]
    BY NamesAppend
<1>3. Rooted(es) = FlattenSeq(f) /\ Rooted(Append(es, e)) = FlattenSeq(g)
    BY <1>2 DEF Rooted
<1> HIDE DEF m
<1>4. x \in Name /\ \A i \in 1..m : f[i] \in Name
    BY <1>1, <1>2, NameConcat
<1>5. f = [k \in 1..m |-> f[k]]
    OBVIOUS
<1>6. g = [k \in 1..(m + 1) |-> IF k = m + 1 THEN x ELSE f[k]]
  <2>1. ASSUME NEW k \in 1..(m + 1)
        PROVE  <<Slash>> \o Append(es, e)[k] = IF k = m + 1 THEN x ELSE f[k]
      BY <1>2
  <2> QED
      BY <2>1
<1> HIDE DEF f, g, x
<1>7. f \in Seq(Name) /\ g = Append(f, x)
  <2>1. m \in Nat /\ x \in Name
      BY <1>2, <1>4
  <2>2. \A i \in 1..m : f[i] \in Name
      BY <1>4
  <2> QED
      BY <1>5, <1>6, <2>1, <2>2, ListAppend
<1> QED
    BY <1>3, <1>4, <1>7, FlattenAppend DEF x

(* One token more for the elements is one token more for the joined name. *)
LEMMA RootedStep ==
    ASSUME NEW es \in Names, NEW t \in Nat
    PROVE  Rooted(ElementsStep(es, t)) = Rooted(es) \o <<t>>
<1>1. <<Slash>> \in Name /\ <<t>> \in Name /\ <<>> \in Name
    BY DEF Name, Slash
<1>2. CASE t = Slash
  <2>1. ElementsStep(es, t) = Append(es, <<>>) /\ es \in Seq(Name)
      BY <1>2 DEF ElementsStep, Names
  <2>2. /\ Rooted(es) \in Name
        /\ Rooted(Append(es, <<>>)) = Rooted(es) \o (<<Slash>> \o <<>>)
      BY <1>1, <2>1, RootedAppend
  <2>3. <<Slash>> \o <<>> = <<Slash>>
      BY <1>1, NameConcat
  <2> QED
      BY <1>2, <2>1, <2>2, <2>3
<1>3. CASE t # Slash
  <2>1. PICK ds \in Seq(Name), d \in Name : es = Append(ds, d)
      BY SequenceEmptyOrAppend DEF Names
  <2>2. Rooted(ds) \in Name /\ Rooted(es) = Rooted(ds) \o (<<Slash>> \o d)
      BY <2>1, RootedAppend
  <2>3. Append(d, t) \in Name /\ Append(d, t) = d \o <<t>>
      BY NameAppend
  <2>4. ElementsStep(es, t) = Append(ds, Append(d, t))
      BY <1>3, <2>1, ElementsStepLast
  <2>5. Rooted(ElementsStep(es, t)) = Rooted(ds) \o (<<Slash>> \o (d \o <<t>>))
      BY <2>3, <2>4, RootedAppend
  <2> DEFINE y == <<Slash>> \o d
  <2>6. <<Slash>> \o (d \o <<t>>) = y \o <<t>> /\ y \in Name
      BY <1>1, NameConcat, NameAssociative
  <2> HIDE DEF y
  <2>7. (Rooted(ds) \o y) \o <<t>> = Rooted(ds) \o (y \o <<t>>)
      BY <1>1, <2>2, <2>6, NameAssociative
  <2> QED
      BY <2>2, <2>5, <2>6, <2>7 DEF y
<1> QED
    BY <1>2, <1>3

LEMMA JoinType ==
    ASSUME NEW es \in Seq(Name)
    PROVE  Join(es) \in Name
<1>1. CASE es = <<>>
    BY <1>1, NameConcat DEF Join
<1>2. CASE es # <<>>
  <2>1. PICK ds \in Seq(Name), d \in Name : es = Append(ds, d)
      BY <1>2, SequenceEmptyOrAppend
  <2>2. Rooted(ds) \in Name /\ Rooted(es) = Rooted(ds) \o (<<Slash>> \o d)
      BY <2>1, RootedAppend
  <2>3. <<Slash>> \in Seq(Nat) /\ <<Slash>> \o d \in Seq(Nat) /\ Len(<<Slash>> \o d) >= 1
      BY DEF Name, Slash
  <2>4. Rooted(es) \in Seq(Nat) /\ Rooted(es) # <<>>
    <3> DEFINE y == <<Slash>> \o d
    <3> HIDE DEF y
    <3>1. y \in Seq(Nat) /\ Len(y) >= 1 /\ Rooted(ds) \in Seq(Nat) /\ Rooted(es) = Rooted(ds) \o y
        BY <2>2, <2>3 DEF y, Name
    <3> QED
        BY <3>1
  <2>5. Tail(Rooted(es)) \in Name
      BY <2>4, HeadTailProperties DEF Name
  <2> QED
      BY <1>2, <2>5 DEF Join, Rooted
<1> QED
    BY <1>1, <1>2

(* Joining the elements of a name gives the name back. *)
LEMMA JoinElements ==
    ASSUME NEW n \in Name
    PROVE  Elements(n) \in Names /\ Join(Elements(n)) = n
<1> DEFINE m == Len(n)
<1>1. m \in Nat /\ n \in Seq(Nat) /\ \A i \in 1..m : n[i] \in Nat
    BY DEF Name
<1>2. PICK F \in [0..m -> Names] :
              /\ F[0] = << <<>> >>
              /\ \A i \in 1..m : F[i] = ElementsStep(F[i - 1], n[i])
              /\ Elements(n) = F[m]
    BY ElementsUnfold
<1>a. SubSeq(n, 1, m) = n
    BY <1>1
<1> HIDE DEF m
<1>3. <<Slash>> \in Name /\ <<Slash>> \in Seq(Nat) /\ <<>> \in Name
    BY DEF Name, Slash
<1> DEFINE P == {i \in Nat : Rooted(F[i]) = <<Slash>> \o SubSeq(n, 1, i)}
<1>4. 0 \in P
  <2>1. SubSeq(n, 1, 0) = <<>>
      BY <1>1
  <2>2. F[0] = Append(<<>>, <<>>) /\ <<>> \in Seq(Name)
      BY <1>2
  <2>3. Rooted(F[0]) = Rooted(<<>>) \o (<<Slash>> \o <<>>)
      BY <1>3, <2>2, RootedAppend
  <2>4. Rooted(F[0]) = <<Slash>> \o <<>>
      BY <1>3, <2>3, RootedEmpty, NameConcat
  <2> QED
      BY <2>1, <2>4
<1>5. ASSUME NEW i \in 1..m, i - 1 \in P PROVE i \in P
  <2>1. F[i] = ElementsStep(F[i - 1], n[i]) /\ F[i - 1] \in Names /\ n[i] \in Nat
    <3>1. i - 1 \in 0..m
        BY <1>1
    <3> QED
        BY <1>1, <1>2, <3>1
  <2>2. Rooted(F[i - 1]) = <<Slash>> \o SubSeq(n, 1, i - 1)
      BY <1>5
  <2>3. Rooted(F[i]) = (<<Slash>> \o SubSeq(n, 1, i - 1)) \o <<n[i]>>
      BY <2>1, <2>2, RootedStep
  <2> DEFINE p == SubSeq(n, 1, i - 1)
             u == <<n[i]>>
  <2>4. p \in Name /\ u \in Name /\ p \o u = SubSeq(n, 1, i) /\ i \in Nat
      BY <1>1, <2>1 DEF Name
  <2> HIDE DEF p, u
  <2>5. Rooted(F[i]) = (<<Slash>> \o p) \o u
      BY <2>3 DEF p, u
  <2>6. Rooted(F[i]) = <<Slash>> \o (p \o u)
      BY <1>3, <2>4, <2>5, NameAssociative
  <2>7. Rooted(F[i]) = <<Slash>> \o SubSeq(n, 1, i)
      BY <2>4, <2>6
  <2> QED
      BY <2>4, <2>7
<1>6. m \in P
  <2> HIDE DEF P
  <2>1. \A i \in 1..m : i - 1 \in P => i \in P
      BY <1>5
  <2>2. \A i \in 0..m : i \in P
      BY <1>1, <1>4, <2>1, Climb
  <2> QED
      BY <1>1, <2>2
<1>7. Elements(n) \in Names
    BY <1>1, <1>2
<1>8. Rooted(Elements(n)) = <<Slash>> \o n
    BY <1>2, <1>6, <1>a
<1>9. Tail(<<Slash>> \o n) = n
    BY <1>1, <1>3
<1> QED
    BY <1>7, <1>8, <1>9 DEF Join, Rooted, Names

-----------------------------------------------------------------------------
(* Clean and uploadPath *)

LEMMA CleanStepType ==
    ASSUME NEW rooted, NEW out \in Seq(Name), NEW e \in Name
    PROVE  CleanStep(rooted, out, e) \in Seq(Name)
<1>1. Append(out, e) \in Seq(Name)
    BY AppendProperties
<1>2. out # <<>> => Front(out) \in Seq(Name)
    BY DEF Front
<1> QED
    BY <1>1, <1>2 DEF CleanStep

(* The elements Clean keeps, after every element of the name. *)
LEMMA CleanUnfold ==
    ASSUME NEW n \in Name
    PROVE  \E F \in [0..Len(Elements(n)) -> Seq(Name)] :
              /\ F[0] = <<>>
              /\ \A i \in 1..Len(Elements(n)) :
                    F[i] = CleanStep(IsPrefix(<<Slash>>, n), F[i - 1], Elements(n)[i])
              /\ Clean(n) = IF IsPrefix(<<Slash>>, n)
                            THEN <<Slash>> \o Join(F[Len(Elements(n))])
                            ELSE IF F[Len(Elements(n))] = <<>> THEN <<Dot>>
                            ELSE Join(F[Len(Elements(n))])
<1> DEFINE es == Elements(n)
           m == Len(es)
           rooted == IsPrefix(<<Slash>>, n)
           f(g, i) == IF i = 0 THEN <<>> ELSE CleanStep(rooted, g[i - 1], es[i])
           F == CHOOSE g : g = [i \in 0..m |-> f(g, i)]
           step == [i \in 1..m |-> [x \in Seq(Name) |-> CleanStep(rooted, x, es[i])]]
<1>1. m \in Nat /\ \A i \in 1..m : es[i] \in Name
  <2>1. es \in Seq(Name)
      BY JoinElements DEF Names
  <2> HIDE DEF es
  <2> QED
      BY <2>1
<1>2. Clean(n) = IF rooted THEN <<Slash>> \o Join(F[m])
                 ELSE IF F[m] = <<>> THEN <<Dot>> ELSE Join(F[m])
    BY DEF Clean
<1> HIDE DEF m, es, rooted
<1>3. <<>> \in Seq(Name)
    OBVIOUS
<1>4. step \in [1..m -> [Seq(Name) -> Seq(Name)]]
    BY <1>1, CleanStepType
<1>5. \E h : Iteration(h, Seq(Name), <<>>, m, step)
  <2> DEFINE X == Seq(Name)
  <2>1. <<>> \in X /\ step \in [1..m -> [X -> X]]
      BY <1>3, <1>4
  <2> HIDE DEF step, X
  <2>2. \E h : Iteration(h, X, <<>>, m, step)
      BY <1>1, <2>1, Iterated
  <2> QED
      BY <2>2 DEF X
<1>6. PICK h \in [0..m -> Seq(Name)] :
          h[0] = <<>> /\ \A i \in 1..m : h[i] = step[i][h[i - 1]]
    BY <1>5 DEF Iteration
<1>7. ASSUME NEW i \in 1..m PROVE h[i] = CleanStep(rooted, h[i - 1], es[i])
  <2>1. h[i - 1] \in Seq(Name)
      BY <1>1
  <2>2. step[i][h[i - 1]] = CleanStep(rooted, h[i - 1], es[i])
      BY <2>1
  <2> QED
      BY <1>6, <2>2
<1>8. h = [i \in 0..m |-> f(h, i)]
  <2>1. ASSUME NEW i \in 0..m PROVE h[i] = f(h, i)
    <3>1. CASE i = 0
        BY <1>6, <3>1
    <3>2. CASE i # 0
        BY <1>1, <1>7, <3>2
    <3> QED
        BY <3>1, <3>2
  <2> QED
      BY <2>1
<1>9. F = [i \in 0..m |-> f(F, i)]
  <2> HIDE DEF f
  <2> QED
      BY <1>8
<1> HIDE DEF F, step
<1>a. F[0] = <<>> /\ \A i \in 1..m : F[i] = CleanStep(rooted, F[i - 1], es[i])
  <2>1. 0 \in 0..m /\ \A i \in 1..m : i \in 0..m /\ i # 0
      BY <1>1
  <2> QED
      BY <1>9, <2>1
<1> DEFINE P == {i \in Nat : F[i] \in Seq(Name)}
<1>b. \A i \in 0..m : i \in P
  <2>1. 0 \in P
      BY <1>3, <1>a
  <2>2. ASSUME NEW i \in 1..m, i - 1 \in P PROVE i \in P
    <3>1. i \in Nat /\ F[i - 1] \in Seq(Name) /\ es[i] \in Name
        BY <1>1, <2>2
    <3>2. F[i] \in Seq(Name)
        BY <1>a, <3>1, CleanStepType
    <3> QED
        BY <3>1, <3>2
  <2> HIDE DEF P
  <2>3. \A i \in 1..m : i - 1 \in P => i \in P
      BY <2>2
  <2> QED
      BY <1>1, <2>1, <2>3, Climb
<1>c. F \in [0..m -> Seq(Name)]
    BY <1>9, <1>b
<1> QED
    BY <1>2, <1>a, <1>c DEF m, es, rooted

LEMMA CleanType ==
    ASSUME NEW n \in Name
    PROVE  Clean(n) \in Name
<1> DEFINE m == Len(Elements(n))
<1>1. PICK F \in [0..m -> Seq(Name)] :
              Clean(n) = IF IsPrefix(<<Slash>>, n) THEN <<Slash>> \o Join(F[m])
                         ELSE IF F[m] = <<>> THEN <<Dot>> ELSE Join(F[m])
    BY CleanUnfold
<1>2. m \in Nat
    BY JoinElements DEF Names
<1> HIDE DEF m
<1>3. Join(F[m]) \in Name
    BY <1>2, JoinType
<1>4. <<Slash>> \in Name /\ <<Dot>> \in Name
    BY DEF Name, Slash, Dot
<1>5. <<Slash>> \o Join(F[m]) \in Name
    BY <1>3, <1>4, NameConcat
<1> QED
    BY <1>1, <1>3, <1>4, <1>5

(* The first element of a name that begins with a separator is empty. *)
LEMMA RootedElement ==
    ASSUME NEW n \in Name, IsPrefix(<<Slash>>, n)
    PROVE  1 \in DOMAIN Elements(n) /\ Elements(n)[1] = <<>>
<1> DEFINE m == Len(n)
<1>1. m \in Nat /\ m >= 1 /\ n[1] = Slash /\ \A i \in 1..m : n[i] \in Nat
  <2>1. n \in Seq(Nat) /\ Len(<<Slash>>) = 1 /\ Len(n) >= 1
        /\ SubSeq(<<Slash>>, 1, 1) = SubSeq(n, 1, 1)
      BY DEF Name, IsPrefix
  <2>2. SubSeq(<<Slash>>, 1, 1)[1] = Slash /\ SubSeq(n, 1, 1)[1] = n[1]
      BY <2>1
  <2> QED
      BY <2>1, <2>2
<1>2. PICK F \in [0..m -> Names] :
              /\ F[0] = << <<>> >>
              /\ \A i \in 1..m : F[i] = ElementsStep(F[i - 1], n[i])
              /\ Elements(n) = F[m]
    BY ElementsUnfold
<1> HIDE DEF m
<1> DEFINE P == {i \in Nat : i >= 1 => Len(F[i]) >= 2 /\ F[i][1] = <<>>}
<1>3. 0 \in P
    OBVIOUS
<1>4. ASSUME NEW i \in 1..m, i - 1 \in P PROVE i \in P
  <2>1. i - 1 \in 0..m /\ i \in Nat
      BY <1>1
  <2>2. F[i] = ElementsStep(F[i - 1], n[i]) /\ F[i - 1] \in Names /\ n[i] \in Nat
      BY <1>1, <1>2, <2>1
  <2>3. CASE i = 1
    <3>1. F[1] = Append(<< <<>> >>, <<>>)
      <4>1. F[1] = ElementsStep(F[1 - 1], n[1]) /\ 1 - 1 = 0
          BY <2>2, <2>3
      <4>2. F[1] = ElementsStep(<< <<>> >>, Slash)
          BY <1>1, <1>2, <4>1
      <4> QED
          BY <4>2 DEF ElementsStep
    <3> QED
        BY <2>3, <3>1
  <2>4. CASE i # 1
    <3> DEFINE es == F[i - 1]
    <3>1. es \in Names /\ Len(es) >= 2 /\ es[1] = <<>> /\ F[i] = ElementsStep(es, n[i])
        BY <1>1, <1>4, <2>1, <2>2, <2>4
    <3> HIDE DEF es
    <3>2. PICK ds \in Seq(Name), d \in Name : es = Append(ds, d)
        BY <3>1, SequenceEmptyOrAppend DEF Names
    <3>3. Len(ds) \in Nat /\ Len(ds) >= 1 /\ ds[1] = <<>> /\ es \in Seq(Name)
      <4>1. Len(ds) \in Nat /\ Len(es) = Len(ds) + 1 /\ \A j \in 1..Len(ds) : es[j] = ds[j]
          BY <3>2, NamesAppend
      <4> QED
          BY <3>1, <4>1 DEF Names
    <3>4. CASE n[i] = Slash
      <4>1. F[i] = Append(es, <<>>)
          BY <3>1, <3>4 DEF ElementsStep
      <4>2. Len(F[i]) = Len(es) + 1 /\ F[i][1] = es[1] /\ Len(es) \in Nat
          BY <3>1, <3>3, <4>1, NameConcat, NamesAppend
      <4> QED
          BY <2>1, <3>1, <4>2
    <3>5. CASE n[i] # Slash
      <4>1. F[i] = Append(ds, Append(d, n[i])) /\ Append(d, n[i]) \in Name
        <5> DEFINE t == n[i]
        <5>1. t \in Nat /\ t # Slash /\ F[i] = ElementsStep(Append(ds, d), t)
            BY <2>2, <3>1, <3>2, <3>5
        <5> HIDE DEF t
        <5>2. ElementsStep(Append(ds, d), t) = Append(ds, Append(d, t))
            BY <5>1, ElementsStepLast
        <5>3. Append(d, t) \in Name
            BY <5>1, NameAppend
        <5> QED
            BY <5>1, <5>2, <5>3 DEF t
      <4>2. Len(F[i]) = Len(ds) + 1 /\ F[i][1] = ds[1]
          BY <3>3, <4>1, NamesAppend
      <4> QED
          BY <2>1, <3>3, <4>2
    <3> QED
        BY <3>4, <3>5
  <2> QED
      BY <2>3, <2>4
<1>5. m \in P
  <2> HIDE DEF P
  <2>1. \A i \in 1..m : i - 1 \in P => i \in P
      BY <1>4
  <2>2. \A i \in 0..m : i \in P
      BY <1>1, <1>3, <2>1, Climb
  <2> QED
      BY <1>1, <2>2
<1>6. Elements(n) \in Seq(Name) /\ Len(Elements(n)) >= 2 /\ Elements(n)[1] = <<>>
    BY <1>1, <1>2, <1>5, JoinElements DEF Names
<1> QED
    BY <1>6

(* Clean leaves a name alone that a walk gives. *)
LEMMA CleanProper ==
    ASSUME NEW n \in Name, Proper(n)
    PROVE  Clean(n) = n /\ n # <<>> /\ ~IsPrefix(<<Slash>>, n) /\ n # <<Dot>>
<1> DEFINE es == Elements(n)
           m == Len(es)
<1>1. /\ es \in Names /\ es \in Seq(Name) /\ m \in Nat /\ DOMAIN es = 1..m /\ Join(es) = n
      /\ es # <<>>
    BY JoinElements DEF Names
<1>2. \A k \in 1..m : es[k] \notin {<<>>, <<Dot>>, <<Dot, Dot>>}
    BY <1>1 DEF Proper
<1>3. ~IsPrefix(<<Slash>>, n)
    BY <1>1, <1>2, RootedElement
<1>4. PICK F \in [0..m -> Seq(Name)] :
          /\ F[0] = <<>>
          /\ \A i \in 1..m : F[i] = CleanStep(IsPrefix(<<Slash>>, n), F[i - 1], es[i])
          /\ Clean(n) = IF IsPrefix(<<Slash>>, n) THEN <<Slash>> \o Join(F[m])
                        ELSE IF F[m] = <<>> THEN <<Dot>> ELSE Join(F[m])
    BY CleanUnfold
<1> HIDE DEF es, m
<1> DEFINE P == {i \in Nat : F[i] = SubSeq(es, 1, i)}
<1>5. m \in P
  <2>1. 0 \in P
    <3>1. SubSeq(es, 1, 0) = <<>>
        BY <1>1
    <3> QED
        BY <1>4, <3>1
  <2>2. ASSUME NEW i \in 1..m, i - 1 \in P PROVE i \in P
    <3>1. F[i - 1] = SubSeq(es, 1, i - 1) /\ i \in Nat
        BY <2>2
    <3>2. F[i] = Append(F[i - 1], es[i])
        BY <1>2, <1>4 DEF CleanStep
    <3>3. Append(SubSeq(es, 1, i - 1), es[i]) = SubSeq(es, 1, i)
        BY <1>1 DEF m
    <3> QED
        BY <3>1, <3>2, <3>3
  <2>3. \A i \in 1..m : i - 1 \in P => i \in P
      BY <2>2
  <2> HIDE DEF P
  <2>4. \A i \in 0..m : i \in P
      BY <1>1, <2>1, <2>3, Climb
  <2> QED
      BY <1>1, <2>4
<1>6. F[m] = es
    BY <1>1, <1>5 DEF m
<1>7. Clean(n) = n
    BY <1>1, <1>3, <1>4, <1>6
<1>8. ASSUME n = <<>> \/ n = <<Dot>> PROVE FALSE
  <2>1. PICK G \in [0..Len(n) -> Names] :
              /\ G[0] = << <<>> >>
              /\ \A i \in 1..Len(n) : G[i] = ElementsStep(G[i - 1], n[i])
              /\ Elements(n) = G[Len(n)]
      BY ElementsUnfold
  <2>2. CASE n = <<>>
    <3>1. es = << <<>> >>
        BY <2>1, <2>2 DEF es
    <3> QED
        BY <1>1, <1>2, <3>1 DEF m
  <2>3. CASE n = <<Dot>>
    <3>1. Len(n) = 1 /\ n[1] = Dot /\ Dot \in Nat /\ Dot # Slash
        BY <2>3 DEF Dot, Slash
    <3>2. es = ElementsStep(<< <<>> >>, Dot)
      <4>1. 1 \in 1..1 /\ 1 - 1 = 0
          OBVIOUS
      <4> QED
          BY <2>1, <3>1, <4>1 DEF es
    <3>3. <<>> \in Seq(Name) /\ <<>> \in Name /\ Append(<<>>, <<>>) = << <<>> >>
          /\ Append(<<>>, Dot) = <<Dot>>
        BY NameConcat
    <3>4. es = Append(<<>>, <<Dot>>)
        BY <3>1, <3>2, <3>3, ElementsStepLast
    <3>5. es[1] = <<Dot>> /\ 1 \in 1..m
        BY <3>4 DEF m
    <3>6. es[1] \notin {<<>>, <<Dot>>, <<Dot, Dot>>}
        BY <1>2, <3>5
    <3> QED
        BY <3>5, <3>6
  <2> QED
      BY <1>8, <2>2, <2>3
<1> QED
    BY <1>3, <1>7, <1>8

LEMMA UploadPathType ==
    ASSUME NEW n \in Name
    PROVE  uploadPath(n) \subseteq Name
    BY UnescapeName, CleanType DEF uploadPath

(* What a walk finds, at any depth, and a client escapes is unpacked under *)
(* the same name, or refused, and then it begins with ".." (uploadPath of  *)
(* apiserver/server.go).                                                   *)
THEOREM UploadPathOfWalked ==
    ASSUME NEW n \in Name, Proper(n)
    PROVE  /\ uploadPath(PathEscape(n)) \subseteq {n}
           /\ uploadPath(PathEscape(n)) = {} => IsPrefix(<<Dot, Dot>>, n)
<1>1. PathUnescape(PathEscape(n)) = n
    BY EscapeRoundTrip
<1>2. Clean(n) = n /\ ~IsPrefix(<<Slash>>, n) /\ n # <<Dot>>
    BY CleanProper
<1> QED
    BY <1>1, <1>2 DEF uploadPath

-----------------------------------------------------------------------------
(* Names within a directory *)

NoSlash(e) == \A i \in 1..Len(e) : e[i] # Slash

LEMMA ElementsEmpty == Elements(<<>>) = << <<>> >>
<1>1. PICK F \in [0..Len(<<>>) -> Names] :
          F[0] = << <<>> >> /\ Elements(<<>>) = F[Len(<<>>)]
    BY NameConcat, ElementsUnfold
<1>2. Len(<<>>) = 0
    OBVIOUS
<1> QED
    BY <1>1, <1>2

(* The elements of a name do not have a separator in them. *)
LEMMA ElementsNoSlash ==
    ASSUME NEW n \in Name
    PROVE  \A k \in 1..Len(Elements(n)) : NoSlash(Elements(n)[k])
<1> DEFINE m == Len(n)
<1>1. m \in Nat /\ \A i \in 1..m : n[i] \in Nat
    BY DEF Name
<1>2. PICK F \in [0..m -> Names] :
          /\ F[0] = << <<>> >> /\ Elements(n) = F[m]
          /\ \A i \in 1..m : F[i] = ElementsStep(F[i - 1], n[i])
    BY ElementsUnfold
<1> HIDE DEF m
<1> DEFINE P == {i \in Nat : \A k \in 1..Len(F[i]) : NoSlash(F[i][k])}
<1>3. 0 \in P
    BY <1>2 DEF NoSlash
<1>4. ASSUME NEW i \in 1..m, i - 1 \in P PROVE i \in P
  <2>1. /\ i \in Nat /\ n[i] \in Nat /\ F[i - 1] \in Names
        /\ F[i] = ElementsStep(F[i - 1], n[i])
      BY <1>1, <1>2
  <2>2. PICK ds \in Seq(Name), d \in Name : F[i - 1] = Append(ds, d)
      BY <2>1, SequenceEmptyOrAppend, ZenonT(30) DEF Names
  <2> DEFINE es == F[i - 1]
             t == n[i]
             g == F[i]
             l == Len(ds)
  <2>3. /\ l \in Nat /\ Len(es) = l + 1 /\ es[l + 1] = d
        /\ \A k \in 1..l : es[k] = ds[k]
      BY <2>2, NamesAppend
  <2>4. /\ NoSlash(d) /\ \A k \in 1..l : NoSlash(ds[k])
        /\ \A k \in 1..(l + 1) : NoSlash(es[k])
      BY <1>4, <2>3
  <2>5. es \in Seq(Name) /\ <<>> \in Name /\ NoSlash(<<>>)
      BY <2>1, NameConcat DEF Names, NoSlash
  <2> HIDE DEF es, t, g, l
  <2>6. CASE t = Slash
    <3>1. g = Append(es, <<>>)
        BY <2>1, <2>6 DEF ElementsStep, g, es, t
    <3>2. Len(g) = l + 2 /\ g[l + 2] = <<>> /\ \A k \in 1..(l + 1) : g[k] = es[k]
        BY <2>3, <2>5, <3>1, NamesAppend
    <3>3. \A k \in 1..(l + 2) : k = l + 2 \/ k \in 1..(l + 1)
        BY <2>3
    <3>4. \A k \in 1..Len(g) : NoSlash(g[k])
        BY <2>4, <2>5, <3>2, <3>3
    <3> QED
        BY <2>1, <3>4 DEF g
  <2>7. CASE t # Slash
    <3>1. t \in Nat
        BY <2>1 DEF t
    <3>2. g = Append(ds, Append(d, t))
        BY <2>1, <2>2, <2>7, <3>1, ElementsStepLast, SMTT(30) DEF g, t
    <3>3. Append(d, t) \in Name /\ NoSlash(Append(d, t))
      <4> DEFINE e == Append(d, t)
      <4>1. /\ e \in Name /\ Len(d) \in Nat /\ Len(e) = Len(d) + 1 /\ e[Len(d) + 1] = t
            /\ \A j \in 1..Len(d) : e[j] = d[j]
          BY <3>1, NameAppend, ZenonT(30)
      <4> HIDE DEF e
      <4>2. \A j \in 1..(Len(d) + 1) : j = Len(d) + 1 \/ j \in 1..Len(d)
          BY <4>1
      <4>3. e \in Name /\ NoSlash(e)
          BY <2>4, <2>7, <4>1, <4>2 DEF NoSlash
      <4> QED
          BY <4>3 DEF e
    <3>4. /\ Len(g) = l + 1 /\ g[l + 1] = Append(d, t) /\ \A k \in 1..l : g[k] = ds[k]
        BY <3>2, <3>3, NamesAppend DEF l
    <3>5. \A k \in 1..(l + 1) : k = l + 1 \/ k \in 1..l
        BY <2>3
    <3>6. \A k \in 1..Len(g) : NoSlash(g[k])
        BY <2>4, <3>3, <3>4, <3>5
    <3> QED
        BY <2>1, <3>6 DEF g
  <2> QED
      BY <2>6, <2>7
<1>5. \A i \in 1..m : i - 1 \in P => i \in P
    BY <1>4
<1>6. m \in P
  <2> HIDE DEF P
  <2>1. \A i \in 0..m : i \in P
      BY <1>1, <1>3, <1>5, Climb
  <2> QED
      BY <1>1, <2>1
<1> QED
    BY <1>2, <1>6

(* One token more for a name is one step more for its elements. *)
LEMMA ElementsAppend ==
    ASSUME NEW n \in Name, NEW t \in Nat
    PROVE  Elements(Append(n, t)) = ElementsStep(Elements(n), t)
<1> DEFINE m == Len(n)
           a == Append(n, t)
<1>1. /\ m \in Nat /\ a \in Name /\ Len(a) = m + 1 /\ a[m + 1] = t
      /\ \A i \in 1..m : n[i] \in Nat /\ a[i] = n[i]
    BY NameAppend
<1>2. PICK F \in [0..m -> Names] :
          /\ F[0] = << <<>> >> /\ Elements(n) = F[m]
          /\ \A i \in 1..m : F[i] = ElementsStep(F[i - 1], n[i])
    BY ElementsUnfold
<1> HIDE DEF m, a
<1>3. PICK G \in [0..(m + 1) -> Names] :
          /\ G[0] = << <<>> >> /\ Elements(a) = G[m + 1]
          /\ \A i \in 1..(m + 1) : G[i] = ElementsStep(G[i - 1], a[i])
    BY <1>1, ElementsUnfold
<1> DEFINE P == {i \in Nat : G[i] = F[i]}
<1>4. 0 \in P
    BY <1>2, <1>3
<1>5. ASSUME NEW i \in 1..m, i - 1 \in P PROVE i \in P
  <2>1. i \in Nat /\ i \in 1..(m + 1) /\ a[i] = n[i] /\ G[i - 1] = F[i - 1]
      BY <1>1, <1>5
  <2>2. G[i] = F[i]
      BY <1>2, <1>3, <2>1
  <2> QED
      BY <2>1, <2>2
<1>6. G[m] = F[m]
  <2>1. \A i \in 1..m : i - 1 \in P => i \in P
      BY <1>5
  <2>2. m \in P
    <3> HIDE DEF P
    <3>1. \A i \in 0..m : i \in P
        BY <1>1, <1>4, <2>1, Climb
    <3> QED
        BY <1>1, <3>1
  <2> QED
      BY <2>2
<1>7. m + 1 \in 1..(m + 1) /\ (m + 1) - 1 = m
    BY <1>1
<1>8. G[m + 1] = ElementsStep(G[m], t)
    BY <1>1, <1>3, <1>7
<1> QED
    BY <1>2, <1>3, <1>6, <1>8 DEF a

(* What has no separator goes to the last element as a whole. *)
LEMMA ElementsConcat ==
    ASSUME NEW n \in Name, NEW ds \in Seq(Name), Elements(n) = Append(ds, <<>>),
           NEW e \in Name, NoSlash(e)
    PROVE  Elements(n \o e) = Append(ds, e)
<1> DEFINE P == {x \in Name : NoSlash(x) => Elements(n \o x) = Append(ds, x)}
<1>1. <<>> \in P
    BY NameConcat
<1>2. ASSUME NEW x \in Seq(Nat), NEW t \in Nat, x \in P PROVE Append(x, t) \in P
  <2> DEFINE y == Append(x, t)
  <2>1. /\ x \in Name /\ y \in Name /\ y = x \o <<t>> /\ Len(x) \in Nat /\ Len(y) = Len(x) + 1
        /\ y[Len(x) + 1] = t /\ \A i \in 1..Len(x) : y[i] = x[i]
      BY NameAppend DEF Name
  <2> HIDE DEF y
  <2>2. ASSUME NoSlash(y) PROVE Elements(n \o y) = Append(ds, y)
    <3>1. NoSlash(x) /\ t # Slash
        BY <2>1, <2>2 DEF NoSlash
    <3>2. Elements(n \o x) = Append(ds, x)
        BY <1>2, <3>1
    <3> DEFINE z == n \o x
    <3>3. z \in Name /\ n \o y = z \o <<t>>
      <4>1. <<t>> \in Name
          BY DEF Name
      <4> QED
          BY <2>1, <4>1, NameConcat, NameAssociative, SMTT(30)
    <3> HIDE DEF z
    <3>4. n \o y = Append(z, t)
        BY <3>3, NameAppend
    <3>5. Elements(n \o y) = ElementsStep(Elements(z), t)
        BY <3>3, <3>4, ElementsAppend
    <3>6. ElementsStep(Append(ds, x), t) = Append(ds, Append(x, t))
        BY <2>1, <3>1, ElementsStepLast
    <3> QED
        BY <3>2, <3>5, <3>6 DEF z, y
  <2> QED
      BY <2>1, <2>2 DEF y
<1>3. Seq(Nat) \subseteq P
  <2> HIDE DEF P
  <2>1. \A x \in Seq(Nat), t \in Nat : x \in P => Append(x, t) \in P
      BY <1>2
  <2> QED
      BY <1>1, <2>1, SeqInduction
<1> QED
    BY <1>3 DEF Name

LEMMA JoinOne ==
    ASSUME NEW e \in Name
    PROVE  Join(<<e>>) = e
<1>1. /\ <<>> \in Seq(Name) /\ Append(<<>>, e) = <<e>> /\ <<e>> # <<>>
      /\ <<Slash>> \in Name /\ <<Slash>> \o e \in Name
    BY NameConcat DEF Name, Slash
<1>2. Rooted(<<e>>) = <<>> \o (<<Slash>> \o e)
    BY <1>1, RootedEmpty, RootedAppend
<1>3. Rooted(<<e>>) = <<Slash>> \o e
    BY <1>1, <1>2, NameConcat
<1>4. Tail(<<Slash>> \o e) = e
    BY DEF Name, Slash
<1> QED
    BY <1>1, <1>3, <1>4 DEF Join, Rooted

LEMMA JoinMore ==
    ASSUME NEW es \in Seq(Name), es # <<>>, NEW e \in Name
    PROVE  Join(es) \in Name /\ Join(Append(es, e)) = Append(Join(es), Slash) \o e
<1> DEFINE j == Join(es)
           y == Rooted(es)
           z == <<Slash>> \o e
<1>1. <<Slash>> \in Name /\ z \in Name /\ j \in Name /\ y \in Name /\ Slash \in Nat
    BY NameConcat, JoinType, RootedAppend DEF Name, Slash
<1>2. Append(es, e) # <<>> /\ Rooted(Append(es, e)) = y \o z
    BY NamesAppend, RootedAppend DEF Names
<1>3. y # <<>>
  <2>1. PICK ds \in Seq(Name), d \in Name : es = Append(ds, d)
      BY SequenceEmptyOrAppend
  <2>2. Rooted(ds) \in Seq(Nat) /\ y = Rooted(ds) \o (<<Slash>> \o d)
      BY <2>1, RootedAppend DEF Name
  <2>3. <<Slash>> \o d \in Seq(Nat) /\ Len(<<Slash>> \o d) >= 1
      BY DEF Name, Slash
  <2> DEFINE x == <<Slash>> \o d
  <2> HIDE DEF x, y
  <2>4. x \in Seq(Nat) /\ Len(x) >= 1 /\ y = Rooted(ds) \o x
      BY <2>2, <2>3 DEF x
  <2> QED
      BY <2>2, <2>4
<1>4. j = Tail(y) /\ Join(Append(es, e)) = Tail(y \o z)
    BY <1>2, <1>3 DEF Join, Rooted
<1> HIDE DEF y, z, j
<1>5. Tail(y \o z) = Tail(y) \o z
    BY <1>1, <1>3, SMTT(30) DEF Name
<1>6. Append(j, Slash) = j \o <<Slash>> /\ Append(j, Slash) \in Name
    BY <1>1, NameAppend
<1>7. j \o z = (j \o <<Slash>>) \o e
    BY <1>1, NameAssociative DEF z
<1> QED
    BY <1>1, <1>4, <1>5, <1>6, <1>7 DEF j

(* Elements without separators are found again in the joined name, which   *)
(* begins with the first of them.                                          *)
LEMMA ElementsJoin ==
    ASSUME NEW es \in Seq(Name), es # <<>>, \A k \in 1..Len(es) : NoSlash(es[k])
    PROVE  /\ Elements(Join(es)) = es
           /\ Len(es[1]) <= Len(Join(es))
           /\ \A i \in 1..Len(es[1]) : Join(es)[i] = es[1][i]
<1> DEFINE Good(x) == /\ Elements(Join(x)) = x
                      /\ Len(x[1]) <= Len(Join(x))
                      /\ \A i \in 1..Len(x[1]) : Join(x)[i] = x[1][i]
           P == {x \in Seq(Name) : x # <<>> /\ (\A k \in 1..Len(x) : NoSlash(x[k])) => Good(x)}
<1>1. <<>> \in P
    OBVIOUS
<1>2. ASSUME NEW x \in Seq(Name), NEW e \in Name, x \in P PROVE Append(x, e) \in P
  <2> DEFINE y == Append(x, e)
  <2>1. /\ y \in Seq(Name) /\ Len(x) \in Nat /\ Len(y) = Len(x) + 1 /\ y[Len(x) + 1] = e
        /\ \A k \in 1..Len(x) : y[k] = x[k]
      BY NamesAppend DEF Names
  <2> HIDE DEF y
  <2>2. ASSUME \A k \in 1..Len(y) : NoSlash(y[k]) PROVE Good(y)
    <3>1. NoSlash(e) /\ \A k \in 1..Len(x) : NoSlash(x[k])
      <4>1. Len(x) + 1 \in 1..Len(y) /\ \A k \in 1..Len(x) : k \in 1..Len(y)
          BY <2>1
      <4> QED
          BY <2>1, <2>2, <4>1
    <3>2. CASE x = <<>>
      <4>1. y = <<e>> /\ y[1] = e /\ Join(y) = e
          BY <3>2, JoinOne DEF y
      <4>2. /\ <<>> \in Seq(Name) /\ <<>> \in Name /\ Elements(<<>>) = Append(<<>>, <<>>)
            /\ Append(<<>>, e) = <<e>> /\ <<>> \o e = e
          BY ElementsEmpty, NameConcat
      <4>3. Elements(e) = <<e>>
          BY <3>1, <4>2, ElementsConcat
      <4>4. Len(e) <= Len(e)
          BY DEF Name
      <4> QED
          BY <4>1, <4>3, <4>4
    <3>3. CASE x # <<>>
      <4> DEFINE j == Join(x)
                 s == Append(j, Slash)
      <4>1. Good(x)
          BY <1>2, <3>1, <3>3
      <4>2. j \in Name /\ Join(y) = s \o e /\ Slash \in Nat
          BY <3>3, JoinMore DEF y, Slash
      <4>3. Elements(j) = x /\ Len(x[1]) <= Len(j) /\ \A i \in 1..Len(x[1]) : j[i] = x[1][i]
          BY <4>1
      <4> HIDE DEF j
      <4>4. /\ s \in Name /\ Len(j) \in Nat /\ Len(s) = Len(j) + 1
            /\ \A i \in 1..Len(j) : s[i] = j[i]
          BY <4>2, NameAppend
      <4>5. Elements(s) = Append(x, <<>>)
          BY <4>2, <4>3, ElementsAppend DEF ElementsStep
      <4> HIDE DEF s
      <4>6. Elements(s \o e) = y
          BY <3>1, <4>4, <4>5, ElementsConcat DEF y
      <4>7. y[1] = x[1] /\ x[1] \in Name
          BY <2>1, <3>3
      <4>8. Len(s \o e) >= Len(s) /\ \A i \in 1..Len(s) : (s \o e)[i] = s[i]
          BY <4>4 DEF Name
      <4>9. Len(x[1]) \in Nat /\ Len(s \o e) \in Nat
          BY <4>4, <4>7 DEF Name
      <4>a. Len(x[1]) <= Len(s \o e) /\ \A i \in 1..Len(x[1]) : (s \o e)[i] = x[1][i]
        <5>1. \A i \in 1..Len(x[1]) : i \in 1..Len(j) /\ i \in 1..Len(s)
            BY <4>3, <4>4, <4>9
        <5> QED
            BY <4>3, <4>4, <4>8, <4>9, <5>1
      <4> QED
          BY <4>2, <4>6, <4>7, <4>a
    <3> QED
        BY <3>2, <3>3
  <2> HIDE DEF Good
  <2> QED
      BY <2>1, <2>2 DEF y
<1>3. Seq(Name) \subseteq P
  <2> HIDE DEF P
  <2>1. \A x \in Seq(Name), e \in Name : x \in P => Append(x, e) \in P
      BY <1>2
  <2> QED
      BY <1>1, <2>1, SeqInduction
<1> QED
    BY <1>3

Up == <<Dot, Dot>>

(* What Clean keeps of a relative name: elements that mean something, and  *)
(* a ".." only where the first element is one.                             *)
Kept(out) ==
    /\ out \in Seq(Name)
    /\ \A k \in 1..Len(out) :
        /\ NoSlash(out[k]) /\ out[k] \notin {<<>>, <<Dot>>}
        /\ out[k] = Up => out[1] = Up

LEMMA KeptStep ==
    ASSUME NEW out, Kept(out), NEW e \in Name, NoSlash(e)
    PROVE  Kept(CleanStep(FALSE, out, e))
<1>1. out \in Seq(Name) /\ Len(out) \in Nat
    BY LenProperties DEF Kept
<1>2. CASE e \in {<<>>, <<Dot>>}
    BY <1>2 DEF CleanStep
<1>3. CASE e \notin {<<>>, <<Dot>>} /\ e = Up /\ out # <<>> /\ Last(out) # Up
  <2> DEFINE f == Front(out)
  <2>1. CleanStep(FALSE, out, e) = f
      BY <1>3 DEF CleanStep, Up
  <2>2. f \in Seq(Name) /\ Len(f) = Len(out) - 1 /\ \A k \in 1..Len(f) : f[k] = out[k]
    <3> DEFINE l == Len(out) - 1
    <3>1. l \in Nat /\ l <= Len(out) /\ f = SubSeq(out, 1, l) /\ \A k \in 1..l : k \in 1..Len(out)
        BY <1>1, <1>3 DEF Front
    <3> HIDE DEF l, f
    <3>2. f = [k \in 1..l |-> out[k]]
        BY <1>1, <3>1
    <3>3. f \in Seq(Name) /\ Len(f) = l
        BY <1>1, <3>1, <3>2
    <3> QED
        BY <3>2, <3>3 DEF l
  <2> HIDE DEF f
  <2>3. \A k \in 1..Len(f) : k \in 1..Len(out) /\ 1 \in 1..Len(f)
      BY <1>1, <2>2
  <2> QED
      BY <2>1, <2>2, <2>3 DEF Kept
<1>4. CASE e \notin {<<>>, <<Dot>>} /\ ~(e = Up /\ out # <<>> /\ Last(out) # Up)
  <2> DEFINE a == Append(out, e)
             l == Len(out)
  <2>1. CleanStep(FALSE, out, e) = a
      BY <1>4 DEF CleanStep, Up
  <2>2. /\ a \in Seq(Name) /\ Len(a) = l + 1 /\ a[l + 1] = e /\ l \in Nat
        /\ \A k \in 1..l : a[k] = out[k]
      BY <1>1, NamesAppend DEF Names
  <2>3. e = Up => a[1] = Up
    <3>1. CASE out = <<>>
        BY <2>2, <3>1
    <3>2. CASE out # <<>>
      <4>1. l \in 1..l /\ Last(out) = out[l] /\ 1 \in 1..l
          BY <1>1, <3>2 DEF Last
      <4> QED
          BY <1>4, <2>2, <3>2, <4>1 DEF Kept
    <3> QED
        BY <3>1, <3>2
  <2>4. \A k \in 1..l : out[k] = Up => a[1] = Up
    <3>1. \A k \in 1..l : 1 \in 1..l
        BY <2>2
    <3> QED
        BY <2>2, <3>1 DEF Kept
  <2> HIDE DEF a
  <2>5. \A k \in 1..(l + 1) : k = l + 1 \/ k \in 1..l
      BY <2>2
  <2>6. ASSUME NEW k \in 1..Len(a)
        PROVE  NoSlash(a[k]) /\ a[k] \notin {<<>>, <<Dot>>} /\ (a[k] = Up => a[1] = Up)
    <3>1. CASE k = l + 1
        BY <1>4, <2>2, <2>3, <3>1
    <3>2. CASE k \in 1..l
        BY <2>2, <2>4, <3>2 DEF Kept
    <3> QED
        BY <2>2, <2>5, <3>1, <3>2
  <2> QED
      BY <2>1, <2>2, <2>6 DEF Kept
<1> QED
    BY <1>2, <1>3, <1>4

LEMMA CleanKept ==
    ASSUME NEW n \in Name, ~IsPrefix(<<Slash>>, n)
    PROVE  \E out : Kept(out) /\ Clean(n) = IF out = <<>> THEN <<Dot>> ELSE Join(out)
<1> DEFINE es == Elements(n)
           m == Len(es)
<1>1. m \in Nat /\ \A i \in 1..m : es[i] \in Name /\ NoSlash(es[i])
  <2>1. es \in Seq(Name) /\ \A i \in 1..m : NoSlash(es[i])
      BY JoinElements, ElementsNoSlash DEF Names
  <2> HIDE DEF es
  <2> QED
      BY <2>1
<1>2. PICK F \in [0..m -> Seq(Name)] :
          /\ F[0] = <<>>
          /\ \A i \in 1..m : F[i] = CleanStep(FALSE, F[i - 1], es[i])
          /\ Clean(n) = IF F[m] = <<>> THEN <<Dot>> ELSE Join(F[m])
  <2>1. IsPrefix(<<Slash>>, n) = FALSE
      BY DEF IsPrefix
  <2> QED
      BY <2>1, CleanUnfold
<1> HIDE DEF m, es
<1> DEFINE P == {i \in Nat : Kept(F[i])}
<1>3. 0 \in P
  <2>1. Kept(<<>>)
      BY DEF Kept
  <2> QED
      BY <1>2, <2>1
<1>4. ASSUME NEW i \in 1..m, i - 1 \in P PROVE i \in P
  <2>1. i \in Nat /\ Kept(F[i - 1]) /\ es[i] \in Name /\ NoSlash(es[i])
      BY <1>1, <1>4
  <2>2. Kept(F[i])
      BY <1>2, <2>1, KeptStep
  <2> QED
      BY <2>1, <2>2
<1>5. m \in P
  <2>1. \A i \in 1..m : i - 1 \in P => i \in P
      BY <1>4
  <2> HIDE DEF P
  <2>2. \A i \in 0..m : i \in P
      BY <1>1, <1>3, <2>1, Climb
  <2> QED
      BY <1>1, <2>2
<1> QED
    BY <1>2, <1>5

(* Whatever a part is called, by whichever client: a path that is accepted *)
(* has only ordinary elements, none of them empty, "." or "..", so the     *)
(* file ends up below the directory of its request ("never let an upload   *)
(* write outside the directory it belongs to", uploadPath of               *)
(* apiserver/server.go).                                                   *)
THEOREM UploadPathProper ==
    ASSUME NEW n \in Name, NEW p \in uploadPath(n)
    PROVE  Proper(p)
<1> DEFINE u == PathUnescape(n)
<1>1. u \in Name
    BY UnescapeName
<1>2. p = Clean(u) /\ p # <<Dot>> /\ ~IsPrefix(<<Slash>>, p) /\ ~IsPrefix(<<Dot, Dot>>, p)
    BY DEF uploadPath
<1> HIDE DEF u
<1>3. ~IsPrefix(<<Slash>>, u)
  <2> SUFFICES ASSUME IsPrefix(<<Slash>>, u) PROVE FALSE
      OBVIOUS
  <2>1. Len(Elements(u)) \in Nat
      BY <1>1, JoinElements DEF Names
  <2>2. \E j \in Name : p = <<Slash>> \o j
    <3> DEFINE m == Len(Elements(u))
    <3>1. PICK F \in [0..m -> Seq(Name)] : Clean(u) = <<Slash>> \o Join(F[m])
        BY <1>1, CleanUnfold
    <3> HIDE DEF m
    <3>2. m \in Nat
        BY <2>1 DEF m
    <3>3. Join(F[m]) \in Name
        BY <3>2, JoinType
    <3> QED
        BY <1>2, <3>1, <3>3
  <2>3. PICK j \in Name : p = <<Slash>> \o j
      BY <2>2
  <2>4. p \in Seq(Nat) /\ Len(p) >= 1 /\ p[1] = Slash
      BY <2>3 DEF Name, Slash
  <2>5. IsPrefix(<<Slash>>, p)
      BY <2>4 DEF IsPrefix
  <2> QED
      BY <1>2, <2>5
<1>4. PICK out : Kept(out) /\ Clean(u) = IF out = <<>> THEN <<Dot>> ELSE Join(out)
    BY <1>1, <1>3, CleanKept
<1>5. out \in Seq(Name) /\ out # <<>> /\ p = Join(out) /\ \A k \in 1..Len(out) : NoSlash(out[k])
    BY <1>2, <1>4 DEF Kept
<1>6. /\ Elements(p) = out /\ Len(out[1]) <= Len(p)
      /\ \A i \in 1..Len(out[1]) : p[i] = out[1][i]
    BY <1>5, ElementsJoin
<1>7. out[1] # Up
  <2> SUFFICES ASSUME out[1] = Up PROVE FALSE
      OBVIOUS
  <2>1. p \in Seq(Nat)
      BY <1>5, JoinType DEF Name
  <2>2. Len(p) >= 2 /\ p[1] = Dot /\ p[2] = Dot
      BY <1>6, <2>1 DEF Up
  <2>3. IsPrefix(<<Dot, Dot>>, p)
      BY <2>1, <2>2 DEF IsPrefix
  <2> QED
      BY <1>2, <2>3
<1>8. DOMAIN out = 1..Len(out)
    BY <1>5
<1> QED
    BY <1>4, <1>6, <1>7, <1>8 DEF Proper, Kept, Up

-----------------------------------------------------------------------------
(* Sorted and MigrationFiles *)

LEMMA BeforeIrreflexive ==
    ASSUME NEW a \in Name
    PROVE  ~Before(a, a)
    BY DEF Before, Name

LEMMA BeforeTransitive ==
    ASSUME NEW a \in Name, NEW b \in Name, NEW c \in Name, Before(a, b), Before(b, c)
    PROVE  Before(a, c)
<1>1. /\ Len(a) \in Nat /\ Len(b) \in Nat /\ Len(c) \in Nat
      /\ \A i \in 1..Len(a) : a[i] \in Nat
      /\ \A i \in 1..Len(b) : b[i] \in Nat
      /\ \A i \in 1..Len(c) : c[i] \in Nat
    BY DEF Name
<1>2. PICK i \in 1..Len(b) :
          i <= Len(a) + 1 /\ (\A j \in 1..(i - 1) : a[j] = b[j]) /\ (i <= Len(a) => a[i] < b[i])
    BY DEF Before
<1>3. PICK k \in 1..Len(c) :
          k <= Len(b) + 1 /\ (\A j \in 1..(k - 1) : b[j] = c[j]) /\ (k <= Len(b) => b[k] < c[k])
    BY DEF Before
<1>4. CASE i < k
  <2>1. i \in 1..Len(c) /\ b[i] = c[i] /\ \A j \in 1..(i - 1) : a[j] = c[j]
      BY <1>1, <1>2, <1>3, <1>4
  <2> QED
      BY <1>2, <2>1 DEF Before
<1>5. CASE i = k
  <2>1. i \in 1..Len(c) /\ b[i] < c[i] /\ \A j \in 1..(i - 1) : a[j] = c[j]
      BY <1>1, <1>2, <1>3, <1>5
  <2>2. i <= Len(a) => a[i] < c[i]
      BY <1>1, <1>2, <2>1
  <2> QED
      BY <1>2, <2>1, <2>2 DEF Before
<1>6. CASE i > k
  <2>1. a[k] = b[k] /\ b[k] < c[k] /\ k <= Len(a) /\ \A j \in 1..(k - 1) : a[j] = c[j]
      BY <1>1, <1>2, <1>3, <1>6
  <2>2. k <= Len(a) + 1 /\ a[k] < c[k]
      BY <1>1, <2>1
  <2> QED
      BY <2>1, <2>2 DEF Before
<1> QED
    BY <1>1, <1>4, <1>5, <1>6

(* Two names differ at a first position. *)
LEMMA BeforeTotal ==
    ASSUME NEW a \in Name, NEW b \in Name, a # b
    PROVE  Before(a, b) \/ Before(b, a)
<1>1. /\ a \in Seq(Nat) /\ b \in Seq(Nat) /\ Len(a) \in Nat /\ Len(b) \in Nat
      /\ \A i \in 1..Len(a) : a[i] \in Nat
      /\ \A i \in 1..Len(b) : b[i] \in Nat
    BY DEF Name
<1> DEFINE Agree(i) == i <= Len(a) /\ i <= Len(b) /\ a[i] = b[i]
           D == {i \in Nat \ {0} : i <= Len(a) + 1 /\ i <= Len(b) + 1 /\ ~Agree(i)}
<1>2. D # {} /\ D \in SUBSET Nat
  <2>1. CASE Len(a) <= Len(b)
    <3>1. Len(a) + 1 \in D
        BY <1>1, <2>1
    <3> QED
        BY <3>1
  <2>2. CASE ~(Len(a) <= Len(b))
    <3>1. Len(b) + 1 \in D
        BY <1>1, <2>2
    <3> QED
        BY <3>1
  <2> QED
      BY <2>1, <2>2
<1>3. PICK x \in D : \A y \in D : x <= y
    BY <1>2, Least
<1>5. x \in Nat \ {0} /\ x <= Len(a) + 1 /\ x <= Len(b) + 1 /\ ~Agree(x)
    OBVIOUS
<1>4. ASSUME NEW j \in 1..(x - 1) PROVE Agree(j)
  <2>1. j \in Nat \ {0} /\ j < x /\ j <= Len(a) + 1 /\ j <= Len(b) + 1
      BY <1>1, <1>5
  <2>2. ~Agree(j) => j \in D
      BY <2>1
  <2> HIDE DEF D, Agree
  <2> QED
      BY <1>3, <1>5, <2>1, <2>2
<1>6. CASE x <= Len(a) /\ x <= Len(b)
  <2>1. a[x] < b[x] \/ b[x] < a[x]
      BY <1>1, <1>5, <1>6
  <2> QED
      BY <1>1, <1>4, <1>5, <1>6, <2>1 DEF Before
<1>7. CASE x > Len(a) /\ x <= Len(b)
  <2>1. Before(a, b)
      BY <1>1, <1>4, <1>5, <1>7 DEF Before
  <2> QED
      BY <2>1
<1>8. CASE x <= Len(a) /\ x > Len(b)
  <2>1. Before(b, a)
      BY <1>1, <1>4, <1>5, <1>8 DEF Before
  <2> QED
      BY <2>1
<1>9. CASE x > Len(a) /\ x > Len(b)
  <2>1. Len(a) = Len(b) /\ \A j \in 1..Len(a) : a[j] = b[j]
      BY <1>1, <1>4, <1>5, <1>9
  <2>2. a = b
      BY <1>1, <2>1, SeqEqual
  <2> QED
      BY <2>2
<1> QED
    BY <1>1, <1>5, <1>6, <1>7, <1>8, <1>9

(* Between finite sets of the same size, what is one-to-one is onto. *)
LEMMA Onto ==
    ASSUME NEW A, NEW B, IsFiniteSet(A), IsFiniteSet(B), Cardinality(A) = Cardinality(B),
           NEW f \in [A -> B], \A x, y \in A : f[x] = f[y] => x = y
    PROVE  \A w \in B : \E x \in A : f[x] = w
<1> SUFFICES ASSUME NEW w \in B, \A x \in A : f[x] # w PROVE FALSE
    OBVIOUS
<1> DEFINE C == B \ {w}
<1>1. f \in [A -> C]
    OBVIOUS
<1>2. IsFiniteSet(C) /\ Cardinality(C) <= Cardinality(B) /\ Cardinality(B) # Cardinality(C)
  <2>1. C \in SUBSET B /\ B # C
      OBVIOUS
  <2> HIDE DEF C
  <2> QED
      BY <2>1, FS_Subset
<1>3. Cardinality(C) \in Nat /\ Cardinality(B) \in Nat
    BY <1>2, FS_CardinalityType
<1>4. Cardinality(C) < Cardinality(A)
    BY <1>2, <1>3
<1> HIDE DEF C
<1>5. \E x, y \in A : x # y /\ f[x] = f[y]
    BY <1>1, <1>2, <1>4, FS_PigeonHole
<1> QED
    BY <1>5

(* A finite set of files whose names differ: what a directory can hold. *)
Directory(S) ==
    /\ IsFiniteSet(S) /\ S \subseteq File
    /\ \A f, g \in S : f.name = g.name => f = g

(* There is an arrangement in the order of the names: a file comes after   *)
(* as many others as have a name before its own.                           *)
LEMMA SortedExists ==
    ASSUME NEW S, Directory(S)
    PROVE  \E s \in [1..Cardinality(S) -> S] :
              \A i, j \in DOMAIN s : i < j => Before(s[i].name, s[j].name)
<1> DEFINE n == Cardinality(S)
           below(f) == {g \in S : Before(g.name, f.name)}
           rank == [f \in S |-> Cardinality(below(f)) + 1]
<1>1. IsFiniteSet(S) /\ n \in Nat /\ \A f \in S : f.name \in Name
    BY FS_CardinalityType DEF Directory, File
<1>2. ASSUME NEW f \in S
      PROVE  /\ IsFiniteSet(below(f)) /\ Cardinality(below(f)) \in Nat
             /\ Cardinality(below(f)) < n
  <2>1. below(f) \in SUBSET S /\ below(f) # S
      BY <1>1, BeforeIrreflexive
  <2> HIDE DEF below
  <2>2. IsFiniteSet(below(f)) /\ Cardinality(below(f)) <= n /\ n # Cardinality(below(f))
      BY <1>1, <2>1, FS_Subset
  <2>3. Cardinality(below(f)) \in Nat
      BY <2>2, FS_CardinalityType
  <2> QED
      BY <1>1, <2>2, <2>3
<1>3. ASSUME NEW f \in S, NEW g \in S, Before(f.name, g.name)
      PROVE  Cardinality(below(f)) < Cardinality(below(g))
  <2>1. below(f) \subseteq below(g)
    <3>1. ASSUME NEW h \in S, Before(h.name, f.name) PROVE Before(h.name, g.name)
        BY <1>1, <1>3, <3>1, BeforeTransitive
    <3> QED
        BY <3>1
  <2>2. f \in below(g) /\ f \notin below(f)
      BY <1>1, <1>3, BeforeIrreflexive
  <2> HIDE DEF below
  <2>3. Cardinality(below(f)) <= Cardinality(below(g))
        /\ Cardinality(below(f)) # Cardinality(below(g))
      BY <1>2, <2>1, <2>2, FS_Subset
  <2> QED
      BY <1>2, <2>3
<1> HIDE DEF n
<1>4. rank \in [S -> 1..n]
    BY <1>1, <1>2
<1>5. \A f, g \in S : Before(f.name, g.name) => rank[f] < rank[g]
  <2> HIDE DEF below
  <2> QED
      BY <1>2, <1>3
<1> HIDE DEF rank, below
<1>6. \A f, g \in S : f # g => Before(f.name, g.name) \/ Before(g.name, f.name)
    BY <1>1, BeforeTotal DEF Directory
<1>7. \A f, g \in S : rank[f] = rank[g] => f = g
  <2>1. \A f \in S : rank[f] \in Nat
      BY <1>1, <1>4
  <2> QED
      BY <1>5, <1>6, <2>1
<1>8. \A i \in 1..n : \E f \in S : rank[f] = i
  <2> DEFINE B == 1..n
  <2>1. IsFiniteSet(B) /\ Cardinality(S) = Cardinality(B)
      BY <1>1, FS_Interval DEF n
  <2>2. rank \in [S -> B]
      BY <1>4
  <2> HIDE DEF B
  <2>3. \A i \in B : \E f \in S : rank[f] = i
      BY <1>1, <1>7, <2>1, <2>2, Onto
  <2> QED
      BY <2>3 DEF B
<1> DEFINE s == [i \in 1..n |-> CHOOSE f \in S : rank[f] = i]
<1>9. \A i \in 1..n : s[i] \in S /\ rank[s[i]] = i
    BY <1>8
<1>a. s \in [1..n -> S] /\ DOMAIN s = 1..n
    BY <1>9
<1> HIDE DEF s
<1>b. ASSUME NEW i \in 1..n, NEW j \in 1..n, i < j
      PROVE  Before(s[i].name, s[j].name)
  <2>1. s[i] \in S /\ s[j] \in S /\ rank[s[i]] = i /\ rank[s[j]] = j
      BY <1>9
  <2>2. s[i] # s[j] /\ ~(rank[s[j]] < rank[s[i]])
      BY <1>1, <1>b, <2>1
  <2> QED
      BY <1>5, <1>6, <2>1, <2>2
<1> QED
    BY <1>a, <1>b DEF n

(* Listing a directory neither loses nor invents nor repeats a file, and   *)
(* gives the order of sort.Strings, whatever is in the directory (getFiles *)
(* of postgres/config.go, getFilesList of the Go client).                  *)
THEOREM SortedFiles ==
    ASSUME NEW S, Directory(S)
    PROVE  /\ Sorted(S) \in Seq(File) /\ Sorted(S) \in Seq(S) /\ Ascending(Sorted(S))
           /\ Len(Sorted(S)) = Cardinality(S)
           /\ {Sorted(S)[i] : i \in DOMAIN Sorted(S)} = S
<1> DEFINE n == Cardinality(S)
           s == Sorted(S)
<1>1. IsFiniteSet(S) /\ n \in Nat /\ S \subseteq File /\ \A f \in S : f.name \in Name
    BY FS_CardinalityType DEF Directory, File
<1>2. s \in [1..n -> S] /\ \A i, j \in DOMAIN s : i < j => Before(s[i].name, s[j].name)
    BY SortedExists DEF Sorted
<1> HIDE DEF s, n
<1>3. \A i, j \in 1..n : s[i] = s[j] => i = j
  <2>1. \A i \in 1..n : ~Before(s[i].name, s[i].name)
      BY <1>1, <1>2, BeforeIrreflexive
  <2> QED
      BY <1>1, <1>2, <2>1
<1>4. \A f \in S : \E i \in 1..n : s[i] = f
  <2>1. IsFiniteSet(1..n) /\ Cardinality(1..n) = Cardinality(S)
      BY <1>1, FS_Interval DEF n
  <2>2. s \in [1..n -> S]
      BY <1>2
  <2> QED
      BY <1>1, <1>3, <2>1, <2>2, Onto
<1>5. s \in Seq(S) /\ s \in Seq(File) /\ Len(s) = n
    BY <1>1, <1>2
<1>6. {s[i] : i \in DOMAIN s} = S
    BY <1>2, <1>4
<1>7. Ascending(s)
    BY <1>2 DEF Ascending
<1> QED
    BY <1>5, <1>6, <1>7 DEF s, n

(* The down migrations are dropped one by one. *)
LEMMA MigrationFilesUnfold ==
    ASSUME NEW files \in Seq(File)
    PROVE  \E F \in [0..Len(files) -> Seq(File)] :
              /\ MigrationFiles(files) = F[Len(files)] /\ F[0] = <<>>
              /\ \A i \in 1..Len(files) :
                    F[i] = IF IsDown(files[i]) THEN F[i - 1] ELSE Append(F[i - 1], files[i])
<1> DEFINE m == Len(files)
           f(g, i) == IF i = 0 THEN <<>>
                      ELSE IF IsDown(files[i]) THEN g[i - 1] ELSE Append(g[i - 1], files[i])
           F == CHOOSE g : g = [i \in 0..m |-> f(g, i)]
           X == Seq(File)
           step == [i \in 1..m |-> [x \in X |-> IF IsDown(files[i]) THEN x ELSE Append(x, files[i])]]
<1>1. m \in Nat /\ \A i \in 1..m : files[i] \in File
    OBVIOUS
<1>2. MigrationFiles(files) = F[m]
    BY DEF MigrationFiles
<1> HIDE DEF m
<1>3. <<>> \in X /\ \A x \in X : \A i \in 1..m : Append(x, files[i]) \in X
    BY <1>1, AppendProperties
<1> HIDE DEF X
<1>4. step \in [1..m -> [X -> X]]
    BY <1>3
<1>5. \E h : Iteration(h, X, <<>>, m, step)
  <2> HIDE DEF step
  <2> QED
      BY <1>1, <1>3, <1>4, Iterated
<1>6. PICK h \in [0..m -> X] :
          h[0] = <<>> /\ \A i \in 1..m : h[i] = step[i][h[i - 1]]
    BY <1>5 DEF Iteration
<1>7. ASSUME NEW i \in 0..m PROVE h[i] = f(h, i)
  <2>1. CASE i = 0
      BY <1>6, <2>1
  <2>2. CASE i # 0
    <3>1. i \in 1..m /\ h[i - 1] \in X
        BY <1>1, <2>2
    <3>2. step[i][h[i - 1]] = IF IsDown(files[i]) THEN h[i - 1] ELSE Append(h[i - 1], files[i])
        BY <3>1
    <3> QED
        BY <1>6, <2>2, <3>1, <3>2
  <2> QED
      BY <2>1, <2>2
<1>8. h = [i \in 0..m |-> f(h, i)]
  <2> HIDE DEF f
  <2> QED
      BY <1>7
<1>9. F = [i \in 0..m |-> f(F, i)]
  <2> HIDE DEF f
  <2> QED
      BY <1>8
<1> HIDE DEF F, step
<1>a. /\ F[0] = <<>>
      /\ \A i \in 1..m : F[i] = IF IsDown(files[i]) THEN F[i - 1] ELSE Append(F[i - 1], files[i])
  <2>1. 0 \in 0..m /\ \A i \in 1..m : i \in 0..m /\ i # 0
      BY <1>1
  <2> QED
      BY <1>9, <2>1
<1> DEFINE P == {i \in Nat : F[i] \in X}
<1>b. 0 \in P
    BY <1>3, <1>a
<1>c. \A i \in 1..m : i - 1 \in P => i \in P
    BY <1>1, <1>3, <1>a
<1>d. \A i \in 0..m : i \in P
  <2> HIDE DEF P
  <2> QED
      BY <1>1, <1>b, <1>c, Climb
<1>e. F \in [0..m -> X]
    BY <1>9, <1>d
<1>f. \E G \in [0..m -> X] :
         /\ MigrationFiles(files) = G[m] /\ G[0] = <<>>
         /\ \A i \in 1..m : G[i] = IF IsDown(files[i]) THEN G[i - 1] ELSE Append(G[i - 1], files[i])
    BY <1>2, <1>a, <1>e
<1> QED
    BY <1>f DEF m, X

(* What is left is a list of the other files, in the order they had. *)
LEMMA UpMigrations ==
    ASSUME NEW files \in Seq(File)
    PROVE  LET ups == MigrationFiles(files) IN
           /\ ups \in Seq(File)
           /\ {ups[i] : i \in DOMAIN ups} = {f \in {files[i] : i \in DOMAIN files} : ~IsDown(f)}
           /\ Ascending(files) => Ascending(ups)
<1> DEFINE m == Len(files)
           ups == MigrationFiles(files)
           Ups(i) == {files[j] : j \in {j \in 1..i : ~IsDown(files[j])}}
<1>1. m \in Nat /\ DOMAIN files = 1..m /\ \A i \in 1..m : files[i] \in File
    BY LenProperties
<1>2. PICK F \in [0..m -> Seq(File)] :
         /\ ups = F[m] /\ F[0] = <<>>
         /\ \A i \in 1..m : F[i] = IF IsDown(files[i]) THEN F[i - 1] ELSE Append(F[i - 1], files[i])
    BY MigrationFilesUnfold
<1> HIDE DEF m, ups
<1> DEFINE P == {i \in Nat : /\ {F[i][a] : a \in DOMAIN F[i]} = Ups(i)
                             /\ Ascending(files) => Ascending(F[i])}
<1>3. 0 \in P
  <2>1. Ups(0) = {} /\ DOMAIN F[0] = {}
      BY <1>2
  <2> HIDE DEF Ups
  <2> QED
      BY <1>2, <2>1 DEF Ascending
<1>4. ASSUME NEW i \in 1..m, i - 1 \in P PROVE i \in P
  <2> DEFINE g == F[i - 1]
             h == F[i]
             n == Len(g)
  <2>1. /\ g \in Seq(File) /\ h \in Seq(File) /\ files[i] \in File /\ n \in Nat /\ i \in Nat
        /\ DOMAIN g = 1..n
      BY <1>1, LenProperties
  <2>2. {g[a] : a \in DOMAIN g} = Ups(i - 1) /\ (Ascending(files) => Ascending(g))
      BY <1>4
  <2>3. CASE IsDown(files[i])
    <3>1. h = g
        BY <1>2, <2>3
    <3>2. Ups(i) = Ups(i - 1)
        BY <1>1, <2>1, <2>3
    <3> HIDE DEF Ups, g, h
    <3>3. {h[a] : a \in DOMAIN h} = Ups(i) /\ (Ascending(files) => Ascending(h))
        BY <2>2, <3>1, <3>2
    <3> QED
        BY <2>1, <3>3 DEF h
  <2>4. CASE ~IsDown(files[i])
    <3>1. h = Append(g, files[i])
        BY <1>2, <2>4
    <3>2. Ups(i) = Ups(i - 1) \cup {files[i]}
        BY <1>1, <2>1, <2>4, SMTT(30)
    <3> HIDE DEF g, h
    <3>3. /\ DOMAIN h = 1..(n + 1) /\ h[n + 1] = files[i]
          /\ \A a \in 1..n : h[a] = g[a]
        BY <2>1, <3>1, AppendProperties, LenProperties
    <3> HIDE DEF n
    <3>4. {h[a] : a \in DOMAIN h} = Ups(i)
      <4>1. {h[a] : a \in 1..(n + 1)} = {g[a] : a \in 1..n} \cup {files[i]}
        <5>1. \A a \in 1..(n + 1) : a = n + 1 \/ a \in 1..n
            BY <2>1
        <5>2. n + 1 \in 1..(n + 1) /\ \A a \in 1..n : a \in 1..(n + 1)
            BY <2>1
        <5> QED
            BY <3>3, <5>1, <5>2
      <4> HIDE DEF Ups
      <4> QED
          BY <2>1, <2>2, <3>2, <3>3, <4>1
    <3>5. ASSUME Ascending(files) PROVE Ascending(h)
      <4> SUFFICES ASSUME NEW a \in 1..(n + 1), NEW b \in 1..(n + 1), a < b
                   PROVE  Before(h[a].name, h[b].name)
          BY <3>3 DEF Ascending
      <4>1. a \in 1..n /\ (b = n + 1 \/ b \in 1..n)
          BY <2>1
      <4>2. CASE b \in 1..n
          BY <2>1, <2>2, <3>3, <3>5, <4>1, <4>2 DEF Ascending
      <4>3. CASE b = n + 1
        <5>1. g[a] \in Ups(i - 1)
            BY <2>1, <2>2, <4>1
        <5>2. PICK j \in 1..(i - 1) : g[a] = files[j]
            BY <5>1
        <5>3. j \in 1..m /\ i \in 1..m /\ j < i
            BY <1>1, <2>1
        <5> QED
            BY <1>1, <3>3, <3>5, <4>1, <4>3, <5>2, <5>3 DEF Ascending
      <4> QED
          BY <4>1, <4>2, <4>3
    <3> QED
        BY <2>1, <3>4, <3>5 DEF h
  <2> QED
      BY <2>3, <2>4
<1>5. \A i \in 1..m : i - 1 \in P => i \in P
    BY <1>4
<1>6. m \in P
  <2> HIDE DEF P
  <2>1. \A i \in 0..m : i \in P
      BY <1>1, <1>3, <1>5, Climb
  <2> QED
      BY <1>1, <2>1
<1>7. Ups(m) = {f \in {files[i] : i \in DOMAIN files} : ~IsDown(f)}
    BY <1>1
<1> HIDE DEF Ups
<1>8. /\ ups \in Seq(File) /\ {ups[i] : i \in DOMAIN ups} = Ups(m)
      /\ Ascending(files) => Ascending(ups)
    BY <1>1, <1>2, <1>6
<1> QED
    BY <1>7, <1>8 DEF ups

(* Whatever is in the directory: the migrations that are applied are its   *)
(* .sql files but for the .down.sql ones, every one of them, once, and in  *)
(* the order of their names (getFiles and MigrationFiles of                *)
(* postgres/config.go).                                                    *)
THEOREM MigrationsInOrder ==
    ASSUME NEW D, Directory(D)
    PROVE  LET ups == MigrationFiles(getFiles(D)) IN
           /\ ups \in Seq(File) /\ Ascending(ups)
           /\ {ups[i] : i \in DOMAIN ups} =
                 {f \in D : IsSuffix(<<Dot, Sql>>, f.name) /\ ~IsDown(f)}
<1> DEFINE S == {f \in D : IsSuffix(<<Dot, Sql>>, f.name)}
           s == Sorted(S)
           ups == MigrationFiles(s)
<1>1. Directory(S)
  <2>1. S \in SUBSET D
      OBVIOUS
  <2> HIDE DEF S
  <2> QED
      BY <2>1, FS_Subset DEF Directory
<1>2. getFiles(D) = s
    BY DEF getFiles
<1> HIDE DEF S
<1>3. s \in Seq(File) /\ Ascending(s) /\ {s[i] : i \in DOMAIN s} = S
    BY <1>1, SortedFiles
<1> HIDE DEF s
<1>4. /\ ups \in Seq(File) /\ Ascending(ups)
      /\ {ups[i] : i \in DOMAIN ups} = {f \in {s[i] : i \in DOMAIN s} : ~IsDown(f)}
    BY <1>3, UpMigrations
<1> HIDE DEF ups
<1>5. {ups[i] : i \in DOMAIN ups} = {f \in S : ~IsDown(f)}
    BY <1>3, <1>4
<1>6. {f \in S : ~IsDown(f)} = {f \in D : IsSuffix(<<Dot, Sql>>, f.name) /\ ~IsDown(f)}
    BY DEF S
<1> QED
    BY <1>2, <1>4, <1>5, <1>6 DEF ups

-----------------------------------------------------------------------------
(* What the clients send *)

(* The files of a call that its client puts into the body under key k. *)
Sent(c, k) == {f \in Walked(c[k]) : k = "migrations" => f.name \in c.pattern}

LEMMA CallFields ==
    ASSUME NEW c \in Calls, NEW k \in Key
    PROVE  /\ c[k].kind \in {"dir", "file"} /\ c[k].files \subseteq File
           /\ IsFiniteSet(c[k].files) /\ \A f \in c[k].files : Proper(f.name)
           /\ \A f, g \in Walked(c[k]) : f.name = g.name => f = g
<1>1. c \in Call
    BY UploadsAssumption
<1>2. c[k] \in Source
    BY <1>1 DEF Call, Key
<1> QED
    BY <1>2, WalkAssumption DEF Source

LEMMA WalkedFiles ==
    ASSUME NEW c \in Calls, NEW k \in Key
    PROVE  Directory(Walked(c[k])) /\ \A f \in Walked(c[k]) : f.name \in Name /\ f.name # <<>>
<1> DEFINE S == c[k].files
<1>1. /\ c[k].kind \in {"dir", "file"} /\ S \subseteq File
      /\ IsFiniteSet(S) /\ \A f \in S : Proper(f.name)
      /\ \A f, g \in Walked(c[k]) : f.name = g.name => f = g
    BY CallFields
<1>2. CASE c[k].kind = "dir"
  <2>1. Walked(c[k]) = S
      BY <1>2 DEF Walked
  <2>2. \A f \in S : f.name \in Name
      BY <1>1 DEF File
  <2>3. \A f \in S : f.name # <<>>
      BY <1>1, <2>2, CleanProper
  <2> QED
      BY <1>1, <2>1, <2>2, <2>3 DEF Directory
<1>3. CASE c[k].kind # "dir"
  <2> DEFINE h == [f \in S |-> [f EXCEPT !.name = <<Dot>>]]
             T == {[f EXCEPT !.name = <<Dot>>] : f \in S}
  <2>1. Walked(c[k]) = T
      BY <1>3 DEF Walked
  <2>2. h \in Surjection(S, T)
      BY DEF Surjection
  <2>3. <<Dot>> \in Name /\ <<Dot>> # <<>>
      BY DEF Name, Dot
  <2>4. \A f \in T : f \in File /\ f.name = <<Dot>>
      BY <1>1, <2>3 DEF File
  <2> HIDE DEF h, T, S
  <2>5. IsFiniteSet(T)
      BY <1>1, <2>2, FS_Surjection
  <2> QED
      BY <1>1, <2>1, <2>3, <2>4, <2>5 DEF Directory
<1> QED
    BY <1>2, <1>3

LEMMA SentFiles ==
    ASSUME NEW c \in Calls, NEW k \in Key
    PROVE  Directory(Sent(c, k)) /\ \A f \in Sent(c, k) : f.name \in Name /\ f.name # <<>>
<1>1. Directory(Walked(c[k])) /\ \A f \in Walked(c[k]) : f.name \in Name /\ f.name # <<>>
    BY WalkedFiles
<1>2. Sent(c, k) \subseteq Walked(c[k])
    BY DEF Sent
<1>3. IsFiniteSet(Sent(c, k))
    BY <1>1, <1>2, FS_Subset DEF Directory
<1> QED
    BY <1>1, <1>2, <1>3 DEF Directory

(* The parts of one key: one for every file, in the order of the names. *)
PartsOf(c, k) ==
    [i \in DOMAIN Sorted(Sent(c, k)) |-> addFileToWriter(k, Sorted(Sent(c, k))[i])]

LEMMA BodyIsParts ==
    ASSUME NEW c \in Calls, c.client # "other"
    PROVE  Body(c) = PartsOf(c, "migrations") \o PartsOf(c, "fixtures")
<1>1. Sent(c, "migrations") = {f \in Walked(c["migrations"]) : f.name \in c.pattern}
    BY DEF Sent
<1>2. Sent(c, "fixtures")
        = {f \in Walked(c["fixtures"]) : f.name \in {g.name : g \in Walked(c["fixtures"])}}
    BY DEF Sent
<1>3. /\ Sorted(Sent(c, "migrations")) = getFilesList(c["migrations"], c.pattern)
      /\ Sorted(Sent(c, "fixtures"))
           = getFilesList(c["fixtures"], {g.name : g \in Walked(c["fixtures"])})
    BY <1>1, <1>2 DEF getFilesList
<1> QED
    BY <1>3 DEF Body, PartsOf

LEMMA PartOfFile ==
    ASSUME NEW k \in Key, NEW f \in File
    PROVE  addFileToWriter(k, f) \in Part
<1>1. f.name \in Name /\ f.body \in Seq(Nat)
    BY DEF File
<1>2. PathEscape(f.name) \in Name
    BY <1>1, EscapeRoundTrip
<1> QED
    BY <1>1, <1>2 DEF addFileToWriter, Part

LEMMA PartsOfKey ==
    ASSUME NEW c \in Calls, NEW k \in Key
    PROVE  /\ PartsOf(c, k) \in Seq(Part)
           /\ {PartsOf(c, k)[i] : i \in DOMAIN PartsOf(c, k)}
                = {addFileToWriter(k, f) : f \in Sent(c, k)}
<1> DEFINE S == Sent(c, k)
           s == Sorted(S)
<1>1. Directory(S) /\ S \subseteq File
    BY SentFiles DEF Directory
<1>2. s \in Seq(S) /\ s \in Seq(File) /\ {s[i] : i \in DOMAIN s} = S
  <2> HIDE DEF S
  <2> QED
      BY <1>1, SortedFiles
<1>3. PartsOf(c, k) = [i \in DOMAIN s |-> addFileToWriter(k, s[i])]
    BY DEF PartsOf
<1> HIDE DEF S, s
<1>4. Len(s) \in Nat /\ DOMAIN s = 1..Len(s) /\ \A i \in 1..Len(s) : s[i] \in File
    BY <1>2
<1>5. \A i \in 1..Len(s) : addFileToWriter(k, s[i]) \in Part
    BY <1>4, PartOfFile
<1>6. PartsOf(c, k) \in Seq(Part)
    BY <1>3, <1>4, <1>5
<1>7. {PartsOf(c, k)[i] : i \in DOMAIN PartsOf(c, k)} = {addFileToWriter(k, f) : f \in S}
    BY <1>2, <1>3
<1> QED
    BY <1>6, <1>7 DEF S

LEMMA ConcatRange ==
    ASSUME NEW X, NEW s \in Seq(X), NEW t \in Seq(X)
    PROVE  s \o t \in Seq(X) /\ Range(s \o t) = Range(s) \cup Range(t)
<1> DEFINE u == s \o t
<1>1. /\ Len(s) \in Nat /\ Len(t) \in Nat /\ DOMAIN s = 1..Len(s) /\ DOMAIN t = 1..Len(t)
    BY LenProperties
<1>2. /\ u \in Seq(X) /\ Len(u) = Len(s) + Len(t)
      /\ \A i \in 1..(Len(s) + Len(t)) : u[i] = IF i <= Len(s) THEN s[i] ELSE t[i - Len(s)]
    BY ConcatProperties
<1> HIDE DEF u
<1>3. DOMAIN u = 1..(Len(s) + Len(t))
    BY <1>2, LenProperties
<1>4. ASSUME NEW i \in DOMAIN u
      PROVE  u[i] \in {s[j] : j \in DOMAIN s} \cup {t[j] : j \in DOMAIN t}
  <2>1. CASE i <= Len(s)
      BY <1>1, <1>2, <1>3, <2>1
  <2>2. CASE ~(i <= Len(s))
    <3>1. i - Len(s) \in DOMAIN t /\ u[i] = t[i - Len(s)]
        BY <1>1, <1>2, <1>3, <2>2
    <3> QED
        BY <3>1
  <2> QED
      BY <2>1, <2>2
<1>5. ASSUME NEW j \in DOMAIN s PROVE s[j] \in {u[i] : i \in DOMAIN u}
  <2>1. j \in DOMAIN u /\ u[j] = s[j]
      BY <1>1, <1>2, <1>3
  <2> QED
      BY <2>1
<1>6. ASSUME NEW j \in DOMAIN t PROVE t[j] \in {u[i] : i \in DOMAIN u}
  <2>1. Len(s) + j \in DOMAIN u /\ u[Len(s) + j] = t[j]
      BY <1>1, <1>2, <1>3
  <2> QED
      BY <2>1
<1>7. {u[i] : i \in DOMAIN u} = {s[i] : i \in DOMAIN s} \cup {t[i] : i \in DOMAIN t}
    BY <1>4, <1>5, <1>6
<1> QED
    BY <1>2, <1>7 DEF u, Range

(* The body has a part for every file that is sent, and no other. *)
LEMMA BodyParts ==
    ASSUME NEW c \in Calls, c.client # "other"
    PROVE  /\ Body(c) \in Seq(Part)
           /\ \A i \in DOMAIN Body(c) : \E k \in Key : \E f \in Sent(c, k) :
                Body(c)[i] = addFileToWriter(k, f)
           /\ \A k \in Key : \A f \in Sent(c, k) : \E i \in DOMAIN Body(c) :
                Body(c)[i] = addFileToWriter(k, f)
<1> DEFINE s == PartsOf(c, "migrations")
           t == PartsOf(c, "fixtures")
           b == Body(c)
<1>1. /\ s \in Seq(Part) /\ t \in Seq(Part)
      /\ {s[i] : i \in DOMAIN s} = {addFileToWriter("migrations", f) : f \in Sent(c, "migrations")}
      /\ {t[i] : i \in DOMAIN t} = {addFileToWriter("fixtures", f) : f \in Sent(c, "fixtures")}
    BY PartsOfKey DEF Key
<1>2. b = s \o t
    BY BodyIsParts
<1> HIDE DEF s, t, b
<1>3. b \in Seq(Part) /\ {b[i] : i \in DOMAIN b} = {s[i] : i \in DOMAIN s} \cup {t[i] : i \in DOMAIN t}
  <2>1. s \in Seq(Part) /\ t \in Seq(Part)
      BY <1>1
  <2>2. b \in Seq(Part) /\ Range(b) = Range(s) \cup Range(t)
      BY <1>2, <2>1, ConcatRange
  <2> QED
      BY <2>2 DEF Range
<1>4. {b[i] : i \in DOMAIN b}
        = {addFileToWriter("migrations", f) : f \in Sent(c, "migrations")}
            \cup {addFileToWriter("fixtures", f) : f \in Sent(c, "fixtures")}
    BY <1>1, <1>3
<1>5. ASSUME NEW i \in DOMAIN b
      PROVE  \E k \in Key : \E f \in Sent(c, k) : b[i] = addFileToWriter(k, f)
    BY <1>4 DEF Key
<1>6. ASSUME NEW k \in Key, NEW f \in Sent(c, k)
      PROVE  \E i \in DOMAIN b : b[i] = addFileToWriter(k, f)
  <2>1. addFileToWriter(k, f) \in {b[i] : i \in DOMAIN b}
      BY <1>4 DEF Key
  <2> QED
      BY <2>1
<1> QED
    BY <1>3, <1>5, <1>6 DEF b

(* Multipart parsing leaves the names of these parts as they are. *)
LEMMA BaseOfPart ==
    ASSUME NEW c \in Calls, NEW k \in Key, NEW f \in Sent(c, k)
    PROVE  LET p == addFileToWriter(k, f) IN [p EXCEPT !.name = Base(p.name)] = p
<1>1. f.name \in Name /\ f.name # <<>>
    BY SentFiles
<1> DEFINE e == PathEscape(f.name)
<1>2. e \in Name /\ e # <<>> /\ \A i \in 1..Len(e) : e[i] # Slash
    BY <1>1, EscapeRoundTrip
<1> HIDE DEF e
<1>3. Base(e) = e
    BY <1>2, BaseOfElement
<1>4. addFileToWriter(k, f) = [key |-> k, name |-> e, body |-> f.body]
    BY DEF addFileToWriter, e
<1> QED
    BY <1>3, <1>4

LEMMA ParsedBody ==
    ASSUME NEW c \in Calls, c.client # "other"
    PROVE  ParseMultipartForm(Body(c)) = Body(c)
<1> DEFINE b == Body(c)
<1>1. /\ b \in Seq(Part)
      /\ \A i \in DOMAIN b : \E k \in Key : \E f \in Sent(c, k) : b[i] = addFileToWriter(k, f)
    BY BodyParts
<1> HIDE DEF b
<1>2. \A i \in DOMAIN b : [b[i] EXCEPT !.name = Base(b[i].name)] = b[i]
    BY <1>1, BaseOfPart
<1>3. b = [i \in DOMAIN b |-> b[i]]
    BY <1>1
<1>4. [i \in DOMAIN b |-> [b[i] EXCEPT !.name = Base(b[i].name)]] = b
    BY <1>2, <1>3
<1> QED
    BY <1>4 DEF b, ParseMultipartForm

(* The part tells the file. *)
LEMMA PartIsOneFile ==
    ASSUME NEW c \in Calls, NEW k \in Key, NEW l \in Key, NEW f \in Sent(c, k), NEW g \in Sent(c, l),
           addFileToWriter(k, f) = addFileToWriter(l, g)
    PROVE  k = l /\ f = g
<1>1. k = l /\ PathEscape(f.name) = PathEscape(g.name)
    BY DEF addFileToWriter
<1>2. f.name \in Name /\ g.name \in Name
    BY SentFiles
<1>3. f.name = g.name
    BY <1>1, <1>2, EscapeRoundTrip
<1>4. Directory(Sent(c, k))
    BY SentFiles
<1> QED
    BY <1>1, <1>3, <1>4 DEF Directory

LEMMA SentOfDirectory ==
    ASSUME NEW c \in Calls, NEW k \in Key, c[k].kind = "dir"
    PROVE  /\ Sent(c, k) = {f \in c[k].files : k = "migrations" => f.name \in c.pattern}
           /\ \A f \in Sent(c, k) : f \in c[k].files /\ f.name \in Name /\ Proper(f.name)
    BY CallFields, SentFiles DEF Sent, Walked
=============================================================================
