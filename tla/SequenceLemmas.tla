--------------------------- MODULE SequenceLemmas ---------------------------
(***************************************************************************)
(* What FlattenSeq of SequencesExt computes, for sequences of any length.  *)
(*                                                                         *)
(* Induction is over sets of numbers: a set that has 0 and with every      *)
(* number the next one has all of them, because a set of numbers that is   *)
(* not empty has a least one.                                              *)
(***************************************************************************)
EXTENDS Integers, Sequences, SequencesExt, SequenceTheorems, WellFoundedInduction, TLAPS

LEMMA LeastNat ==
  ASSUME NEW T \in SUBSET Nat, T # {}
  PROVE  \E n \in T : \A m \in T : n <= m
<1>1. PICK n \in T : \A m \in T : <<m, n>> \notin OpToRel(<, Nat)
  BY NatLessThanWellFounded, WFMin
<1>2. \A m \in T : ~(m < n)
  BY <1>1 DEF OpToRel
<1> QED
  BY <1>2

LEMMA SetInduction ==
  ASSUME NEW T, 0 \in T, \A n \in Nat : n \in T => n + 1 \in T
  PROVE  Nat \subseteq T
<1> SUFFICES ASSUME Nat \ T # {} PROVE FALSE
  OBVIOUS
<1>1. PICK n \in Nat \ T : \A m \in Nat \ T : n <= m
  BY LeastNat
<1>2. n # 0 /\ n - 1 \in Nat /\ n - 1 \in T
  BY <1>1
<1> QED
  BY <1>1, <1>2

\* The associative law, as a predicate that is easy to instantiate.
Associates(a, b, c) == (a \o b) \o c = a \o (b \o c)

LEMMA ConcatAssociates ==
  ASSUME NEW S, NEW a \in Seq(S), NEW b \in Seq(S), NEW c \in Seq(S)
  PROVE  Associates(a, b, c)
BY ConcatAssociative DEF Associates

\* Two sequences in one.
LEMMA IsConcat ==
  ASSUME NEW S, NEW a \in Seq(S), NEW b \in Seq(S), NEW d \in Seq(S),
         Len(d) = Len(a) + Len(b),
         \A n \in 1 .. Len(a) : d[n] = a[n],
         \A n \in 1 .. Len(b) : d[Len(a) + n] = b[n]
  PROVE  d = a \o b
<1>1. Len(a) \in Nat /\ Len(b) \in Nat
  OBVIOUS
<1>2. /\ a \o b \in Seq(S)
      /\ Len(a \o b) = Len(a) + Len(b)
      /\ \A n \in 1 .. Len(a) + Len(b) :
           (a \o b)[n] = IF n <= Len(a) THEN a[n] ELSE b[n - Len(a)]
  BY ConcatProperties
<1>3. ASSUME NEW n \in 1 .. Len(d) PROVE d[n] = (a \o b)[n]
  <2>1. CASE n <= Len(a)
    <3>1. n \in 1 .. Len(a)
      BY <1>1, <2>1
    <3> QED
      BY <1>2, <2>1, <3>1
  <2>2. CASE ~(n <= Len(a))
    <3>1. n - Len(a) \in 1 .. Len(b) /\ Len(a) + (n - Len(a)) = n
      BY <1>1, <2>2
    <3>2. d[Len(a) + (n - Len(a))] = b[n - Len(a)]
      BY <3>1
    <3> QED
      BY <1>2, <2>2, <3>1, <3>2
  <2> QED
    BY <2>1, <2>2
<1> QED
  BY <1>2, <1>3, SeqEqual

-----------------------------------------------------------------------------
(* FlattenSeq is the last value of a recursive function.                   *)

\* f joins the first n members of ss.
Joins(f, ss, n) == \A i \in 1 .. n : f[i] = IF i = 1 THEN ss[i] ELSE f[i - 1] \o ss[i]

LEMMA JoinExists ==
  ASSUME NEW S, NEW ss \in Seq(Seq(S))
  PROVE  \E f \in [1 .. Len(ss) -> Seq(S)] : Joins(f, ss, Len(ss))
<1> DEFINE T == {n \in Nat : n <= Len(ss) => \E f \in [1 .. n -> Seq(S)] : Joins(f, ss, n)}
<1>1. Len(ss) \in Nat /\ \A i \in 1 .. Len(ss) : ss[i] \in Seq(S)
  BY LenProperties, ElementOfSeq
<1>2. 0 \in T
  <2>1. [i \in 1 .. 0 |-> <<>>] \in [1 .. 0 -> Seq(S)]
    OBVIOUS
  <2>2. Joins([i \in 1 .. 0 |-> <<>>], ss, 0)
    BY DEF Joins
  <2> QED
    BY <2>1, <2>2
<1>3. ASSUME NEW n \in Nat, n \in T PROVE n + 1 \in T
  <2> SUFFICES ASSUME n + 1 <= Len(ss)
               PROVE  \E f \in [1 .. n + 1 -> Seq(S)] : Joins(f, ss, n + 1)
    OBVIOUS
  <2>1. PICK f \in [1 .. n -> Seq(S)] : Joins(f, ss, n)
    BY <1>1, <1>3
  <2> DEFINE v == IF n = 0 THEN ss[1] ELSE f[n] \o ss[n + 1]
             g == [i \in 1 .. n + 1 |-> IF i = n + 1 THEN v ELSE f[i]]
  <2>2. ss[n + 1] \in Seq(S)
    BY <1>1
  <2>3. v \in Seq(S)
    <3>1. CASE n = 0
      BY <2>2, <3>1
    <3>2. CASE n # 0
      <4>1. f[n] \in Seq(S)
        BY <2>1, <3>2
      <4> QED
        BY <2>2, <3>2, <4>1, ConcatProperties
    <3> QED
      BY <3>1, <3>2
  <2> HIDE DEF v
  <2>4. g \in [1 .. n + 1 -> Seq(S)]
    BY <2>1, <2>3
  <2>5. ASSUME NEW i \in 1 .. n + 1
        PROVE  g[i] = IF i = 1 THEN ss[i] ELSE g[i - 1] \o ss[i]
    <3>1. CASE i \in 1 .. n
      <4>1. g[i] = f[i] /\ (i # 1 => g[i - 1] = f[i - 1])
        BY <3>1
      <4>2. f[i] = IF i = 1 THEN ss[i] ELSE f[i - 1] \o ss[i]
        BY <2>1, <3>1 DEF Joins
      <4> QED
        BY <4>1, <4>2
    <3>2. CASE i = n + 1
      <4>1. g[i] = v /\ (i # 1 => g[i - 1] = f[n]) /\ (i = 1 <=> n = 0)
        BY <3>2
      <4> QED
        BY <3>2, <4>1 DEF v
    <3> QED
      BY <3>1, <3>2
  <2>6. Joins(g, ss, n + 1)
    BY <2>5 DEF Joins
  <2> QED
    BY <2>4, <2>6
<1> HIDE DEF T
<1>4. Nat \subseteq T
  BY <1>2, <1>3, SetInduction
<1> QED
  BY <1>1, <1>4 DEF T

LEMMA JoinUnique ==
  ASSUME NEW ss, NEW n \in Nat, NEW f, NEW g, Joins(f, ss, n), Joins(g, ss, n)
  PROVE  \A i \in 1 .. n : f[i] = g[i]
<1> DEFINE T == {i \in Nat : i \in 1 .. n => f[i] = g[i]}
<1>1. 0 \in T
  OBVIOUS
<1>2. ASSUME NEW i \in Nat, i \in T PROVE i + 1 \in T
  <2> SUFFICES ASSUME i + 1 \in 1 .. n PROVE f[i + 1] = g[i + 1]
    OBVIOUS
  <2>1. /\ f[i + 1] = IF i + 1 = 1 THEN ss[i + 1] ELSE f[i + 1 - 1] \o ss[i + 1]
        /\ g[i + 1] = IF i + 1 = 1 THEN ss[i + 1] ELSE g[i + 1 - 1] \o ss[i + 1]
    BY DEF Joins
  <2>2. i + 1 - 1 = i
    OBVIOUS
  <2>3. i + 1 # 1 => f[i] = g[i]
    BY <1>2
  <2> QED
    BY <2>1, <2>2, <2>3
<1> HIDE DEF T
<1>3. Nat \subseteq T
  BY <1>1, <1>2, SetInduction
<1> QED
  BY <1>3 DEF T

LEMMA FlattenEmpty == FlattenSeq(<<>>) = <<>>
BY DEF FlattenSeq

LEMMA FlattenIsJoin ==
  ASSUME NEW S, NEW ss \in Seq(Seq(S)), ss # <<>>, NEW f, Joins(f, ss, Len(ss))
  PROVE  FlattenSeq(ss) = f[Len(ss)]
<1> DEFINE F(h) == [i \in 1 .. Len(ss) |-> IF i = 1 THEN ss[i] ELSE h[i - 1] \o ss[i]]
           c == CHOOSE h : h = F(h)
<1>1. Len(ss) \in Nat \ {0}
  BY EmptySeq
<1>2. PICK g \in [1 .. Len(ss) -> Seq(S)] : Joins(g, ss, Len(ss))
  BY JoinExists
<1>3. g = F(g)
  BY <1>2 DEF Joins
<1>4. c = F(c)
  BY <1>3
<1>5. Joins(c, ss, Len(ss))
  <2> HIDE DEF c
  <2> QED
    BY <1>4 DEF Joins
<1>6. FlattenSeq(ss) = c[Len(ss)]
  BY <1>1 DEF FlattenSeq
<1> HIDE DEF c
<1>7. c[Len(ss)] = f[Len(ss)]
  BY <1>1, <1>5, JoinUnique
<1> QED
  BY <1>6, <1>7

-----------------------------------------------------------------------------
(* FlattenSeq on sequences that are put together.                          *)

LEMMA FlattenType ==
  ASSUME NEW S, NEW ss \in Seq(Seq(S))
  PROVE  FlattenSeq(ss) \in Seq(S)
<1>1. CASE ss = <<>>
  BY <1>1, FlattenEmpty, EmptySeq
<1>2. CASE ss # <<>>
  <2>1. Len(ss) \in Nat \ {0}
    BY <1>2, EmptySeq
  <2>2. PICK f \in [1 .. Len(ss) -> Seq(S)] : Joins(f, ss, Len(ss))
    BY JoinExists
  <2>3. f[Len(ss)] \in Seq(S)
    <3>1. Len(ss) \in 1 .. Len(ss)
      BY <2>1
    <3> QED
      BY <2>2, <3>1
  <2> QED
    BY <1>2, <2>2, <2>3, FlattenIsJoin
<1> QED
  BY <1>1, <1>2

LEMMA FlattenAppend ==
  ASSUME NEW S, NEW ss \in Seq(Seq(S)), NEW s \in Seq(S)
  PROVE  FlattenSeq(Append(ss, s)) = FlattenSeq(ss) \o s
<1> DEFINE tt == Append(ss, s)
           n == Len(ss)
<1>1. /\ tt \in Seq(Seq(S)) /\ Len(tt) = n + 1 /\ n \in Nat
      /\ \A i \in 1 .. n : tt[i] = ss[i]
      /\ tt[n + 1] = s
      /\ tt # <<>>
  BY AppendProperties, LenProperties
<1> HIDE DEF tt
<1>2. PICK f \in [1 .. n + 1 -> Seq(S)] : Joins(f, tt, n + 1)
  <2>1. \E f \in [1 .. Len(tt) -> Seq(S)] : Joins(f, tt, Len(tt))
    BY <1>1, JoinExists, Zenon
  <2> QED
    BY <1>1, <2>1
<1>3. FlattenSeq(tt) = f[n + 1]
  BY <1>1, <1>2, FlattenIsJoin
<1>4. f[n + 1] = IF n + 1 = 1 THEN s ELSE f[n] \o s
  <2>1. ASSUME NEW m \in Nat, Joins(f, tt, m + 1)
        PROVE  f[m + 1] = IF m + 1 = 1 THEN tt[m + 1] ELSE f[m + 1 - 1] \o tt[m + 1]
    BY <2>1 DEF Joins
  <2>2. n + 1 - 1 = n
    BY <1>1
  <2> QED
    BY <1>1, <1>2, <2>1, <2>2
<1>5. CASE ss = <<>>
  <2>1. n = 0
    BY <1>5, EmptySeq
  <2>2. FlattenSeq(ss) \o s = s
    BY <1>5, FlattenEmpty, ConcatEmptySeq
  <2>3. n + 1 = 1
    BY <2>1
  <2> QED
    BY <1>3, <1>4, <2>2, <2>3 DEF tt
<1>6. CASE ss # <<>>
  <2>1. n # 0
    BY <1>6, EmptySeq
  <2>2. Joins(f, ss, n)
    <3> SUFFICES ASSUME NEW i \in 1 .. n
                 PROVE  f[i] = IF i = 1 THEN ss[i] ELSE f[i - 1] \o ss[i]
      BY DEF Joins
    <3>1. i \in 1 .. n + 1
      BY <1>1
    <3>2. f[i] = IF i = 1 THEN tt[i] ELSE f[i - 1] \o tt[i]
      BY <1>2, <3>1 DEF Joins
    <3> QED
      BY <1>1, <3>2
  <2>3. FlattenSeq(ss) = f[n]
    BY <1>6, <2>2, FlattenIsJoin
  <2>4. n + 1 # 1
    BY <1>1, <2>1
  <2> QED
    BY <1>3, <1>4, <2>3, <2>4 DEF tt
<1> QED
  BY <1>5, <1>6

LEMMA FlattenOne ==
  ASSUME NEW S, NEW s \in Seq(S)
  PROVE  FlattenSeq(<<s>>) = s
<1>1. <<>> \in Seq(Seq(S)) /\ Append(<<>>, s) = <<s>>
  OBVIOUS
<1>2. FlattenSeq(Append(<<>>, s)) = FlattenSeq(<<>>) \o s
  BY <1>1, FlattenAppend
<1>3. <<>> \o s = s
  BY ConcatEmptySeq
<1> QED
  BY <1>1, <1>2, <1>3, FlattenEmpty

LEMMA FlattenConcatStep ==
  ASSUME NEW S, NEW ss \in Seq(Seq(S)), NEW tt \in Seq(Seq(S)), NEW s \in Seq(S),
         FlattenSeq(ss \o tt) = FlattenSeq(ss) \o FlattenSeq(tt)
  PROVE  FlattenSeq(ss \o Append(tt, s)) = FlattenSeq(ss) \o FlattenSeq(Append(tt, s))
<1>1. ss \o tt \in Seq(Seq(S))
  BY ConcatProperties
<1>2. ss \o Append(tt, s) = Append(ss \o tt, s)
  <2>1. Append(tt, s) = tt \o <<s>> /\ <<s>> \in Seq(Seq(S))
    BY AppendIsConcat
  <2>2. ss \o (tt \o <<s>>) = (ss \o tt) \o <<s>>
    BY <2>1, ConcatAssociative
  <2> QED
    BY <1>1, <2>1, <2>2, AppendIsConcat
<1>3. FlattenSeq(Append(ss \o tt, s)) = (FlattenSeq(ss) \o FlattenSeq(tt)) \o s
  BY <1>1, FlattenAppend
<1>4. FlattenSeq(Append(tt, s)) = FlattenSeq(tt) \o s
  BY FlattenAppend
<1>5. FlattenSeq(ss) \in Seq(S) /\ FlattenSeq(tt) \in Seq(S)
  BY FlattenType
<1>6. (FlattenSeq(ss) \o FlattenSeq(tt)) \o s = FlattenSeq(ss) \o (FlattenSeq(tt) \o s)
  <2>1. Associates(FlattenSeq(ss), FlattenSeq(tt), s)
    BY <1>5, ConcatAssociates, Zenon
  <2> QED
    BY <2>1 DEF Associates
<1> QED
  BY <1>2, <1>3, <1>4, <1>6

LEMMA FlattenConcat ==
  ASSUME NEW S, NEW ss \in Seq(Seq(S)), NEW tt \in Seq(Seq(S))
  PROVE  FlattenSeq(ss \o tt) = FlattenSeq(ss) \o FlattenSeq(tt)
<1> DEFINE T == {n \in Nat : \A uu \in Seq(Seq(S)) :
                     Len(uu) = n => FlattenSeq(ss \o uu) = FlattenSeq(ss) \o FlattenSeq(uu)}
<1>1. 0 \in T
  <2> SUFFICES ASSUME NEW uu \in Seq(Seq(S)), Len(uu) = 0
               PROVE  FlattenSeq(ss \o uu) = FlattenSeq(ss) \o FlattenSeq(uu)
    OBVIOUS
  <2>1. uu = <<>>
    BY EmptySeq
  <2>2. ss \o uu = ss
    BY <2>1, ConcatEmptySeq
  <2>3. FlattenSeq(ss) \o <<>> = FlattenSeq(ss)
    BY FlattenType, ConcatEmptySeq
  <2> QED
    BY <2>1, <2>2, <2>3, FlattenEmpty
<1>2. ASSUME NEW n \in Nat, n \in T PROVE n + 1 \in T
  <2> SUFFICES ASSUME NEW uu \in Seq(Seq(S)), Len(uu) = n + 1
               PROVE  FlattenSeq(ss \o uu) = FlattenSeq(ss) \o FlattenSeq(uu)
    OBVIOUS
  <2>1. PICK vv \in Seq(Seq(S)), s \in Seq(S) : uu = Append(vv, s)
    <3>1. uu # <<>>
      BY EmptySeq
    <3> QED
      BY <3>1, SequenceEmptyOrAppend
  <2>2. Len(vv) = n
    <3>1. Len(uu) = Len(vv) + 1 /\ Len(vv) \in Nat
      BY <2>1, AppendProperties, LenProperties
    <3> QED
      BY <3>1
  <2>3. FlattenSeq(ss \o vv) = FlattenSeq(ss) \o FlattenSeq(vv)
    BY <1>2, <2>2
  <2> QED
    BY <2>1, <2>3, FlattenConcatStep
<1> HIDE DEF T
<1>3. Nat \subseteq T
  BY <1>1, <1>2, SetInduction
<1> QED
  BY <1>3, LenProperties DEF T

LEMMA FlattenHeadTail ==
  ASSUME NEW S, NEW ss \in Seq(Seq(S)), ss # <<>>
  PROVE  FlattenSeq(ss) = Head(ss) \o FlattenSeq(Tail(ss))
<1>1. Head(ss) \in Seq(S) /\ Tail(ss) \in Seq(Seq(S)) /\ <<Head(ss)>> \in Seq(Seq(S))
  OBVIOUS
<1>2. ss = <<Head(ss)>> \o Tail(ss)
  OBVIOUS
<1>3. FlattenSeq(<<Head(ss)>> \o Tail(ss)) = FlattenSeq(<<Head(ss)>>) \o FlattenSeq(Tail(ss))
  BY <1>1, FlattenConcat
<1> QED
  BY <1>1, <1>2, <1>3, FlattenOne

\* A sequence of sequences of length one.
LEMMA FlattenSingles ==
  ASSUME NEW S, NEW s \in Seq(S)
  PROVE  FlattenSeq([i \in 1 .. Len(s) |-> <<s[i]>>]) = s
<1> DEFINE T == {n \in Nat : \A t \in Seq(S) :
                     Len(t) = n => FlattenSeq([i \in 1 .. n |-> <<t[i]>>]) = t}
<1>1. 0 \in T
  <2> SUFFICES ASSUME NEW t \in Seq(S), Len(t) = 0
               PROVE  FlattenSeq([i \in 1 .. 0 |-> <<t[i]>>]) = t
    OBVIOUS
  <2>1. t = <<>>
    BY EmptySeq
  <2>2. [i \in 1 .. 0 |-> <<t[i]>>] = <<>>
    OBVIOUS
  <2> QED
    BY <2>1, <2>2, FlattenEmpty
<1>2. ASSUME NEW n \in Nat, n \in T PROVE n + 1 \in T
  <2> SUFFICES ASSUME NEW t \in Seq(S), Len(t) = n + 1
               PROVE  FlattenSeq([i \in 1 .. n + 1 |-> <<t[i]>>]) = t
    OBVIOUS
  <2>1. PICK u \in Seq(S), e \in S : t = Append(u, e)
    <3>1. t # <<>>
      BY EmptySeq
    <3> QED
      BY <3>1, SequenceEmptyOrAppend
  <2> DEFINE us == [i \in 1 .. n |-> <<u[i]>>]
  <2>2. /\ Len(u) = n /\ t[n + 1] = e
        /\ \A i \in 1 .. n : t[i] = u[i] /\ u[i] \in S
    <3>1. /\ Len(t) = Len(u) + 1 /\ Len(u) \in Nat
          /\ t[Len(u) + 1] = e /\ \A i \in 1 .. Len(u) : t[i] = u[i]
      BY <2>1, AppendProperties, LenProperties
    <3>2. Len(u) = n
      BY <3>1
    <3> QED
      BY <3>1, <3>2, ElementOfSeq
  <2>3. FlattenSeq(us) = u
    BY <1>2, <2>2
  <2>4. us \in Seq(Seq(S)) /\ Len(us) = n /\ <<e>> \in Seq(S)
    <3>1. \A i \in 1 .. n : <<u[i]>> \in Seq(S)
      BY <2>2
    <3> QED
      BY <3>1
  <2>5. [i \in 1 .. n + 1 |-> <<t[i]>>] = Append(us, <<e>>)
    BY <2>2, <2>4
  <2> HIDE DEF us
  <2>6. FlattenSeq(Append(us, <<e>>)) = u \o <<e>>
    BY <2>3, <2>4, FlattenAppend
  <2> QED
    BY <2>1, <2>5, <2>6, AppendIsConcat
<1> HIDE DEF T
<1>3. Nat \subseteq T
  BY <1>1, <1>2, SetInduction
<1> QED
  BY <1>3, LenProperties DEF T

\* A sequence of empty sequences.
LEMMA FlattenEmpties ==
  ASSUME NEW n \in Nat
  PROVE  FlattenSeq([i \in 1 .. n |-> <<>>]) = <<>>
<1> DEFINE T == {m \in Nat : FlattenSeq([i \in 1 .. m |-> <<>>]) = <<>>}
<1>1. 0 \in T
  <2>1. [i \in 1 .. 0 |-> <<>>] = <<>>
    OBVIOUS
  <2> QED
    BY <2>1, FlattenEmpty
<1>2. ASSUME NEW m \in Nat, m \in T PROVE m + 1 \in T
  <2> DEFINE ss == [i \in 1 .. m |-> <<>>]
  <2>1. ss \in Seq(Seq(Nat)) /\ Len(ss) = m /\ <<>> \in Seq(Nat)
    OBVIOUS
  <2>2. [i \in 1 .. m + 1 |-> <<>>] = Append(ss, <<>>)
    BY <2>1
  <2>3. FlattenSeq(ss) = <<>>
    BY <1>2
  <2> HIDE DEF ss
  <2>4. FlattenSeq(Append(ss, <<>>)) = <<>> \o <<>>
    BY <2>1, <2>3, FlattenAppend
  <2>5. <<>> \o <<>> = <<>>
    BY <2>1, ConcatEmptySeq
  <2>6. FlattenSeq([i \in 1 .. m + 1 |-> <<>>]) = <<>>
    BY <2>2, <2>4, <2>5, Zenon
  <2> QED
    BY <2>6
<1> HIDE DEF T
<1>3. Nat \subseteq T
  BY <1>1, <1>2, SetInduction
<1> QED
  BY <1>3 DEF T

-----------------------------------------------------------------------------
(* A sequence whose members are replaced by sequences.                     *)

IsMap(F, S, R) == F \in [S -> R]
Mapped(F, s) == [n \in 1 .. Len(s) |-> F[s[n]]]
FlatMap(F, s) == FlattenSeq(Mapped(F, s))

LEMMA MappedType ==
  ASSUME NEW S, NEW R, NEW F, IsMap(F, S, R), NEW s \in Seq(S)
  PROVE  /\ Mapped(F, s) \in Seq(R)
         /\ Len(Mapped(F, s)) = Len(s)
         /\ \A n \in 1 .. Len(s) : Mapped(F, s)[n] = F[s[n]]
<1>1. Len(s) \in Nat /\ \A n \in 1 .. Len(s) : F[s[n]] \in R
  BY LenProperties, ElementOfSeq DEF IsMap
<1> QED
  BY <1>1 DEF Mapped

LEMMA MappedConcat ==
  ASSUME NEW S, NEW R, NEW F, IsMap(F, S, R), NEW s \in Seq(S), NEW t \in Seq(S)
  PROVE  Mapped(F, s \o t) = Mapped(F, s) \o Mapped(F, t)
<1> DEFINE a == Mapped(F, s)
           b == Mapped(F, t)
           d == Mapped(F, s \o t)
<1>1. /\ s \o t \in Seq(S) /\ Len(s \o t) = Len(s) + Len(t)
      /\ Len(s) \in Nat /\ Len(t) \in Nat
      /\ \A n \in 1 .. Len(s) : (s \o t)[n] = s[n]
      /\ \A n \in 1 .. Len(t) : (s \o t)[Len(s) + n] = t[n]
  OBVIOUS
<1>2. /\ a \in Seq(R) /\ Len(a) = Len(s) /\ \A n \in 1 .. Len(s) : a[n] = F[s[n]]
      /\ b \in Seq(R) /\ Len(b) = Len(t) /\ \A n \in 1 .. Len(t) : b[n] = F[t[n]]
  BY MappedType
<1>3. /\ d \in Seq(R) /\ Len(d) = Len(s \o t)
      /\ \A n \in 1 .. Len(s \o t) : d[n] = F[(s \o t)[n]]
  <2>1. \A r \in Seq(S) : /\ Mapped(F, r) \in Seq(R) /\ Len(Mapped(F, r)) = Len(r)
                          /\ \A n \in 1 .. Len(r) : Mapped(F, r)[n] = F[r[n]]
    BY MappedType
  <2> QED
    BY <1>1, <2>1, Zenon
<1> HIDE DEF a, b, d
<1>4. Len(d) = Len(a) + Len(b)
  BY <1>1, <1>2, <1>3
<1>5. ASSUME NEW n \in 1 .. Len(a) PROVE d[n] = a[n]
  <2>1. n \in 1 .. Len(s) /\ n \in 1 .. Len(s \o t)
    BY <1>1, <1>2
  <2> QED
    BY <1>1, <1>2, <1>3, <2>1
<1>6. ASSUME NEW n \in 1 .. Len(b) PROVE d[Len(a) + n] = b[n]
  <2>1. n \in 1 .. Len(t) /\ Len(s) + n \in 1 .. Len(s \o t) /\ Len(a) + n = Len(s) + n
    BY <1>1, <1>2
  <2>2. d[Len(s) + n] = F[(s \o t)[Len(s) + n]]
    BY <1>3, <2>1
  <2>3. (s \o t)[Len(s) + n] = t[n]
    BY <1>1, <2>1
  <2> QED
    BY <1>2, <2>1, <2>2, <2>3
<1>7. d = a \o b
  BY <1>2, <1>3, <1>4, <1>5, <1>6, IsConcat
<1> QED
  BY <1>7 DEF a, b, d

LEMMA FlatMapType ==
  ASSUME NEW S, NEW R, NEW F, IsMap(F, S, Seq(R)), NEW s \in Seq(S)
  PROVE  FlatMap(F, s) \in Seq(R)
BY MappedType, FlattenType DEF FlatMap

LEMMA FlatMapEmpty ==
  ASSUME NEW F
  PROVE  FlatMap(F, <<>>) = <<>>
<1>1. Mapped(F, <<>>) = <<>>
  BY DEF Mapped
<1> QED
  BY <1>1, FlattenEmpty DEF FlatMap

LEMMA FlatMapOne ==
  ASSUME NEW S, NEW R, NEW F, IsMap(F, S, Seq(R)), NEW e \in S
  PROVE  FlatMap(F, <<e>>) = F[e]
<1>1. Mapped(F, <<e>>) = <<F[e]>>
  BY DEF Mapped
<1>2. F[e] \in Seq(R)
  BY DEF IsMap
<1> QED
  BY <1>1, <1>2, FlattenOne DEF FlatMap

LEMMA FlatMapConcat ==
  ASSUME NEW S, NEW R, NEW F, IsMap(F, S, Seq(R)), NEW s \in Seq(S), NEW t \in Seq(S)
  PROVE  FlatMap(F, s \o t) = FlatMap(F, s) \o FlatMap(F, t)
<1>1. Mapped(F, s) \in Seq(Seq(R)) /\ Mapped(F, t) \in Seq(Seq(R))
  BY MappedType
<1>2. Mapped(F, s \o t) = Mapped(F, s) \o Mapped(F, t)
  BY MappedConcat
<1> QED
  BY <1>1, <1>2, FlattenConcat DEF FlatMap

LEMMA FlatMapHeadTail ==
  ASSUME NEW S, NEW R, NEW F, IsMap(F, S, Seq(R)), NEW s \in Seq(S), s # <<>>
  PROVE  FlatMap(F, s) = F[Head(s)] \o FlatMap(F, Tail(s))
<1>1. Head(s) \in S /\ Tail(s) \in Seq(S) /\ <<Head(s)>> \in Seq(S)
  OBVIOUS
<1>2. s = <<Head(s)>> \o Tail(s)
  OBVIOUS
<1>3. FlatMap(F, <<Head(s)>> \o Tail(s)) = FlatMap(F, <<Head(s)>>) \o FlatMap(F, Tail(s))
  <2>1. \A h, t \in Seq(S) : FlatMap(F, h \o t) = FlatMap(F, h) \o FlatMap(F, t)
    BY FlatMapConcat
  <2> QED
    BY <1>1, <2>1
<1>4. FlatMap(F, <<Head(s)>>) = F[Head(s)]
  BY <1>1, FlatMapOne
<1> QED
  BY <1>2, <1>3, <1>4
=============================================================================
