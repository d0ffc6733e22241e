----------------------------- MODULE ListProofs -----------------------------
(***************************************************************************)
(* Lemmas about lists: induction over them, functions defined along them,  *)
(* what FlattenSeq and the filters made of it return.  The library states  *)
(* induction for operators, which the provers cannot instantiate, so here  *)
(* it is stated for sets.                                                  *)
(***************************************************************************)
EXTENDS Lists, SequenceTheorems, FiniteSetTheorems, WellFoundedInduction, TLAPS

(* The least element of a set of naturals, from their well-foundedness.    *)
Less == OpToRel(<, Nat)

LEMMA LeastNatural ==
  ASSUME NEW T \in SUBSET Nat, T # {}
  PROVE  \E x \in T : \A y \in T : x <= y
<1>1. IsWellFoundedOn(Less, Nat)
  BY NatLessThanWellFounded DEF OpToRel, Less
<1>2. \A x, y \in Nat : y < x => <<y, x>> \in Less
  BY DEF OpToRel, Less
<1>3. PICK x \in T : \A y \in T : ~(<<y, x>> \in Less)
  BY <1>1, WFMin
<1>4. ASSUME NEW y \in T PROVE x <= y
  <2>1. x \in Nat /\ y \in Nat /\ ~(y < x)
    BY <1>2, <1>3
  <2> QED
    BY <2>1
<1> QED
  BY <1>4

(* Induction up to a bound, for the naturals of a set.                     *)
LEMMA Induction ==
  ASSUME NEW n \in Nat, NEW T, 0 \in T, \A m \in 0..(n - 1) : m \in T => m + 1 \in T
  PROVE  \A m \in 0..n : m \in T
<1> DEFINE bad == (0..n) \ T
<1>1. CASE bad # {}
  <2>1. bad \in SUBSET Nat
    OBVIOUS
  <2>2. PICK m \in bad : \A k \in bad : m <= k
    BY <1>1, <2>1, LeastNatural
  <2>3. m \in 0..n /\ m # 0 /\ m - 1 \in 0..(n - 1) /\ m - 1 \in 0..n
        /\ ~(m <= m - 1) /\ (m - 1) + 1 = m
    BY <2>2
  <2>4. m - 1 \in T
    BY <2>2, <2>3
  <2>5. m \in T
    BY <2>3, <2>4
  <2> QED
    BY <2>2, <2>5
<1>2. CASE bad = {}
  BY <1>2
<1> QED
  BY <1>1, <1>2

(* Induction over the lists on a set, from the empty one by appending.     *)
LEMMA ListInduction ==
  ASSUME NEW S, NEW T, <<>> \in T,
         \A s \in Seq(S), x \in S : s \in T => Append(s, x) \in T
  PROVE  \A s \in Seq(S) : s \in T
<1> SUFFICES ASSUME NEW s \in Seq(S) PROVE s \in T
  OBVIOUS
<1> DEFINE n == Len(s)
           P == {m \in 0..n : SubSeq(s, 1, m) \in T}
<1>0. n \in Nat
  OBVIOUS
<1>1. SubSeq(s, 1, 0) = <<>>
  BY SubSeqEmpty
<1>2. 0 \in P
  <2>1. SubSeq(s, 1, 0) \in T
    BY <1>1, Zenon
  <2>2. 0 \in 0..n
    BY <1>0
  <2> QED
    BY <2>1, <2>2
<1>3. ASSUME NEW m \in 0..(n - 1), m \in P
      PROVE  m + 1 \in P
  <2>1. SubSeq(s, 1, m) \in Seq(S) /\ s[m + 1] \in S
    BY <1>0
  <2>2. SubSeq(s, 1, m + 1) = Append(SubSeq(s, 1, m), s[m + 1])
    BY <1>0
  <2>3. SubSeq(s, 1, m + 1) \in T
    BY <1>3, <2>1, <2>2
  <2> QED
    BY <1>0, <2>3
<1>4. \A m \in 0..n : m \in P
  <2> HIDE DEF P, n
  <2> QED
    BY <1>0, <1>2, <1>3, Induction
<1>5. n \in P
  <2>1. n \in 0..n
    BY <1>0
  <2> HIDE DEF P, n
  <2> QED
    BY <1>4, <2>1
<1>6. SubSeq(s, 1, n) = s
  BY SubSeqFull
<1> QED
  BY <1>5, <1>6, Zenon

(* A function along a list, defined by its first value and its steps.      *)
Along(h, n, base, step) == h[0] = base /\ \A i \in 1..n : h[i] = step[i][h[i - 1]]

LEMMA AlongExists ==
  ASSUME NEW n \in Nat, NEW D, NEW base \in D, NEW step \in [1..n -> [D -> D]]
  PROVE  \E h \in [0..n -> D] : Along(h, n, base, step)
<1> DEFINE P == {m \in 0..n : \E h \in [0..m -> D] : Along(h, m, base, step)}
<1>1. 0 \in P
  <2> DEFINE h == [i \in 0..0 |-> base]
  <2>1. h \in [0..0 -> D] /\ h[0] = base
    OBVIOUS
  <2>2. Along(h, 0, base, step)
    BY <2>1 DEF Along
  <2> QED
    BY <2>1, <2>2
<1>2. ASSUME NEW m \in 0..(n - 1), m \in P
      PROVE  m + 1 \in P
  <2>1. PICK h \in [0..m -> D] : Along(h, m, base, step)
    BY <1>2
  <2> DEFINE k == [i \in 0..(m + 1) |-> IF i = m + 1 THEN step[m + 1][h[m]] ELSE h[i]]
  <2>2. m + 1 \in 1..n /\ m \in 0..m /\ m + 1 \in 0..n
    OBVIOUS
  <2>3. step[m + 1] \in [D -> D] /\ h[m] \in D
    BY <2>2
  <2>4. step[m + 1][h[m]] \in D
    BY <2>3
  <2>5. \A i \in 0..(m + 1) : i = m + 1 \/ (i \in 0..m /\ i # m + 1)
    OBVIOUS
  <2>6. k \in [0..(m + 1) -> D]
    BY <2>4, <2>5
  <2>7. k[0] = base
    BY <2>1 DEF Along
  <2>8. ASSUME NEW i \in 1..(m + 1)
        PROVE  k[i] = step[i][k[i - 1]]
    <3>1. i \in 0..(m + 1) /\ i - 1 \in 0..(m + 1) /\ i - 1 # m + 1 /\ i - 1 \in 0..m
      OBVIOUS
    <3>2. k[i - 1] = h[i - 1]
      BY <3>1
    <3>3. CASE i = m + 1
      BY <3>1, <3>2, <3>3
    <3>4. CASE i # m + 1
      <4>1. i \in 1..m
        BY <3>4
      <4>2. k[i] = h[i]
        BY <3>1, <3>4
      <4> QED
        BY <2>1, <3>2, <4>1, <4>2 DEF Along
    <3> QED
      BY <3>3, <3>4
  <2> HIDE DEF k
  <2> QED
    BY <2>2, <2>6, <2>7, <2>8 DEF Along
<1>3. n \in P
  <2> HIDE DEF P
  <2>1. \A m \in 0..n : m \in P
    BY <1>1, <1>2, Induction
  <2> QED
    BY <2>1
<1> QED
  BY <1>3

(* Two functions that begin and go on alike are the same.                  *)
LEMMA AlongIsUnique ==
  ASSUME NEW n \in Nat, NEW base, NEW step, NEW h, NEW k,
         Along(h, n, base, step), Along(k, n, base, step)
  PROVE  \A i \in 0..n : h[i] = k[i]
<1> DEFINE P == {i \in 0..n : h[i] = k[i]}
<1>1. 0 \in P
  BY DEF Along
<1>2. ASSUME NEW m \in 0..(n - 1), m \in P
      PROVE  m + 1 \in P
  <2>1. m + 1 \in 1..n /\ m + 1 \in 0..n /\ (m + 1) - 1 = m
    OBVIOUS
  <2>2. h[m + 1] = step[m + 1][h[m]] /\ k[m + 1] = step[m + 1][k[m]]
    BY <2>1 DEF Along
  <2> QED
    BY <1>2, <2>1, <2>2
<1> HIDE DEF P
<1>3. \A m \in 0..n : m \in P
  BY <1>1, <1>2, Induction
<1> QED
  BY <1>3 DEF P

-----------------------------------------------------------------------------
(* Flattening a list of lists goes along it, one list after another.       *)
Joins(h, s) == h[0] = <<>> /\ \A i \in 1..Len(s) : h[i] = h[i - 1] \o s[i]

LEMMA JoinsExist ==
  ASSUME NEW S, NEW s \in Seq(Seq(S))
  PROVE  \E h \in [0..Len(s) -> Seq(S)] : Joins(h, s)
<1> DEFINE n == Len(s)
           step == [i \in 1..n |-> [m \in Seq(S) |-> m \o s[i]]]
<1>1. n \in Nat /\ <<>> \in Seq(S) /\ \A i \in 1..n : s[i] \in Seq(S)
  OBVIOUS
<1>2. step \in [1..n -> [Seq(S) -> Seq(S)]]
  BY <1>1
<1>3. PICK h \in [0..n -> Seq(S)] : Along(h, n, <<>>, step)
  <2> HIDE DEF step, n
  <2> QED
    BY <1>1, <1>2, AlongExists
<1>4. ASSUME NEW i \in 1..n
      PROVE  h[i] = h[i - 1] \o s[i]
  <2>1. i - 1 \in 0..n
    OBVIOUS
  <2>2. h[i - 1] \in Seq(S)
    BY <2>1
  <2>3. step[i][h[i - 1]] = h[i - 1] \o s[i]
    BY <2>2
  <2> QED
    BY <1>3, <2>3 DEF Along
<1> QED
  BY <1>3, <1>4 DEF Along, Joins

LEMMA FlattenIs ==
  ASSUME NEW S, NEW s \in Seq(Seq(S)), NEW h \in [0..Len(s) -> Seq(S)], Joins(h, s)
  PROVE  FlattenSeq(s) = h[Len(s)]
<1> DEFINE n == Len(s)
<1>0. n \in Nat /\ \A i \in 1..n : s[i] \in Seq(S)
  OBVIOUS
<1>1. CASE n = 0
  BY <1>1 DEF FlattenSeq, Joins
<1>2. CASE n # 0
  <2> DEFINE Is(g) == g = [i \in 1..n |-> IF i = 1 THEN s[i] ELSE g[i - 1] \o s[i]]
             k == [i \in 1..n |-> h[i]]
             chosen == CHOOSE g : Is(g)
  <2>1. h[1] = s[1]
    <3>1. 1 \in 1..n /\ 1 - 1 = 0
      BY <1>0, <1>2
    <3>2. h[1] = <<>> \o s[1] /\ s[1] \in Seq(S)
      BY <1>0, <3>1 DEF Joins
    <3> QED
      BY <3>2, ConcatEmptySeq
  <2>2. Is(k)
    <3>1. ASSUME NEW i \in 1..n
          PROVE  k[i] = IF i = 1 THEN s[i] ELSE k[i - 1] \o s[i]
      <4>1. CASE i = 1
        BY <2>1, <4>1
      <4>2. CASE i # 1
        <5>1. i - 1 \in 1..n
          BY <4>2
        <5>2. h[i] = h[i - 1] \o s[i]
          BY DEF Joins
        <5> QED
          BY <4>2, <5>1, <5>2
      <4> QED
        BY <4>1, <4>2
    <3>2. k = [i \in 1..n |-> k[i]]
      OBVIOUS
    <3> HIDE DEF k
    <3> QED
      BY <3>1, <3>2
  <2>3. Is(chosen)
    <3> HIDE DEF k, Is
    <3> QED
      BY <2>2
  <2>4. \A i \in 1..n : chosen[i] = IF i = 1 THEN s[i] ELSE chosen[i - 1] \o s[i]
    <3> HIDE DEF chosen
    <3> QED
      BY <2>3
  <2>5. \A m \in 0..(n - 1) : chosen[m + 1] = h[m + 1]
    <3> DEFINE P == {m \in 0..(n - 1) : chosen[m + 1] = h[m + 1]}
    <3> HIDE DEF chosen
    <3>1. 0 \in P
      BY <1>0, <1>2, <2>1, <2>4
    <3>2. ASSUME NEW m \in 0..((n - 1) - 1), m \in P
          PROVE  m + 1 \in P
      <4>1. m + 2 \in 1..n /\ m + 2 # 1 /\ (m + 2) - 1 = m + 1 /\ m + 1 \in 0..(n - 1)
            /\ (m + 1) + 1 = m + 2
        BY <1>0, <1>2
      <4>2. chosen[m + 2] = chosen[m + 1] \o s[m + 2]
        BY <2>4, <4>1
      <4>3. h[m + 2] = h[m + 1] \o s[m + 2]
        BY <4>1 DEF Joins
      <4> QED
        BY <3>2, <4>1, <4>2, <4>3
    <3>3. n - 1 \in Nat
      BY <1>0, <1>2
    <3> HIDE DEF P
    <3>4. \A m \in 0..(n - 1) : m \in P
      BY <3>1, <3>2, <3>3, Induction
    <3> QED
      BY <3>4 DEF P
  <2>6. FlattenSeq(s) = chosen[n]
    BY <1>2 DEF FlattenSeq
  <2>7. chosen[n] = h[n]
    <3>1. n - 1 \in 0..(n - 1) /\ (n - 1) + 1 = n
      BY <1>0, <1>2
    <3> HIDE DEF chosen
    <3> QED
      BY <2>5, <3>1
  <2> QED
    BY <2>6, <2>7
<1> QED
  BY <1>1, <1>2

LEMMA FlattenType ==
  ASSUME NEW S, NEW s \in Seq(Seq(S))
  PROVE  FlattenSeq(s) \in Seq(S)
<1>1. PICK h \in [0..Len(s) -> Seq(S)] : Joins(h, s)
  BY JoinsExist
<1>2. FlattenSeq(s) = h[Len(s)]
  BY <1>1, FlattenIs
<1>3. h[Len(s)] \in Seq(S)
  OBVIOUS
<1> QED
  BY <1>2, <1>3

LEMMA FlattenEmpty == FlattenSeq(<<>>) = <<>>
BY DEF FlattenSeq

LEMMA FlattenAppend ==
  ASSUME NEW S, NEW s \in Seq(Seq(S)), NEW x \in Seq(S)
  PROVE  FlattenSeq(Append(s, x)) = FlattenSeq(s) \o x
<1> DEFINE n == Len(s)
           t == Append(s, x)
<1>1. PICK h \in [0..n -> Seq(S)] : Joins(h, s)
  BY JoinsExist
<1>2. n \in Nat /\ t \in Seq(Seq(S)) /\ Len(t) = n + 1 /\ t[n + 1] = x
      /\ \A i \in 1..n : t[i] = s[i]
  OBVIOUS
<1> DEFINE k == [i \in 0..(n + 1) |-> IF i = n + 1 THEN h[n] \o x ELSE h[i]]
<1>3. h[n] \o x \in Seq(S)
  BY <1>2
<1>4. k \in [0..(n + 1) -> Seq(S)]
  BY <1>3
<1>5. k[0] = <<>> /\ k[n] = h[n] /\ k[n + 1] = h[n] \o x
  BY <1>1, <1>2 DEF Joins
<1>6. ASSUME NEW i \in 1..(n + 1)
      PROVE  k[i] = k[i - 1] \o t[i]
  <2>1. CASE i = n + 1
    <3>1. i - 1 = n
      BY <1>2, <2>1
    <3> HIDE DEF k, t, n
    <3> QED
      BY <1>2, <1>5, <2>1, <3>1
  <2>2. CASE i # n + 1
    <3>1. i \in 1..n /\ i - 1 \in 0..n
      BY <1>2, <2>2
    <3>2. h[i] = h[i - 1] \o s[i]
      BY <1>1, <3>1 DEF Joins
    <3>3. k[i] = h[i] /\ k[i - 1] = h[i - 1]
      BY <1>2, <3>1
    <3>4. t[i] = s[i]
      BY <1>2, <3>1
    <3> HIDE DEF k, t, n
    <3> QED
      BY <3>2, <3>3, <3>4
  <2> QED
    BY <2>1, <2>2
<1>7. Joins(k, t)
  <2> HIDE DEF k, t
  <2> QED
    BY <1>2, <1>5, <1>6 DEF Joins
<1>8. FlattenSeq(t) = k[n + 1]
  <2> HIDE DEF k, t
  <2> QED
    BY <1>2, <1>4, <1>7, FlattenIs
<1>9. FlattenSeq(s) = h[n]
  BY <1>1, FlattenIs
<1> QED
  BY <1>5, <1>8, <1>9

LEMMA ConcatAssoc ==
  ASSUME NEW S
  PROVE  \A a, b, c \in Seq(S) : (a \o b) \o c = a \o (b \o c)
BY ConcatAssociative

LEMMA FlattenConcat ==
  ASSUME NEW S, NEW s \in Seq(Seq(S)), NEW t \in Seq(Seq(S))
  PROVE  FlattenSeq(s \o t) = FlattenSeq(s) \o FlattenSeq(t)
<1> DEFINE T == {u \in Seq(Seq(S)) : FlattenSeq(s \o u) = FlattenSeq(s) \o FlattenSeq(u)}
<1>0. FlattenSeq(s) \in Seq(S)
  BY FlattenType
<1>1. <<>> \in T
  <2>1. s \o <<>> = s /\ FlattenSeq(s) \o <<>> = FlattenSeq(s)
    BY <1>0, ConcatEmptySeq
  <2>2. FlattenSeq(s \o <<>>) = FlattenSeq(s) \o FlattenSeq(<<>>)
    BY <2>1, FlattenEmpty, Zenon
  <2>3. <<>> \in Seq(Seq(S))
    OBVIOUS
  <2> QED
    BY <2>2, <2>3
<1>2. ASSUME NEW u \in Seq(Seq(S)), NEW x \in Seq(S), u \in T
      PROVE  Append(u, x) \in T
  <2>1. s \o Append(u, x) = Append(s \o u, x) /\ s \o u \in Seq(Seq(S))
        /\ Append(u, x) \in Seq(Seq(S))
    <3> DEFINE SS == Seq(S)
    <3>1. s \in Seq(SS) /\ u \in Seq(SS) /\ x \in SS
      OBVIOUS
    <3> HIDE DEF SS
    <3>2. s \o u \in Seq(SS) /\ Append(u, x) \in Seq(SS)
      BY ONLY <3>1
    <3>3. s \o Append(u, x) = Append(s \o u, x)
      BY ONLY <3>1
    <3> QED
      BY <3>2, <3>3 DEF SS
  <2>2. FlattenSeq(Append(s \o u, x)) = FlattenSeq(s \o u) \o x
    BY <2>1, FlattenAppend
  <2>3. FlattenSeq(Append(u, x)) = FlattenSeq(u) \o x
    BY FlattenAppend
  <2>4. (FlattenSeq(s) \o FlattenSeq(u)) \o x = FlattenSeq(s) \o (FlattenSeq(u) \o x)
    <3>1. FlattenSeq(u) \in Seq(S)
      BY FlattenType
    <3> DEFINE a == FlattenSeq(s)
               b == FlattenSeq(u)
    <3>2. a \in Seq(S) /\ b \in Seq(S) /\ x \in Seq(S)
      BY <1>0, <3>1
    <3> HIDE DEF a, b
    <3>4. (a \o b) \o x = a \o (b \o x)
      BY ONLY <3>2, ConcatAssociative, SMTT(30)
    <3> QED
      BY ONLY <3>4 DEF a, b
  <2>5. FlattenSeq(s \o Append(u, x)) = FlattenSeq(s) \o FlattenSeq(Append(u, x))
    BY <1>2, <2>1, <2>2, <2>3, <2>4
  <2> QED
    BY <2>1, <2>5
<1>3. t \in T
  <2> HIDE DEF T
  <2>1. \A u \in Seq(Seq(S)) : u \in T
    BY <1>1, <1>2, ListInduction
  <2> QED
    BY <2>1
<1> QED
  BY <1>3

-----------------------------------------------------------------------------
(* A filter, by what it does with the last element of a list.              *)
Pieces(s, at) == [i \in DOMAIN s |-> IF i \in at THEN <<s[i]>> ELSE <<>>]

LEMMA PiecesType ==
  ASSUME NEW S, NEW s \in Seq(S), NEW at
  PROVE  Pieces(s, at) \in Seq(Seq(S)) /\ Len(Pieces(s, at)) = Len(s)
<1>1. \A i \in 1..Len(s) : s[i] \in S /\ <<s[i]>> \in Seq(S)
  OBVIOUS
<1>2. DOMAIN s = 1..Len(s) /\ Len(s) \in Nat
  OBVIOUS
<1>3. Pieces(s, at) \in [1..Len(s) -> Seq(S)]
  BY <1>1, <1>2 DEF Pieces
<1> QED
  BY <1>2, <1>3

LEMMA KeptType ==
  ASSUME NEW S, NEW s \in Seq(S), NEW at
  PROVE  Kept(s, at) \in Seq(S)
<1>1. Kept(s, at) = FlattenSeq(Pieces(s, at))
  BY DEF Kept, Pieces
<1> QED
  BY <1>1, PiecesType, FlattenType

LEMMA KeptEmpty == \A at : Kept(<<>>, at) = <<>>
<1> SUFFICES ASSUME NEW at PROVE Kept(<<>>, at) = <<>>
  OBVIOUS
<1>1. Pieces(<<>>, at) = <<>>
  BY DEF Pieces
<1>2. Kept(<<>>, at) = FlattenSeq(Pieces(<<>>, at))
  BY DEF Kept, Pieces
<1> QED
  BY <1>1, <1>2, FlattenEmpty

LEMMA KeptAppend ==
  ASSUME NEW S, NEW s \in Seq(S), NEW x \in S, NEW at
  PROVE  Kept(Append(s, x), at) =
           IF Len(s) + 1 \in at THEN Append(Kept(s, at), x) ELSE Kept(s, at)
<1> DEFINE n == Len(s)
           t == Append(s, x)
           piece == IF n + 1 \in at THEN <<x>> ELSE <<>>
<1>1. /\ n \in Nat /\ DOMAIN s = 1..n /\ DOMAIN t = 1..(n + 1)
      /\ t[n + 1] = x /\ \A i \in 1..n : t[i] = s[i]
  OBVIOUS
<1>2. piece \in Seq(S)
  OBVIOUS
<1>3. Pieces(t, at) = Append(Pieces(s, at), piece)
  <2>1. Pieces(t, at) = [i \in 1..(n + 1) |-> IF i \in at THEN <<t[i]>> ELSE <<>>]
    BY <1>1 DEF Pieces
  <2>2. Pieces(s, at) = [i \in 1..n |-> IF i \in at THEN <<s[i]>> ELSE <<>>]
    BY <1>1 DEF Pieces
  <2> DEFINE u == Pieces(s, at)
  <2>3. u \in Seq(Seq(S)) /\ Len(u) = n
    BY PiecesType
  <2>4. \A i \in 1..n : u[i] = IF i \in at THEN <<s[i]>> ELSE <<>>
    BY <2>2
  <2> HIDE DEF u, piece, t
  <2> DEFINE v == Pieces(t, at)
             w == Append(u, piece)
  <2>5. v \in Seq(Seq(S)) /\ Len(v) = n + 1
    <3>1. t \in Seq(S) /\ Len(t) = n + 1
      BY DEF t
    <3> QED
      BY <3>1, PiecesType
  <2>6. /\ w \in Seq(Seq(S)) /\ Len(w) = n + 1
        /\ w[n + 1] = piece /\ \A i \in 1..n : w[i] = u[i]
    BY <1>1, <1>2, <2>3, AppendProperties
  <2>7. ASSUME NEW i \in 1..(n + 1)
        PROVE  v[i] = w[i]
    <3>1. v[i] = IF i \in at THEN <<t[i]>> ELSE <<>>
      BY <2>1
    <3>2. CASE i = n + 1
      BY <1>1, <2>6, <3>1, <3>2 DEF piece
    <3>3. CASE i # n + 1
      <4>1. i \in 1..n
        BY <1>1, <3>3
      <4>2. t[i] = s[i] /\ w[i] = u[i] /\ u[i] = IF i \in at THEN <<s[i]>> ELSE <<>>
        BY <1>1, <2>4, <2>6, <4>1
      <4> QED
        BY <3>1, <4>2
    <3> QED
      BY <3>2, <3>3
  <2>8. v = w
    <3> HIDE DEF v, w
    <3> QED
      BY <2>5, <2>6, <2>7, SeqEqual
  <2> QED
    BY <2>8 DEF u
<1>4. Kept(t, at) = FlattenSeq(Pieces(t, at)) /\ Kept(s, at) = FlattenSeq(Pieces(s, at))
  BY DEF Kept, Pieces
<1>5. FlattenSeq(Append(Pieces(s, at), piece)) = FlattenSeq(Pieces(s, at)) \o piece
  BY <1>2, PiecesType, FlattenAppend
<1>6. Kept(t, at) = Kept(s, at) \o piece
  BY <1>3, <1>4, <1>5
<1>7. Kept(s, at) \in Seq(S)
  BY KeptType
<1>8. Kept(s, at) \o <<>> = Kept(s, at) /\ Kept(s, at) \o <<x>> = Append(Kept(s, at), x)
  BY <1>7, ConcatEmptySeq, AppendIsConcat
<1> QED
  BY <1>6, <1>8

(* What is kept of the places of a slice is the slice.                     *)
LEMMA KeptSlice ==
  ASSUME NEW S, NEW s \in Seq(S), NEW at, NEW a \in Nat, NEW b \in Nat,
         a >= 1, b <= Len(s), a <= b + 1, at \cap DOMAIN s = a..b
  PROVE  Kept(s, at) = SubSeq(s, a, b)
<1> DEFINE P == {m \in 0..Len(s) : Kept(SubSeq(s, 1, m), at) =
                                    SubSeq(s, a, IF m < b THEN m ELSE b)}
<1>0. Len(s) \in Nat /\ DOMAIN s = 1..Len(s)
  OBVIOUS
<1>1. 0 \in P
  <2>1. SubSeq(s, 1, 0) = <<>> /\ SubSeq(s, a, IF 0 < b THEN 0 ELSE b) = <<>>
    BY SubSeqEmpty
  <2>2. Kept(SubSeq(s, 1, 0), at) = SubSeq(s, a, IF 0 < b THEN 0 ELSE b)
    BY <2>1, KeptEmpty, Zenon
  <2>3. 0 \in 0..Len(s)
    BY <1>0
  <2> QED
    BY <2>2, <2>3
<1>2. ASSUME NEW m \in 0..(Len(s) - 1), m \in P
      PROVE  m + 1 \in P
  <2> DEFINE t == SubSeq(s, 1, m)
             x == s[m + 1]
  <2>1. t \in Seq(S) /\ Len(t) = m /\ x \in S /\ m + 1 \in 0..Len(s) /\ m + 1 \in DOMAIN s
    BY <1>0
  <2>2. SubSeq(s, 1, m + 1) = Append(t, x)
    BY <1>0
  <2>3. Kept(Append(t, x), at) = IF m + 1 \in at THEN Append(Kept(t, at), x) ELSE Kept(t, at)
    <3> HIDE DEF t, x
    <3> QED
      BY <2>1, KeptAppend
  <2>4. Kept(t, at) = SubSeq(s, a, IF m < b THEN m ELSE b)
    BY <1>2
  <2>5. m + 1 \in at <=> m + 1 \in a..b
    BY <2>1
  <2>6. CASE m + 1 \in a..b
    <3>1. m < b /\ (IF m + 1 < b THEN m + 1 ELSE b) = m + 1 /\ a <= m + 1
      BY <2>6
    <3>2. SubSeq(s, a, m + 1) = Append(SubSeq(s, a, m), x)
      BY <1>0, <2>1, <3>1
    <3>3. Kept(SubSeq(s, 1, m + 1), at) = SubSeq(s, a, m + 1)
      BY <2>2, <2>3, <2>4, <2>5, <2>6, <3>1, <3>2
    <3> QED
      BY <2>1, <3>1, <3>3
  <2>7. CASE m + 1 \notin a..b
    <3>1. Kept(SubSeq(s, 1, m + 1), at) = SubSeq(s, a, IF m < b THEN m ELSE b)
      BY <2>2, <2>3, <2>4, <2>5, <2>7
    <3>2. CASE m < b
      <4>1. m + 1 < a /\ m < a /\ m + 1 <= b
        BY <2>7, <3>2
      <4>2. SubSeq(s, a, m) = <<>> /\ SubSeq(s, a, m + 1) = <<>>
        BY <4>1, SubSeqEmpty
      <4>3. (IF m + 1 < b THEN m + 1 ELSE b) = m + 1
        BY <4>1
      <4>4. Kept(SubSeq(s, 1, m + 1), at) = SubSeq(s, a, IF m + 1 < b THEN m + 1 ELSE b)
        BY <3>1, <3>2, <4>2, <4>3, Zenon
      <4> QED
        BY <2>1, <4>4
    <3>3. CASE ~(m < b)
      <4>1. (IF m + 1 < b THEN m + 1 ELSE b) = b
        BY <3>3
      <4> QED
        BY <2>1, <3>1, <3>3, <4>1
    <3> QED
      BY <3>2, <3>3
  <2> QED
    BY <2>6, <2>7
<1>3. Len(s) \in P
  <2> HIDE DEF P
  <2>1. \A m \in 0..Len(s) : m \in P
    BY <1>0, <1>1, <1>2, Induction
  <2> QED
    BY <1>0, <2>1
<1>4. (IF Len(s) < b THEN Len(s) ELSE b) = b
  <2>1. ~(Len(s) < b)
    BY <1>0
  <2> QED
    BY <2>1, Zenon
<1>5. SubSeq(s, 1, Len(s)) = s
  BY SubSeqFull
<1> QED
  BY <1>3, <1>4, <1>5

LEMMA KeptPrefix ==
  ASSUME NEW S, NEW s \in Seq(S), NEW at, NEW b \in Nat,
         b <= Len(s), at \cap DOMAIN s = 1..b
  PROVE  Kept(s, at) = SubSeq(s, 1, b)
<1>1. ASSUME NEW a \in Nat, a = 1
      PROVE  Kept(s, at) = SubSeq(s, a, b)
  <2>1. a >= 1 /\ a <= b + 1 /\ at \cap DOMAIN s = a..b
    BY <1>1
  <2> QED
    BY <2>1, KeptSlice, Zenon
<1> QED
  BY <1>1

LEMMA KeptAll ==
  ASSUME NEW S, NEW s \in Seq(S), NEW at, DOMAIN s \subseteq at
  PROVE  Kept(s, at) = s
<1>1. Len(s) \in Nat /\ DOMAIN s = 1..Len(s) /\ Len(s) <= Len(s)
  OBVIOUS
<1>2. at \cap DOMAIN s = 1..Len(s)
  BY <1>1
<1>3. Kept(s, at) = SubSeq(s, 1, Len(s))
  BY <1>1, <1>2, KeptPrefix
<1> QED
  BY <1>3, SubSeqFull

LEMMA KeptNone ==
  ASSUME NEW S, NEW s \in Seq(S), NEW at, at \cap DOMAIN s = {}
  PROVE  Kept(s, at) = <<>>
<1>1. 0 \in Nat /\ 0 <= Len(s) /\ 1..0 = {}
  OBVIOUS
<1>2. at \cap DOMAIN s = 1..0
  BY <1>1
<1>3. Kept(s, at) = SubSeq(s, 1, 0)
  BY <1>1, <1>2, KeptPrefix
<1>4. SubSeq(s, 1, 0) = <<>>
  OBVIOUS
<1> QED
  BY <1>3, <1>4

(* What is kept are the elements at the places, and nothing else.          *)
LEMMA KeptElements ==
  ASSUME NEW S, NEW s \in Seq(S), NEW at
  PROVE  /\ \A j \in DOMAIN Kept(s, at) :
              \E i \in DOMAIN s : i \in at /\ Kept(s, at)[j] = s[i]
         /\ \A i \in DOMAIN s : i \in at => \E j \in DOMAIN Kept(s, at) : Kept(s, at)[j] = s[i]
<1> DEFINE From(u, k) == \A j \in DOMAIN k : \E i \in DOMAIN u : i \in at /\ k[j] = u[i]
           To(u, k) == \A i \in DOMAIN u : i \in at => \E j \in DOMAIN k : k[j] = u[i]
           T == {u \in Seq(S) : From(u, Kept(u, at)) /\ To(u, Kept(u, at))}
<1>1. <<>> \in T
  <2>1. From(<<>>, <<>>) /\ To(<<>>, <<>>)
    OBVIOUS
  <2> HIDE DEF From, To
  <2> QED
    BY <2>1, KeptEmpty
<1>2. ASSUME NEW u \in Seq(S), NEW x \in S, u \in T
      PROVE  Append(u, x) \in T
  <2> DEFINE n == Len(u)
             v == Append(u, x)
             k == Kept(u, at)
             m == Kept(v, at)
  <2>1. /\ v \in Seq(S) /\ Len(v) = n + 1 /\ v[n + 1] = x /\ n \in Nat
        /\ DOMAIN v = 1..(n + 1) /\ DOMAIN u = 1..n
        /\ \A i \in 1..n : v[i] = u[i]
    BY AppendProperties
  <2>2. k \in Seq(S) /\ m = IF n + 1 \in at THEN Append(k, x) ELSE k
    BY KeptType, KeptAppend
  <2>3. From(u, k) /\ To(u, k)
    BY <1>2
  <2> HIDE DEF v, k, m, n
  <2>4. CASE n + 1 \in at
    <3>1. /\ DOMAIN m = 1..(Len(k) + 1) /\ DOMAIN k = 1..Len(k) /\ Len(k) \in Nat
          /\ m[Len(k) + 1] = x /\ \A j \in 1..Len(k) : m[j] = k[j]
      BY <2>2, <2>4
    <3>2. From(v, m)
      <4> SUFFICES ASSUME NEW j \in DOMAIN m
                   PROVE  \E i \in DOMAIN v : i \in at /\ m[j] = v[i]
        OBVIOUS
      <4>1. CASE j = Len(k) + 1
        <5>1. n + 1 \in DOMAIN v /\ n + 1 \in at /\ m[j] = v[n + 1]
          BY <2>1, <2>4, <3>1, <4>1
        <5> QED
          BY <5>1
      <4>2. CASE j # Len(k) + 1
        <5>1. j \in DOMAIN k /\ m[j] = k[j]
          BY <3>1, <4>2
        <5>2. PICK i \in DOMAIN u : i \in at /\ k[j] = u[i]
          BY <2>3, <5>1
        <5>3. i \in DOMAIN v /\ v[i] = u[i]
          BY <2>1
        <5> QED
          BY <5>1, <5>2, <5>3
      <4> QED
        BY <4>1, <4>2
    <3>3. To(v, m)
      <4> SUFFICES ASSUME NEW i \in DOMAIN v, i \in at
                   PROVE  \E j \in DOMAIN m : m[j] = v[i]
        OBVIOUS
      <4>1. CASE i = n + 1
        <5>1. Len(k) + 1 \in DOMAIN m /\ m[Len(k) + 1] = v[i]
          BY <2>1, <3>1, <4>1
        <5> QED
          BY <5>1
      <4>2. CASE i # n + 1
        <5>1. i \in DOMAIN u /\ v[i] = u[i]
          BY <2>1, <4>2
        <5>2. PICK j \in DOMAIN k : k[j] = u[i]
          BY <2>3, <5>1
        <5>3. j \in DOMAIN m /\ m[j] = k[j]
          BY <3>1
        <5> QED
          BY <5>1, <5>2, <5>3
      <4> QED
        BY <4>1, <4>2
    <3> QED
      BY <2>1, <3>2, <3>3 DEF m, v
  <2>5. CASE n + 1 \notin at
    <3>1. m = k
      BY <2>2, <2>5
    <3>2. From(v, k)
      <4> SUFFICES ASSUME NEW j \in DOMAIN k
                   PROVE  \E i \in DOMAIN v : i \in at /\ k[j] = v[i]
        OBVIOUS
      <4>1. PICK i \in DOMAIN u : i \in at /\ k[j] = u[i]
        BY <2>3
      <4>2. i \in DOMAIN v /\ v[i] = u[i]
        BY <2>1
      <4> QED
        BY <4>1, <4>2
    <3>3. To(v, k)
      <4> SUFFICES ASSUME NEW i \in DOMAIN v, i \in at
                   PROVE  \E j \in DOMAIN k : k[j] = v[i]
        OBVIOUS
      <4>1. i \in DOMAIN u /\ v[i] = u[i]
        BY <2>1, <2>5
      <4> QED
        BY <2>3, <4>1
    <3> QED
      BY <2>1, <3>1, <3>2, <3>3 DEF m, v
  <2> QED
    BY <2>4, <2>5
<1>3. s \in T
  <2> HIDE DEF T
  <2>1. \A u \in Seq(S) : u \in T
    BY <1>1, <1>2, ListInduction
  <2> QED
    BY <2>1
<1> QED
  BY <1>3

(* What is kept of a list without repetitions is without repetitions.      *)
Distinct(s) == \A i, j \in DOMAIN s : s[i] = s[j] => i = j

LEMMA KeptDistinct ==
  ASSUME NEW S, NEW s \in Seq(S), NEW at, Distinct(s)
  PROVE  Distinct(Kept(s, at))
<1> DEFINE T == {u \in Seq(S) : Distinct(u) => Distinct(Kept(u, at))}
<1>1. <<>> \in T
  BY KeptEmpty DEF Distinct
<1>2. ASSUME NEW u \in Seq(S), NEW x \in S, u \in T
      PROVE  Append(u, x) \in T
  <2> DEFINE n == Len(u)
             v == Append(u, x)
             k == Kept(u, at)
             m == Kept(v, at)
  <2> SUFFICES ASSUME Distinct(v) PROVE Distinct(m)
    OBVIOUS
  <2>1. /\ v \in Seq(S) /\ Len(v) = n + 1 /\ v[n + 1] = x /\ n \in Nat
        /\ DOMAIN v = 1..(n + 1) /\ DOMAIN u = 1..n
        /\ \A i \in 1..n : v[i] = u[i]
    BY AppendProperties
  <2>2. k \in Seq(S) /\ m = IF n + 1 \in at THEN Append(k, x) ELSE k
    BY KeptType, KeptAppend
  <2>3. \A j \in DOMAIN k : \E i \in DOMAIN u : k[j] = u[i]
    BY KeptElements
  <2> HIDE DEF v, k, m, n
  <2>4. Distinct(u) /\ \A i \in DOMAIN u : u[i] # x
    <3>1. \A i \in DOMAIN u : i \in DOMAIN v /\ v[i] = u[i] /\ i # n + 1
      BY <2>1
    <3>2. n + 1 \in DOMAIN v
      BY <2>1
    <3> QED
      BY <2>1, <3>1, <3>2 DEF Distinct
  <2>5. Distinct(k)
    BY <1>2, <2>4 DEF k
  <2>6. \A j \in DOMAIN k : k[j] # x
    BY <2>3, <2>4
  <2>7. CASE n + 1 \in at
    <3>1. /\ DOMAIN m = 1..(Len(k) + 1) /\ DOMAIN k = 1..Len(k) /\ Len(k) \in Nat
          /\ m[Len(k) + 1] = x /\ \A j \in 1..Len(k) : m[j] = k[j]
      BY <2>2, <2>7
    <3>2. \A j \in DOMAIN m : j = Len(k) + 1 \/ j \in DOMAIN k
      BY <3>1
    <3> QED
      BY <2>5, <2>6, <3>1, <3>2 DEF Distinct
  <2>8. CASE n + 1 \notin at
    BY <2>2, <2>5, <2>8
  <2> QED
    BY <2>7, <2>8
<1>3. s \in T
  <2> HIDE DEF T
  <2>1. \A u \in Seq(S) : u \in T
    BY <1>1, <1>2, ListInduction
  <2> QED
    BY <2>1
<1> QED
  BY <1>3

-----------------------------------------------------------------------------
(* The list of a finite set has each of its elements once.                 *)
LEMMA SetToSeqLists ==
  ASSUME NEW S, IsFiniteSet(S)
  PROVE  /\ SetToSeq(S) \in Seq(S) /\ Len(SetToSeq(S)) = Cardinality(S)
         /\ Distinct(SetToSeq(S))
         /\ \A x \in S : \E i \in DOMAIN SetToSeq(S) : SetToSeq(S)[i] = x
<1> DEFINE n == Cardinality(S)
           s == SetToSeq(S)
<1>1. n \in Nat /\ ExistsBijection(1..n, S)
  BY FS_CardinalityType
<1>2. PICK f : f \in Bijection(1..n, S)
  BY <1>1 DEF ExistsBijection
<1>3. f \in [1..n -> S] /\ IsInjective(f)
  BY <1>2 DEF Bijection, Injection
<1>4. s \in [1..n -> S] /\ IsInjective(s)
  BY <1>3 DEF SetToSeq
<1> HIDE DEF n, s
<1>5. s \in Seq(S) /\ Len(s) = n /\ DOMAIN s = 1..n
  BY <1>1, <1>4
<1>6. Distinct(s)
  BY <1>4 DEF IsInjective, Distinct
<1>7. s \in Surjection(1..n, S)
  <2>1. s \in Injection(1..n, S)
    BY <1>4 DEF Injection
  <2>2. Cardinality(1..n) = n
    <3>1. Cardinality(1..n) = IF 1 > n THEN 0 ELSE n - 1 + 1
      BY <1>1, FS_Interval
    <3> QED
      BY <1>1, <3>1
  <2> QED
    BY <2>1, <2>2, FS_Injection DEF n
<1>8. \A x \in S : \E i \in 1..n : s[i] = x
  BY <1>7 DEF Surjection
<1> QED
  BY <1>5, <1>6, <1>8 DEF s, n

(* The values of a function on a finite set are finitely many.             *)
LEMMA FiniteImage ==
  ASSUME NEW S, IsFiniteSet(S), NEW f
  PROVE  IsFiniteSet({f[x] : x \in S})
<1> DEFINE T == {f[x] : x \in S}
           g == [x \in S |-> f[x]]
<1>1. g \in Surjection(S, T)
  BY DEF Surjection
<1> HIDE DEF g, T
<1>2. IsFiniteSet(T)
  BY <1>1, FS_Surjection
<1> QED
  BY <1>2 DEF T
-----------------------------------------------------------------------------
(* A filter by the elements rather than by their places.                   *)
Those(s, P) == Kept(s, {i \in DOMAIN s : s[i] \in P})

LEMMA KeptSame ==
  ASSUME NEW s, NEW at, NEW bt, at \cap DOMAIN s = bt \cap DOMAIN s
  PROVE  Kept(s, at) = Kept(s, bt)
<1>1. \A i \in DOMAIN s : i \in at <=> i \in bt
  OBVIOUS
<1>2. [i \in DOMAIN s |-> IF i \in at THEN <<s[i]>> ELSE <<>>]
      = [i \in DOMAIN s |-> IF i \in bt THEN <<s[i]>> ELSE <<>>]
  BY <1>1, Zenon
<1> QED
  BY <1>2, Zenon DEF Kept

LEMMA ThoseType ==
  ASSUME NEW S, NEW s \in Seq(S), NEW P
  PROVE  Those(s, P) \in Seq(S)
BY KeptType DEF Those

LEMMA ThoseEmpty == \A P : Those(<<>>, P) = <<>>
BY KeptEmpty DEF Those

LEMMA ThoseAppend ==
  ASSUME NEW S, NEW s \in Seq(S), NEW x \in S, NEW P
  PROVE  Those(Append(s, x), P) = IF x \in P THEN Append(Those(s, P), x) ELSE Those(s, P)
<1> DEFINE t == Append(s, x)
           at == {i \in DOMAIN t : t[i] \in P}
<1>1. /\ DOMAIN s = 1..Len(s) /\ DOMAIN t = 1..(Len(s) + 1) /\ Len(s) \in Nat
      /\ t[Len(s) + 1] = x /\ \A i \in 1..Len(s) : t[i] = s[i]
  OBVIOUS
<1> HIDE DEF t
<1>2. at \cap DOMAIN s = {i \in DOMAIN s : s[i] \in P} \cap DOMAIN s
  BY <1>1
<1>3. Kept(s, at) = Those(s, P)
  BY <1>2, KeptSame, Zenon DEF Those
<1>4. Len(s) + 1 \in at <=> x \in P
  BY <1>1
<1>5. Those(t, P) = Kept(t, at)
  BY DEF Those
<1> HIDE DEF at
<1>6. Kept(t, at) = IF Len(s) + 1 \in at THEN Append(Kept(s, at), x) ELSE Kept(s, at)
  BY KeptAppend DEF t
<1> QED
  BY <1>3, <1>4, <1>5, <1>6 DEF t

LEMMA ThoseOne ==
  ASSUME NEW S, NEW x \in S, NEW P
  PROVE  Those(<<x>>, P) = IF x \in P THEN <<x>> ELSE <<>>
<1>1. <<x>> = Append(<<>>, x) /\ <<>> \in Seq(S)
  OBVIOUS
<1>2. Those(Append(<<>>, x), P) = IF x \in P THEN Append(Those(<<>>, P), x) ELSE Those(<<>>, P)
  BY <1>1, ThoseAppend
<1>3. Those(<<>>, P) = <<>>
  BY ThoseEmpty
<1> QED
  BY <1>1, <1>2, <1>3, Zenon

LEMMA ThoseConcat ==
  ASSUME NEW S, NEW s \in Seq(S), NEW t \in Seq(S), NEW P
  PROVE  Those(s \o t, P) = Those(s, P) \o Those(t, P)
<1> DEFINE T == {u \in Seq(S) : Those(s \o u, P) = Those(s, P) \o Those(u, P)}
<1>0. Those(s, P) \in Seq(S)
  BY ThoseType
<1>1. <<>> \in T
  <2>1. s \o <<>> = s /\ Those(s, P) \o <<>> = Those(s, P)
    BY <1>0, ConcatEmptySeq
  <2>2. Those(s \o <<>>, P) = Those(s, P) \o Those(<<>>, P)
    BY <2>1, ThoseEmpty, Zenon
  <2>3. <<>> \in Seq(S)
    OBVIOUS
  <2> QED
    BY <2>2, <2>3
<1>2. ASSUME NEW u \in Seq(S), NEW x \in S, u \in T
      PROVE  Append(u, x) \in T
  <2>1. s \o Append(u, x) = Append(s \o u, x) /\ s \o u \in Seq(S) /\ Append(u, x) \in Seq(S)
    OBVIOUS
  <2>2. Those(s \o u, P) = Those(s, P) \o Those(u, P) /\ Those(u, P) \in Seq(S)
    BY <1>2, ThoseType
  <2>3. Those(Append(s \o u, x), P)
          = IF x \in P THEN Append(Those(s \o u, P), x) ELSE Those(s \o u, P)
    BY <2>1, ThoseAppend
  <2>4. Those(Append(u, x), P) = IF x \in P THEN Append(Those(u, P), x) ELSE Those(u, P)
    BY ThoseAppend
  <2>5. \A a, b \in Seq(S) : a \o Append(b, x) = Append(a \o b, x)
    OBVIOUS
  <2>6. Those(s, P) \o Append(Those(u, P), x) = Append(Those(s, P) \o Those(u, P), x)
    BY <1>0, <2>2, <2>5
  <2>7. Those(s \o Append(u, x), P) = Those(s, P) \o Those(Append(u, x), P)
    <3>1. CASE x \in P
      BY <2>1, <2>2, <2>3, <2>4, <2>6, <3>1, Zenon
    <3>2. CASE x \notin P
      BY <2>1, <2>2, <2>3, <2>4, <3>2, Zenon
    <3> QED
      BY <3>1, <3>2
  <2> QED
    BY <2>1, <2>7
<1>3. t \in T
  <2> HIDE DEF T
  <2>1. \A u \in Seq(S) : u \in T
    BY <1>1, <1>2, ListInduction
  <2> QED
    BY <2>1
<1> QED
  BY <1>3

(* What is kept of what is kept.                                           *)
LEMMA ThoseThose ==
  ASSUME NEW S, NEW s \in Seq(S), NEW P, NEW Q
  PROVE  Those(Those(s, Q), P) = Those(s, Q \cap P)
<1> DEFINE T == {u \in Seq(S) : Those(Those(u, Q), P) = Those(u, Q \cap P)}
<1>1. <<>> \in T
  <2>1. <<>> \in Seq(S)
    OBVIOUS
  <2>2. Those(Those(<<>>, Q), P) = Those(<<>>, Q \cap P)
    BY ThoseEmpty, Zenon
  <2> QED
    BY <2>1, <2>2
<1>2. ASSUME NEW u \in Seq(S), NEW x \in S, u \in T
      PROVE  Append(u, x) \in T
  <2>1. Those(u, Q) \in Seq(S) /\ Append(u, x) \in Seq(S)
    BY ThoseType
  <2>2. Those(Append(u, x), Q) = IF x \in Q THEN Append(Those(u, Q), x) ELSE Those(u, Q)
    BY ThoseAppend
  <2>3. Those(Append(Those(u, Q), x), P)
          = IF x \in P THEN Append(Those(Those(u, Q), P), x) ELSE Those(Those(u, Q), P)
    BY <2>1, ThoseAppend
  <2>4. Those(Append(u, x), Q \cap P)
          = IF x \in Q \cap P THEN Append(Those(u, Q \cap P), x) ELSE Those(u, Q \cap P)
    BY ThoseAppend
  <2>5. Those(Those(u, Q), P) = Those(u, Q \cap P)
    BY <1>2
  <2>6. x \in Q \cap P <=> x \in Q /\ x \in P
    OBVIOUS
  <2>7. Those(Those(Append(u, x), Q), P) = Those(Append(u, x), Q \cap P)
    <3>1. CASE x \in Q /\ x \in P
      BY <2>2, <2>3, <2>4, <2>5, <2>6, <3>1, Zenon
    <3>2. CASE x \in Q /\ x \notin P
      BY <2>2, <2>3, <2>4, <2>5, <2>6, <3>2, Zenon
    <3>3. CASE x \notin Q
      BY <2>2, <2>4, <2>5, <2>6, <3>3, Zenon
    <3> QED
      BY <3>1, <3>2, <3>3
  <2> QED
    BY <2>1, <2>7
<1>3. s \in T
  <2> HIDE DEF T
  <2>1. \A u \in Seq(S) : u \in T
    BY <1>1, <1>2, ListInduction
  <2> QED
    BY <2>1
<1> QED
  BY <1>3

-----------------------------------------------------------------------------
(* A function on every element of a list.                                  *)
Mapped(s, f) == [i \in DOMAIN s |-> f[s[i]]]

LEMMA MappedType ==
  ASSUME NEW S, NEW T, NEW f \in [S -> T], NEW s \in Seq(S)
  PROVE  Mapped(s, f) \in Seq(T)
<1>1. DOMAIN s = 1..Len(s) /\ Len(s) \in Nat /\ \A i \in 1..Len(s) : s[i] \in S
  OBVIOUS
<1>2. Mapped(s, f) \in [1..Len(s) -> T]
  BY <1>1 DEF Mapped
<1> QED
  BY <1>1, <1>2

LEMMA MappedLen ==
  ASSUME NEW S, NEW s \in Seq(S), NEW f
  PROVE  Len(Mapped(s, f)) = Len(s)
<1>1. DOMAIN s = 1..Len(s) /\ Len(s) \in Nat
  OBVIOUS
<1>2. DOMAIN Mapped(s, f) = 1..Len(s)
  BY <1>1 DEF Mapped
<1> QED
  BY <1>1, <1>2

LEMMA MappedAppend ==
  ASSUME NEW S, NEW T, NEW f \in [S -> T], NEW s \in Seq(S), NEW x \in S
  PROVE  Mapped(Append(s, x), f) = Append(Mapped(s, f), f[x])
<1> DEFINE v == Mapped(Append(s, x), f)
           m == Mapped(s, f)
           w == Append(m, f[x])
<1>1. /\ Append(s, x) \in Seq(S) /\ Len(Append(s, x)) = Len(s) + 1 /\ Len(s) \in Nat
      /\ DOMAIN Append(s, x) = 1..(Len(s) + 1) /\ DOMAIN s = 1..Len(s)
      /\ Append(s, x)[Len(s) + 1] = x /\ \A i \in 1..Len(s) : Append(s, x)[i] = s[i]
  OBVIOUS
<1>2. m \in Seq(T) /\ Len(m) = Len(s) /\ f[x] \in T
  <2>1. f[x] \in T
    OBVIOUS
  <2>2. m \in Seq(T)
    BY MappedType
  <2>3. Len(m) = Len(s)
    BY MappedLen
  <2> QED
    BY <2>1, <2>2, <2>3
<1>3. v \in Seq(T) /\ Len(v) = Len(s) + 1
  <2>1. v \in Seq(T)
    BY <1>1, MappedType
  <2>2. Len(v) = Len(Append(s, x))
    BY <1>1, MappedLen
  <2> QED
    BY <1>1, <2>1, <2>2
<1>4. \A i \in 1..Len(s) : m[i] = f[s[i]]
  BY <1>1 DEF Mapped
<1>5. \A i \in 1..(Len(s) + 1) : v[i] = f[Append(s, x)[i]]
  BY <1>1 DEF Mapped
<1> HIDE DEF m
<1>6. /\ w \in Seq(T) /\ Len(w) = Len(s) + 1 /\ w[Len(s) + 1] = f[x]
      /\ \A i \in 1..Len(s) : w[i] = m[i]
  BY <1>2, AppendProperties
<1> HIDE DEF v, w
<1>7. ASSUME NEW i \in 1..(Len(s) + 1)
      PROVE  v[i] = w[i]
  <2>1. CASE i = Len(s) + 1
    BY <1>1, <1>5, <1>6, <2>1
  <2>2. CASE i # Len(s) + 1
    <3>1. i \in 1..Len(s)
      BY <1>1, <2>2
    <3> QED
      BY <1>1, <1>4, <1>5, <1>6, <3>1
  <2> QED
    BY <2>1, <2>2
<1>8. v = w
  BY <1>3, <1>6, <1>7, SeqEqual
<1> QED
  BY <1>8 DEF v, w, m

LEMMA MappedEmpty == \A f : Mapped(<<>>, f) = <<>>
BY DEF Mapped

LEMMA MappedConcat ==
  ASSUME NEW S, NEW T, NEW f \in [S -> T], NEW s \in Seq(S), NEW t \in Seq(S)
  PROVE  Mapped(s \o t, f) = Mapped(s, f) \o Mapped(t, f)
<1> DEFINE P == {u \in Seq(S) : Mapped(s \o u, f) = Mapped(s, f) \o Mapped(u, f)}
<1>0. Mapped(s, f) \in Seq(T)
  BY MappedType
<1>1. <<>> \in P
  <2>1. s \o <<>> = s /\ Mapped(s, f) \o <<>> = Mapped(s, f)
    BY <1>0, ConcatEmptySeq
  <2>2. Mapped(s \o <<>>, f) = Mapped(s, f) \o Mapped(<<>>, f)
    BY <2>1, MappedEmpty, Zenon
  <2>3. <<>> \in Seq(S)
    OBVIOUS
  <2> QED
    BY <2>2, <2>3
<1>2. ASSUME NEW u \in Seq(S), NEW x \in S, u \in P
      PROVE  Append(u, x) \in P
  <2>1. s \o Append(u, x) = Append(s \o u, x) /\ s \o u \in Seq(S) /\ Append(u, x) \in Seq(S)
    OBVIOUS
  <2>2. Mapped(s \o u, f) = Mapped(s, f) \o Mapped(u, f) /\ Mapped(u, f) \in Seq(T) /\ f[x] \in T
    BY <1>2, MappedType
  <2>3. Mapped(Append(s \o u, x), f) = Append(Mapped(s \o u, f), f[x])
    BY <2>1, MappedAppend
  <2>4. Mapped(Append(u, x), f) = Append(Mapped(u, f), f[x])
    BY MappedAppend, ZenonT(60)
  <2>5. \A a, b \in Seq(T), y \in T : a \o Append(b, y) = Append(a \o b, y)
    OBVIOUS
  <2>6. Mapped(s, f) \o Append(Mapped(u, f), f[x]) = Append(Mapped(s, f) \o Mapped(u, f), f[x])
    BY <1>0, <2>2, <2>5
  <2>7. Mapped(s \o Append(u, x), f) = Mapped(s, f) \o Mapped(Append(u, x), f)
    BY <2>1, <2>2, <2>3, <2>4, <2>6, Zenon
  <2> QED
    BY <2>1, <2>7
<1>3. t \in P
  <2> HIDE DEF P
  <2>1. \A u \in Seq(S) : u \in P
    BY <1>1, <1>2, ListInduction
  <2> QED
    BY <2>1
<1> QED
  BY <1>3

(* It commutes with a filter that it does not affect.                      *)
Alike(S, P, f, Q) == \A x \in S : x \in P <=> f[x] \in Q

Commute(s, P, f, Q) == Mapped(Those(s, P), f) = Those(Mapped(s, f), Q)

LEMMA MappedThose ==
  ASSUME NEW S, NEW T, NEW f \in [S -> T], NEW s \in Seq(S), NEW P, NEW Q,
         Alike(S, P, f, Q)
  PROVE  Commute(s, P, f, Q)
<1> DEFINE A == {u \in Seq(S) : Mapped(Those(u, P), f) = Those(Mapped(u, f), Q)}
<1>1. <<>> \in A
  <2>1. <<>> \in Seq(S)
    OBVIOUS
  <2>2. Mapped(Those(<<>>, P), f) = Those(Mapped(<<>>, f), Q)
    BY ThoseEmpty, MappedEmpty, Zenon
  <2> QED
    BY <2>1, <2>2
<1>2. ASSUME NEW u \in Seq(S), NEW x \in S, u \in A
      PROVE  Append(u, x) \in A
  <2>1. Those(u, P) \in Seq(S) /\ Append(u, x) \in Seq(S) /\ Mapped(u, f) \in Seq(T) /\ f[x] \in T
    <3>1. Those(u, P) \in Seq(S)
      BY ThoseType
    <3>2. Mapped(u, f) \in Seq(T)
      BY MappedType
    <3> QED
      BY <3>1, <3>2
  <2>2. Those(Append(u, x), P) = IF x \in P THEN Append(Those(u, P), x) ELSE Those(u, P)
    BY ThoseAppend
  <2>3. Mapped(Append(Those(u, P), x), f) = Append(Mapped(Those(u, P), f), f[x])
    <3> DEFINE v == Those(u, P)
    <3>1. f \in [S -> T] /\ v \in Seq(S) /\ x \in S
      BY <2>1
    <3> HIDE DEF v
    <3>2. Mapped(Append(v, x), f) = Append(Mapped(v, f), f[x])
      BY ONLY <3>1, MappedAppend, ZenonT(60)
    <3> QED
      BY ONLY <3>2 DEF v
  <2>4. Mapped(Append(u, x), f) = Append(Mapped(u, f), f[x])
    BY MappedAppend
  <2>5. Those(Append(Mapped(u, f), f[x]), Q)
          = IF f[x] \in Q THEN Append(Those(Mapped(u, f), Q), f[x]) ELSE Those(Mapped(u, f), Q)
    BY <2>1, ThoseAppend
  <2>6. Mapped(Those(u, P), f) = Those(Mapped(u, f), Q) /\ (x \in P <=> f[x] \in Q)
    BY <1>2 DEF Alike
  <2>7. Mapped(Those(Append(u, x), P), f) = Those(Mapped(Append(u, x), f), Q)
    <3>1. CASE x \in P
      BY <2>2, <2>3, <2>4, <2>5, <2>6, <3>1, Zenon
    <3>2. CASE x \notin P
      BY <2>2, <2>4, <2>5, <2>6, <3>2, Zenon
    <3> QED
      BY <3>1, <3>2
  <2> QED
    BY <2>1, <2>7
<1>3. s \in A
  <2> HIDE DEF A
  <2>1. \A u \in Seq(S) : u \in A
    BY <1>1, <1>2, ListInduction
  <2> QED
    BY <2>1
<1> QED
  BY <1>3 DEF Commute

(* It commutes with the flattening of lists.                               *)
Deep(s, f) == [i \in DOMAIN s |-> Mapped(s[i], f)]

LEMMA MappedFlatten ==
  ASSUME NEW S, NEW T, NEW f \in [S -> T], NEW s \in Seq(Seq(S))
  PROVE  Mapped(FlattenSeq(s), f) = FlattenSeq(Deep(s, f))
<1> DEFINE lift == [u \in Seq(S) |-> Mapped(u, f)]
           A == {u \in Seq(Seq(S)) : Mapped(FlattenSeq(u), f) = FlattenSeq(Mapped(u, lift))}
<1>0. lift \in [Seq(S) -> Seq(T)]
  BY MappedType
<1>a. \A u \in Seq(S) : lift[u] = Mapped(u, f)
  OBVIOUS
<1> HIDE DEF lift
<1>1. <<>> \in A
  <2>1. <<>> \in Seq(Seq(S))
    OBVIOUS
  <2>2. Mapped(FlattenSeq(<<>>), f) = FlattenSeq(Mapped(<<>>, lift))
    BY FlattenEmpty, MappedEmpty, Zenon
  <2> QED
    BY <2>1, <2>2
<1>2. ASSUME NEW u \in Seq(Seq(S)), NEW x \in Seq(S), u \in A
      PROVE  Append(u, x) \in A
  <2>1. FlattenSeq(u) \in Seq(S) /\ Append(u, x) \in Seq(Seq(S))
        /\ Mapped(u, lift) \in Seq(Seq(T)) /\ lift[x] \in Seq(T) /\ lift[x] = Mapped(x, f)
    <3>1. FlattenSeq(u) \in Seq(S)
      BY FlattenType
    <3>2. Append(u, x) \in Seq(Seq(S))
      OBVIOUS
    <3>3. Mapped(u, lift) \in Seq(Seq(T))
      BY <1>0, MappedType, Zenon
    <3>4. lift[x] = Mapped(x, f)
      BY <1>a
    <3>5. lift[x] \in Seq(T)
      BY <1>0
    <3> QED
      BY <3>1, <3>2, <3>3, <3>4, <3>5
  <2>2. FlattenSeq(Append(u, x)) = FlattenSeq(u) \o x
    BY FlattenAppend
  <2>3. Mapped(FlattenSeq(u) \o x, f) = Mapped(FlattenSeq(u), f) \o Mapped(x, f)
    BY <2>1, MappedConcat, ZenonT(60)
  <2>4. Mapped(Append(u, x), lift) = Append(Mapped(u, lift), lift[x])
    <3> DEFINE SS == Seq(S)
               TT == Seq(T)
    <3>1. lift \in [SS -> TT] /\ u \in Seq(SS) /\ x \in SS
      BY <1>0
    <3> HIDE DEF SS, TT
    <3> QED
      BY ONLY <3>1, MappedAppend, ZenonT(30)
  <2>5. FlattenSeq(Append(Mapped(u, lift), lift[x])) = FlattenSeq(Mapped(u, lift)) \o lift[x]
    BY <2>1, FlattenAppend
  <2>6. Mapped(FlattenSeq(u), f) = FlattenSeq(Mapped(u, lift))
    BY <1>2
  <2>7. Mapped(FlattenSeq(Append(u, x)), f) = FlattenSeq(Mapped(Append(u, x), lift))
    BY <2>1, <2>2, <2>3, <2>4, <2>5, <2>6, Zenon
  <2> QED
    BY <2>1, <2>7
<1>3. s \in A
  <2> HIDE DEF A
  <2>1. \A u \in Seq(Seq(S)) : u \in A
    BY <1>1, <1>2, ListInduction
  <2> QED
    BY <2>1
<1>4. Mapped(s, lift) = Deep(s, f)
  <2>1. \A i \in DOMAIN s : s[i] \in Seq(S)
    OBVIOUS
  <2>2. \A i \in DOMAIN s : lift[s[i]] = Mapped(s[i], f)
    BY <1>a, <2>1
  <2> QED
    BY <2>2, Zenon DEF Mapped, Deep
<1> QED
  BY <1>3, <1>4

-----------------------------------------------------------------------------
LEMMA IsSequence ==
  ASSUME NEW S, NEW n \in Nat, NEW s, s = [i \in 1..n |-> s[i]], \A i \in 1..n : s[i] \in S
  PROVE  s \in Seq(S)
OBVIOUS

LEMMA ConcatAt ==
  ASSUME NEW S, NEW s \in Seq(S), NEW t \in Seq(S), NEW m, m = Len(s), NEW n, n = Len(t)
  PROVE  /\ s \o t \in Seq(S) /\ Len(s \o t) = m + n /\ DOMAIN (s \o t) = 1..(m + n)
         /\ \A i \in 1..m : (s \o t)[i] = s[i]
         /\ \A i \in (m + 1)..(m + n) : (s \o t)[i] = t[i - m]
OBVIOUS

(* A set of at most one value as a list.                                   *)
LEMMA NoneToSeq == SetToSeq({}) = <<>>
<1>1. Len(SetToSeq({})) = 0 /\ SetToSeq({}) \in Seq({})
  BY SetToSeqLists, FS_EmptySet
<1> QED
  BY <1>1

LEMMA OneToSeq ==
  ASSUME NEW x
  PROVE  SetToSeq({x}) = <<x>>
<1> DEFINE s == SetToSeq({x})
<1>1. Len(s) = 1 /\ s \in Seq({x})
  BY SetToSeqLists, FS_Singleton
<1> HIDE DEF s
<1>2. s = <<s[1]>> /\ s[1] = x
  BY <1>1
<1> QED
  BY <1>2 DEF s

(* Lists of any elements, by their length.                                 *)
IsList(s, n) == n \in Nat /\ s = [i \in 1..n |-> s[i]]

LEMMA ListIs ==
  ASSUME NEW n, NEW s, IsList(s, n)
  PROVE  /\ Len(s) = n /\ DOMAIN s = 1..n /\ n \in Nat
         /\ \A S : (\A i \in 1..n : s[i] \in S) => s \in Seq(S)
<1>1. n \in Nat /\ s = [i \in 1..n |-> s[i]]
  BY DEF IsList
<1>2. DOMAIN s = 1..n
  BY <1>1
<1>3. ASSUME NEW S, \A i \in 1..n : s[i] \in S
      PROVE  s \in Seq(S)
  BY ONLY <1>1, <1>3, IsSequence, Zenon
<1>4. Len(s) = n
  BY <1>1, <1>2
<1> QED
  BY <1>1, <1>2, <1>3, <1>4

LEMMA ListOf ==
  ASSUME NEW S, NEW s \in Seq(S)
  PROVE  IsList(s, Len(s))
<1>1. Len(s) \in Nat /\ DOMAIN s = 1..Len(s)
  OBVIOUS
<1>2. s = [i \in 1..Len(s) |-> s[i]]
  OBVIOUS
<1> QED
  BY <1>1, <1>2 DEF IsList

IsConcat(u, s, m, t, n) ==
  /\ IsList(u, m + n)
  /\ \A i \in 1..m : u[i] = s[i]
  /\ \A i \in (m + 1)..(m + n) : u[i] = t[i - m]

LEMMA ConcatLists ==
  ASSUME NEW m, NEW s, IsList(s, m), NEW n, NEW t, IsList(t, n)
  PROVE  IsConcat(s \o t, s, m, t, n)
<1> DEFINE S == {s[i] : i \in 1..m} \cup {t[i] : i \in 1..n}
<1>1. s \in Seq(S) /\ m = Len(s) /\ m \in Nat
  <2>1. \A i \in 1..m : s[i] \in S
    OBVIOUS
  <2> HIDE DEF S
  <2> QED
    BY <2>1, ListIs
<1>2. t \in Seq(S) /\ n = Len(t) /\ n \in Nat
  <2>1. \A i \in 1..n : t[i] \in S
    OBVIOUS
  <2> HIDE DEF S
  <2> QED
    BY <2>1, ListIs
<1> HIDE DEF S
<1>3. /\ s \o t \in Seq(S) /\ Len(s \o t) = m + n
      /\ \A i \in 1..m : (s \o t)[i] = s[i]
      /\ \A i \in (m + 1)..(m + n) : (s \o t)[i] = t[i - m]
  BY <1>1, <1>2, ConcatAt
<1>4. IsList(s \o t, m + n)
  BY <1>3, ListOf
<1> QED
  BY <1>3, <1>4 DEF IsConcat

(* A list of none, or of one list, is flattened.                           *)
LEMMA FlattenNone ==
  ASSUME NEW u
  PROVE  FlattenSeq([i \in 1..Cardinality({}) |-> u]) = <<>>
<1>1. Cardinality({}) = 0
  BY FS_EmptySet
<1>2. [i \in 1..Cardinality({}) |-> u] = <<>>
  BY <1>1
<1> QED
  BY <1>2, FlattenEmpty

LEMMA FlattenOne ==
  ASSUME NEW a, NEW u, NEW n, IsList(u, n)
  PROVE  FlattenSeq([i \in 1..Cardinality({a}) |-> u]) = u
<1> DEFINE S == {u[i] : i \in 1..n}
           SS == Seq(S)
           e == <<>>
<1>1. Cardinality({a}) = 1
  BY FS_Singleton
<1>2. u \in Seq(S)
  <2>1. \A i \in 1..n : u[i] \in S
    OBVIOUS
  <2> HIDE DEF S
  <2> QED
    BY <2>1, ListIs
<1>3. u \in SS /\ e \in Seq(SS) /\ FlattenSeq(e) = <<>>
  BY <1>2, FlattenEmpty
<1> HIDE DEF S, SS
<1>4. [i \in 1..Cardinality({a}) |-> u] = Append(e, u)
  BY <1>1
<1> HIDE DEF e
<1>5. FlattenSeq(Append(e, u)) = FlattenSeq(e) \o u
  BY <1>2, <1>3, FlattenAppend DEF SS
<1>6. <<>> \o u = u
  BY <1>2
<1> QED
  BY <1>3, <1>4, <1>5, <1>6

-----------------------------------------------------------------------------
(* What is flattened is what its parts hold, and has no repetitions if     *)
(* they share none.                                                        *)
Within(t, s) ==
  \A k \in DOMAIN t : \E i \in DOMAIN s : \E a \in DOMAIN s[i] : t[k] = s[i][a]
Apart(s) ==
  \A i, j \in DOMAIN s : \A a \in DOMAIN s[i], b \in DOMAIN s[j] :
    s[i][a] = s[j][b] => i = j /\ a = b

LEMMA FlattenParts ==
  ASSUME NEW S, NEW s \in Seq(Seq(S))
  PROVE  /\ Within(FlattenSeq(s), s)
         /\ Apart(s) => Distinct(FlattenSeq(s))
<1> DEFINE SS == Seq(S)
           T == {u \in Seq(SS) : /\ Within(FlattenSeq(u), u)
                                 /\ Apart(u) => Distinct(FlattenSeq(u))}
<1>1. <<>> \in T
  <2>1. Within(FlattenSeq(<<>>), <<>>) /\ Distinct(FlattenSeq(<<>>))
    BY FlattenEmpty DEF Within, Distinct
  <2> HIDE DEF SS
  <2> QED
    BY <2>1
<1>2. ASSUME NEW u \in Seq(SS), NEW x \in SS, u \in T
      PROVE  Append(u, x) \in T
  <2> DEFINE v == Append(u, x)
             n == Len(u)
             f == FlattenSeq(u)
             g == FlattenSeq(v)
             m == Len(f)
             l == Len(x)
  <2>1. x \in Seq(S) /\ u \in Seq(Seq(S)) /\ g = f \o x /\ f \in Seq(S)
    BY FlattenAppend, FlattenType
  <2>2. Within(f, u) /\ (Apart(u) => Distinct(f))
    BY <1>2
  <2> HIDE DEF SS, T
  <2>3. /\ v \in Seq(SS) /\ n \in Nat /\ v[n + 1] = x
        /\ DOMAIN v = 1..(n + 1) /\ DOMAIN u = 1..n /\ \A i \in 1..n : v[i] = u[i]
    BY AppendProperties
  <2>4. m \in Nat /\ DOMAIN f = 1..m /\ l \in Nat /\ DOMAIN x = 1..l
    <3> HIDE DEF f
    <3> QED
      BY <2>1
  <2>5. /\ DOMAIN g = 1..(m + l) /\ \A i \in 1..m : g[i] = f[i]
        /\ \A i \in (m + 1)..(m + l) : g[i] = x[i - m]
    <3> HIDE DEF f
    <3> QED
      BY <2>1, ConcatAt
  <2> HIDE DEF v, f, g, m, n, l
  <2>6. \A i \in 1..n : i \in 1..(n + 1) /\ i # n + 1
    BY <2>3
  <2>7. n + 1 \in 1..(n + 1)
    BY <2>3
  <2>8. \A i \in 1..(m + l) : i \in 1..m \/ (i \in (m + 1)..(m + l) /\ i - m \in 1..l)
    BY <2>4
  <2>9. ASSUME NEW k \in DOMAIN g
        PROVE  \E i \in DOMAIN v : \E a \in DOMAIN v[i] : g[k] = v[i][a]
    <3>1. CASE k \in 1..m
      <4>1. PICK i \in DOMAIN u : \E a \in DOMAIN u[i] : f[k] = u[i][a]
        BY <2>2, <2>4, <3>1 DEF Within
      <4> QED
        BY <2>3, <2>5, <2>6, <3>1, <4>1, SMTT(30)
    <3>2. CASE k \in (m + 1)..(m + l) /\ k - m \in 1..l
      <4>1. n + 1 \in DOMAIN v /\ v[n + 1] = x
        BY <2>3, <2>7
      <4>2. k - m \in DOMAIN v[n + 1] /\ g[k] = v[n + 1][k - m]
        BY <2>4, <2>5, <3>2, <4>1
      <4> QED
        BY <4>1, <4>2
    <3> QED
      BY <2>5, <2>8, <3>1, <3>2
  <2>10. ASSUME Apart(v)
         PROVE  Distinct(g)
    <3>1. Apart(u)
      BY <2>3, <2>6, <2>10 DEF Apart
    <3>2. Distinct(f)
      BY <2>2, <3>1
    <3>3. ASSUME NEW j \in 1..m, NEW b \in 1..l
          PROVE  f[j] # x[b]
      <4>1. PICK i \in DOMAIN u : \E a \in DOMAIN u[i] : f[j] = u[i][a]
        BY <2>2, <2>4 DEF Within
      <4>2. i \in DOMAIN v /\ v[i] = u[i] /\ i # n + 1 /\ n + 1 \in DOMAIN v
        BY <2>3, <2>6, <2>7
      <4> QED
        BY <2>3, <2>4, <2>10, <4>1, <4>2 DEF Apart
    <3>4. \A a, b \in 1..l : x[a] = x[b] => a = b
      <4>1. n + 1 \in DOMAIN v /\ v[n + 1] = x /\ DOMAIN x = 1..l
        BY <2>3, <2>4, <2>7
      <4>2. \A a, b \in DOMAIN v[n + 1] : v[n + 1][a] = v[n + 1][b] => a = b
        BY <2>10, <4>1 DEF Apart
      <4> QED
        BY <4>1, <4>2
    <3>5. ASSUME NEW j \in 1..(m + l), NEW k \in 1..(m + l), g[j] = g[k]
          PROVE  j = k
      <4>1. CASE j \in 1..m /\ k \in 1..m
        BY <2>4, <2>5, <3>2, <3>5, <4>1 DEF Distinct
      <4>2. CASE j \in 1..m /\ k \in (m + 1)..(m + l) /\ k - m \in 1..l
        BY <2>5, <3>3, <3>5, <4>2
      <4>3. CASE k \in 1..m /\ j \in (m + 1)..(m + l) /\ j - m \in 1..l
        BY <2>5, <3>3, <3>5, <4>3
      <4>4. CASE /\ j \in (m + 1)..(m + l) /\ j - m \in 1..l
                 /\ k \in (m + 1)..(m + l) /\ k - m \in 1..l
        <5>1. j - m = k - m
          BY <2>5, <3>4, <3>5, <4>4
        <5> QED
          BY <2>4, <5>1
      <4> QED
        BY <2>8, <4>1, <4>2, <4>3, <4>4
    <3> QED
      BY <2>5, <3>5 DEF Distinct
  <2>11. Within(g, v)
    BY <2>9 DEF Within
  <2> QED
    BY <2>3, <2>10, <2>11 DEF T, v, g
<1>3. s \in Seq(SS)
  OBVIOUS
<1>4. \A u \in Seq(SS) : u \in T
  <2> HIDE DEF SS, T
  <2> QED
    BY <1>1, <1>2, ListInduction
<1> QED
  BY <1>3, <1>4

(* As many things are in a list without repetitions as it is long.         *)
LEMMA DistinctCount ==
  ASSUME NEW n, NEW s, IsList(s, n), Distinct(s)
  PROVE  Cardinality(ToSet(s)) = n
<1> DEFINE S == ToSet(s)
<1>1. DOMAIN s = 1..n /\ n \in Nat
  BY ListIs
<1>2. S = {s[i] : i \in 1..n}
  BY <1>1 DEF ToSet
<1>3. s = [i \in 1..n |-> s[i]]
  BY DEF IsList
<1> HIDE DEF S
<1>4. s \in [1..n -> S] /\ \A y \in S : \E i \in 1..n : s[i] = y
  BY <1>2, <1>3
<1>5. IsInjective(s)
  BY <1>1 DEF IsInjective, Distinct
<1>6. s \in Bijection(1..n, S)
  BY <1>4, <1>5 DEF Bijection, Injection, Surjection
<1>7. IsFiniteSet(1..n) /\ Cardinality(1..n) = n
  <2>1. 1 \in Int /\ n \in Int
    BY <1>1
  <2>2. Cardinality(1..n) = IF 1 > n THEN 0 ELSE n - 1 + 1
    BY <2>1, FS_Interval
  <2> QED
    BY <1>1, <2>1, <2>2, FS_Interval
<1>8. ExistsBijection(1..n, S)
  BY <1>6 DEF ExistsBijection
<1> QED
  BY <1>7, <1>8, FS_Bijection DEF S

(* What satisfies one of several conditions, no two of which hold of one   *)
(* thing, is counted by them.                                              *)
LEMMA ThoseParts ==
  ASSUME NEW S, NEW s \in Seq(S), NEW P, NEW A, NEW B, NEW C,
         \A x \in S : x \in P <=> x \in A \/ x \in B \/ x \in C,
         \A x \in S : /\ ~ (x \in A /\ x \in B) /\ ~ (x \in A /\ x \in C)
                      /\ ~ (x \in B /\ x \in C)
  PROVE  Len(Those(s, P)) = Len(Those(s, A)) + Len(Those(s, B)) + Len(Those(s, C))
<1> DEFINE T == {u \in Seq(S) :
                   Len(Those(u, P)) = Len(Those(u, A)) + Len(Those(u, B)) + Len(Those(u, C))}
<1>1. <<>> \in T
  BY ThoseEmpty
<1>2. ASSUME NEW u \in Seq(S), NEW x \in S, u \in T
      PROVE  Append(u, x) \in T
  <2> DEFINE v == Append(u, x)
  <2>1. v \in Seq(S)
    OBVIOUS
  <2>2. \A Q : /\ Len(Those(u, Q)) \in Nat
              /\ Len(Those(v, Q)) = IF x \in Q THEN Len(Those(u, Q)) + 1 ELSE Len(Those(u, Q))
    <3> TAKE Q
    <3>1. Those(u, Q) \in Seq(S)
      BY ThoseType
    <3>2. Those(v, Q) = IF x \in Q THEN Append(Those(u, Q), x) ELSE Those(u, Q)
      BY ThoseAppend
    <3> DEFINE w == Those(u, Q)
    <3> HIDE DEF w, v
    <3>3. w \in Seq(S) /\ Len(w) \in Nat /\ Len(Append(w, x)) = Len(w) + 1
      BY <3>1 DEF w
    <3> QED
      BY <3>2, <3>3 DEF w
  <2> HIDE DEF v
  <2> DEFINE N(Q) == Len(Those(u, Q))
             M(Q) == Len(Those(v, Q))
  <2>3. \A Q : N(Q) \in Nat /\ M(Q) = IF x \in Q THEN N(Q) + 1 ELSE N(Q)
    BY <2>2
  <2>4. N(P) = N(A) + N(B) + N(C)
    BY <1>2
  <2> HIDE DEF N, M
  <2>5. M(P) = M(A) + M(B) + M(C)
    <3>1. x \in P <=> x \in A \/ x \in B \/ x \in C
      OBVIOUS
    <3>2. /\ ~ (x \in A /\ x \in B) /\ ~ (x \in A /\ x \in C)
          /\ ~ (x \in B /\ x \in C)
      OBVIOUS
    <3> QED
      BY ONLY <2>3, <2>4, <3>1, <3>2
  <2> QED
    BY <2>1, <2>5 DEF M, v
<1>3. \A u \in Seq(S) : u \in T
  <2> HIDE DEF T
  <2> QED
    BY <1>1, <1>2, ListInduction
<1> QED
  BY <1>3
=============================================================================
