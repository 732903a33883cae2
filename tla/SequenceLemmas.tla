---------------------------- MODULE SequenceLemmas ----------------------------
(***************************************************************************)
(* Facts about operators that are defined by recursion on the length of a  *)
(* sequence.  No prover here can instantiate an induction theorem, which   *)
(* has the induction hypothesis as an operator parameter.  The induction   *)
(* hypothesis is therefore a set: the numbers, or the sequences, of which  *)
(* it holds.  That such a set is all of Nat is an instance of the least    *)
(* number principle, which the library states of sets (WFMin).             *)
(***************************************************************************)
EXTENDS SequencesExt, SequenceTheorems, WellFoundedInduction, TLAPS

-----------------------------------------------------------------------------
(* Induction.                                                              *)

Less == OpToRel(<, Nat)

\* A set of numbers that is not empty has a least one.
LEMMA Least ==
  ASSUME NEW T \in SUBSET Nat, T # {}
  PROVE  \E n \in T : \A m \in T : n <= m
<1>1. IsWellFoundedOn(Less, Nat)
  BY NatLessThanWellFounded DEF Less
<1>2. PICK n \in T : \A m \in T : <<m, n>> \notin Less
  BY <1>1, WFMin
<1>3. \A i, j \in Nat : i < j => <<i, j>> \in Less
  BY DEF Less, OpToRel
<1>4. ASSUME NEW m \in T PROVE n <= m
  <2>1. m \in Nat /\ n \in Nat /\ ~(m < n)
    BY <1>2, <1>3
  <2> QED BY <2>1
<1> QED BY <1>4

\* Induction on the natural numbers, for the set of those that have a property.
LEMMA Induction ==
  ASSUME NEW T, 0 \in T, \A n \in Nat : n \in T => n + 1 \in T
  PROVE  Nat \subseteq T
<1> DEFINE U == Nat \ T
<1> SUFFICES ASSUME U # {} PROVE FALSE
  OBVIOUS
<1>1. PICK n \in U : \A m \in U : n <= m
  BY Least
<1>2. n # 0 /\ n \in Nat
  OBVIOUS
<1>3. n - 1 \in Nat /\ n - 1 \notin U
  BY <1>1, <1>2
<1> QED BY <1>2, <1>3

\* Induction on sequences: each is the empty one or has a last element.
LEMMA SequenceInduction ==
  ASSUME NEW S, NEW T, <<>> \in T,
         \A s \in Seq(S) : s \in T => \A e \in S : Append(s, e) \in T
  PROVE  Seq(S) \subseteq T
<1> DEFINE L == {n \in Nat : \A s \in Seq(S) : Len(s) = n => s \in T}
<1>1. 0 \in L
  <2>1. \A s \in Seq(S) : Len(s) = 0 => s = <<>>
    BY EmptySeq
  <2> QED BY <2>1
<1>2. ASSUME NEW n \in Nat, n \in L PROVE n + 1 \in L
  <2>1. ASSUME NEW t \in Seq(S), Len(t) = n + 1 PROVE t \in T
    <3>1. t # <<>>
      BY <2>1, EmptySeq
    <3>2. PICK s \in Seq(S), e \in S : t = Append(s, e)
      BY <3>1, SequenceEmptyOrAppend
    <3>3. Len(s) = n
      BY <2>1, <3>2, AppendProperties, LenProperties
    <3> QED BY <1>2, <3>2, <3>3
  <2> QED BY <2>1
<1>3. Nat \subseteq L
  <2> HIDE DEF L
  <2> QED BY <1>1, <1>2, Induction
<1> QED BY <1>3, LenProperties

-----------------------------------------------------------------------------
(* A function on 1..n is a sequence.                                       *)

LEMMA FunctionIsSeq ==
  ASSUME NEW S, NEW n \in Nat, NEW f \in [1..n -> S]
  PROVE  f \in Seq(S) /\ Len(f) = n /\ DOMAIN f = 1..n
OBVIOUS

LEMMA AppendRange ==
  ASSUME NEW S, NEW s \in Seq(S), NEW e \in S
  PROVE  Range(Append(s, e)) = Range(s) \cup {e}
<1>1. PICK n \in Nat : n = Len(s)
  BY LenProperties
<1>2. /\ DOMAIN Append(s, e) = 1..(n + 1) /\ DOMAIN s = 1..n
      /\ Append(s, e)[n + 1] = e /\ \A i \in 1..n : Append(s, e)[i] = s[i]
  BY <1>1, AppendProperties, LenProperties
<1>3. \A i \in 1..(n + 1) : i = n + 1 \/ i \in 1..n
  OBVIOUS
<1>4. n + 1 \in 1..(n + 1) /\ 1..n \subseteq 1..(n + 1)
  OBVIOUS
<1> QED BY <1>2, <1>3, <1>4 DEF Range

-----------------------------------------------------------------------------
(* FlattenSeq.                                                             *)

\* The function that FlattenSeq chooses is there.
LEMMA FlattenExists ==
  ASSUME NEW s, NEW n \in Nat
  PROVE  \E g : g = [i \in 1..n |-> IF i = 1 THEN s[i] ELSE g[i - 1] \o s[i]]
<1> DEFINE There(m) == \E g : g = [i \in 1..m |-> IF i = 1 THEN s[i] ELSE g[i - 1] \o s[i]]
           T == {m \in Nat : There(m)}
<1>1. 0 \in T
  <2> DEFINE g == [i \in 1..0 |-> <<>>]
  <2>1. g = [i \in 1..0 |-> IF i = 1 THEN s[i] ELSE g[i - 1] \o s[i]]
    OBVIOUS
  <2> QED BY <2>1
<1>2. ASSUME NEW m \in Nat, m \in T PROVE m + 1 \in T
  <2>1. PICK g : g = [i \in 1..m |-> IF i = 1 THEN s[i] ELSE g[i - 1] \o s[i]]
    BY <1>2
  <2> DEFINE k == m + 1
             e == IF k = 1 THEN s[k] ELSE g[k - 1] \o s[k]
             f == [i \in 1..k |-> IF i = k THEN e ELSE g[i]]
  <2>2. ASSUME NEW i \in 1..k
        PROVE  f[i] = IF i = 1 THEN s[i] ELSE f[i - 1] \o s[i]
    <3>1. CASE i = k
      <4>1. k # 1 => f[k - 1] = g[k - 1]
        OBVIOUS
      <4> QED BY <3>1, <4>1
    <3>2. CASE i # k
      <4>1. i \in 1..m /\ f[i] = g[i]
        BY <3>2
      <4>2. i # 1 => f[i - 1] = g[i - 1]
        BY <4>1
      <4> QED BY <2>1, <4>1, <4>2
    <3> QED BY <3>1, <3>2
  <2>3. f = [i \in 1..k |-> IF i = 1 THEN s[i] ELSE f[i - 1] \o s[i]]
    <3>1. f = [i \in 1..k |-> f[i]]
      OBVIOUS
    <3> HIDE DEF f
    <3> QED BY <2>2, <3>1
  <2> HIDE DEF f
  <2>4. There(m + 1)
    BY <2>3
  <2> HIDE DEF There
  <2> QED BY <2>4
<1>3. Nat \subseteq T
  <2> HIDE DEF T
  <2> QED BY <1>1, <1>2, Induction
<1> QED BY <1>3

\* The partial results of a flattening.
Flattens(g, s) == \A i \in 1..Len(s) : g[i] = IF i = 1 THEN s[1] ELSE g[i - 1] \o s[i]

LEMMA FlattenUnfold ==
  ASSUME NEW s, Len(s) \in Nat \ {0}
  PROVE  \E g : Flattens(g, s) /\ FlattenSeq(s) = g[Len(s)]
<1> DEFINE f == CHOOSE g : g = [i \in 1..Len(s) |-> IF i = 1 THEN s[i] ELSE g[i - 1] \o s[i]]
<1>1. f = [i \in 1..Len(s) |-> IF i = 1 THEN s[i] ELSE f[i - 1] \o s[i]]
  BY FlattenExists
<1>2. FlattenSeq(s) = f[Len(s)]
  BY DEF FlattenSeq
<1> HIDE DEF f
<1>3. Flattens(f, s)
  BY <1>1 DEF Flattens
<1> QED BY <1>2, <1>3

LEMMA FlattenEmpty == FlattenSeq(<<>>) = <<>>
BY DEF FlattenSeq

\* A loop that appends one sequence more.
LEMMA FlattenAppend ==
  ASSUME NEW S, NEW s \in Seq(Seq(S)), NEW e \in Seq(S)
  PROVE  FlattenSeq(Append(s, e)) = FlattenSeq(s) \o e
<1> DEFINE t == Append(s, e)
           n == Len(s)
<1>1. /\ n \in Nat /\ Len(t) = n + 1 /\ t[n + 1] = e
      /\ \A i \in 1..n : t[i] = s[i]
  BY AppendProperties, LenProperties
<1> HIDE DEF t
<1>2. PICK g : Flattens(g, t) /\ FlattenSeq(t) = g[n + 1]
  BY <1>1, FlattenUnfold
<1>3. CASE n = 0
  <2>1. s = <<>>
    BY <1>3, EmptySeq
  <2>2. FlattenSeq(t) = e
    BY <1>1, <1>2, <1>3 DEF Flattens
  <2> QED BY <2>1, <2>2, FlattenEmpty, ConcatEmptySeq DEF t
<1>4. CASE n # 0
  <2>1. PICK f : Flattens(f, s) /\ FlattenSeq(s) = f[n]
    BY <1>1, <1>4, FlattenUnfold
  <2> DEFINE T == {i \in Nat : i \in 1..n => g[i] = f[i]}
  <2>2. 0 \in T
    OBVIOUS
  <2>3. ASSUME NEW i \in Nat, i \in T PROVE i + 1 \in T
    <3>1. SUFFICES ASSUME i + 1 \in 1..n PROVE g[i + 1] = f[i + 1]
      OBVIOUS
    <3>2. i + 1 \in 1..Len(t) /\ t[i + 1] = s[i + 1]
      BY <1>1, <3>1
    <3>3. CASE i = 0
      BY <1>2, <2>1, <3>1, <3>2, <3>3 DEF Flattens
    <3>4. CASE i # 0
      <4>1. g[i] = f[i]
        BY <2>3, <3>1, <3>4
      <4>2. PICK j \in 1..n : j = i + 1
        BY <3>1
      <4>3. j # 1 /\ j \in 1..Len(t) /\ j - 1 = i
        BY <3>2, <3>4, <4>2
      <4>4. g[j] = g[j - 1] \o t[j] /\ f[j] = f[j - 1] \o s[j]
        BY <1>2, <2>1, <4>3 DEF Flattens
      <4> QED BY <3>2, <4>1, <4>2, <4>3, <4>4
    <3> QED BY <3>3, <3>4
  <2>4. Nat \subseteq T
    <3> HIDE DEF T
    <3> QED BY <2>2, <2>3, Induction
  <2>5. g[n] = f[n]
    BY <1>1, <1>4, <2>4
  <2>6. PICK k \in 1..Len(t) : k = n + 1 /\ k # 1 /\ k - 1 = n
    BY <1>1, <1>4
  <2>7. g[k] = g[k - 1] \o t[k]
    BY <1>2, <2>6 DEF Flattens
  <2>8. FlattenSeq(t) = FlattenSeq(s) \o e
    BY <1>1, <1>2, <2>1, <2>5, <2>6, <2>7
  <2> QED BY <2>8 DEF t
<1> QED BY <1>3, <1>4

LEMMA FlattenType ==
  ASSUME NEW S, NEW s \in Seq(Seq(S))
  PROVE  FlattenSeq(s) \in Seq(S)
<1> DEFINE T == {t \in Seq(Seq(S)) : FlattenSeq(t) \in Seq(S)}
<1>1. <<>> \in T
  <2>1. <<>> \in Seq(Seq(S)) /\ <<>> \in Seq(S)
    OBVIOUS
  <2> QED BY <2>1, FlattenEmpty
<1>2. ASSUME NEW t \in Seq(Seq(S)), t \in T, NEW e \in Seq(S) PROVE Append(t, e) \in T
  <2>1. FlattenSeq(Append(t, e)) = FlattenSeq(t) \o e
    BY FlattenAppend
  <2> QED BY <1>2, <2>1, ConcatProperties, AppendProperties
<1>3. Seq(Seq(S)) \subseteq T
  <2> HIDE DEF T
  <2> QED BY <1>1, <1>2, SequenceInduction
<1> QED BY <1>3

\* Nothing gets into the result, or lost on the way, but the elements of the parts.
LEMMA FlattenRange ==
  ASSUME NEW S, NEW s \in Seq(Seq(S)), NEW x
  PROVE  x \in Range(FlattenSeq(s)) <=> \E i \in DOMAIN s : x \in Range(s[i])
<1> DEFINE In(t) == x \in Range(FlattenSeq(t)) <=> \E i \in DOMAIN t : x \in Range(t[i])
           T == {t \in Seq(Seq(S)) : In(t)}
<1>1. <<>> \in T
  <2>1. <<>> \in Seq(Seq(S)) /\ DOMAIN <<>> = {}
    OBVIOUS
  <2> QED BY <2>1, FlattenEmpty DEF Range
<1>2. ASSUME NEW t \in Seq(Seq(S)), t \in T, NEW e \in Seq(S) PROVE Append(t, e) \in T
  <2>1. FlattenSeq(Append(t, e)) = FlattenSeq(t) \o e
    BY FlattenAppend
  <2>2. Range(FlattenSeq(Append(t, e))) = Range(FlattenSeq(t)) \cup Range(e)
    BY <2>1, FlattenType, RangeConcatenation
  <2>3. PICK n \in Nat : n = Len(t)
    BY LenProperties
  <2>4. /\ DOMAIN Append(t, e) = 1..(n + 1) /\ DOMAIN t = 1..n
        /\ Append(t, e)[n + 1] = e /\ \A i \in 1..n : Append(t, e)[i] = t[i]
        /\ Append(t, e) \in Seq(Seq(S))
    BY <2>3, AppendProperties, LenProperties
  <2>5. (\E i \in DOMAIN Append(t, e) : x \in Range(Append(t, e)[i]))
          <=> x \in Range(e) \/ \E i \in DOMAIN t : x \in Range(t[i])
    <3>1. \A i \in 1..(n + 1) : i = n + 1 \/ i \in 1..n
      OBVIOUS
    <3>2. n + 1 \in 1..(n + 1) /\ 1..n \subseteq 1..(n + 1)
      OBVIOUS
    <3> QED BY <2>4, <3>1, <3>2
  <2> QED BY <1>2, <2>2, <2>4, <2>5
<1>3. Seq(Seq(S)) \subseteq T
  <2> HIDE DEF T
  <2> QED BY <1>1, <1>2, SequenceInduction
<1> QED BY <1>3

=============================================================================
