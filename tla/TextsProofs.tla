------------------------------ MODULE TextsProofs ------------------------------
(***************************************************************************)
(* What Select returns, for every sequence, by induction: a set of numbers *)
(* or of sequences that is closed under the next one has them all.         *)
(***************************************************************************)
EXTENDS Texts, SequencesExt, SequenceTheorems, WellFoundedInduction, FiniteSetTheorems, TLAPS

-----------------------------------------------------------------------------
(* Induction with sets                                                     *)

\* A set of naturals that is not empty has a least element.
LEMMA LeastNatural ==
  ASSUME NEW N \in SUBSET Nat, N # {}
  PROVE  \E least \in N : \A n \in N : least <= n
<1> DEFINE Less == OpToRel(<, Nat)
<1>1. IsWellFoundedOn(Less, Nat)
  BY NatLessThanWellFounded
<1>2. \A m, n \in Nat : <<m, n>> \in Less <=> m < n
  BY DEF OpToRel
<1> HIDE DEF Less
<1>3. \E least \in N : \A n \in N : ~ (<<n, least>> \in Less)
  BY <1>1, WFMin
<1>4. PICK least \in N : \A n \in N : ~ (<<n, least>> \in Less)
  BY <1>3
<1>5. ASSUME NEW n \in N
      PROVE  least <= n
  <2>1. n \in Nat /\ least \in Nat
    OBVIOUS
  <2>2. ~ (n < least)
    BY <1>2, <1>4, <2>1
  <2>3. QED
    BY <2>1, <2>2
<1>6. QED
  BY <1>5

LEMMA CountingUp ==
  ASSUME NEW N, 0 \in N, \A n \in Nat : n \in N => n + 1 \in N
  PROVE  Nat \subseteq N
<1> SUFFICES ASSUME Nat \ N # {}
             PROVE  FALSE
  OBVIOUS
<1>1. PICK least \in Nat \ N : \A n \in Nat \ N : least <= n
  BY LeastNatural
<1>2. least # 0
  OBVIOUS
<1>3. least - 1 \in Nat /\ ~ (least <= least - 1) /\ least = (least - 1) + 1
  BY <1>2
<1>4. QED
  BY <1>1, <1>3

\* A set that has the empty sequence and is closed under Append has every sequence.
LEMMA AppendingOn ==
  ASSUME NEW S, NEW Q,
         <<>> \in Q,
         \A s \in Seq(S), e \in S : s \in Q => Append(s, e) \in Q
  PROVE  Seq(S) \subseteq Q
<1> DEFINE N == {n \in Nat : \A s \in Seq(S) : Len(s) = n => s \in Q}
<1>1. 0 \in N
  <2> SUFFICES ASSUME NEW s \in Seq(S), Len(s) = 0
               PROVE  s \in Q
    OBVIOUS
  <2>1. s = <<>>
    BY EmptySeq
  <2>2. QED
    BY <2>1
<1>2. ASSUME NEW n \in Nat, n \in N
      PROVE  n + 1 \in N
  <2> SUFFICES ASSUME NEW s \in Seq(S), Len(s) = n + 1
               PROVE  s \in Q
    OBVIOUS
  <2> DEFINE front == SubSeq(s, 1, n)
  <2>1. front \in Seq(S) /\ Len(front) = n /\ s[n + 1] \in S
    BY SubSeqProperties, ElementOfSeq
  <2>2. Append(front, s[n + 1]) = s
    <3>1. SubSeq(s, 1, n + 1) = s
      BY SubSeqFull
    <3>2. SubSeq(s, 1, n + 1) = SubSeq(s, 1, (n + 1) - 1) \o <<s[n + 1]>>
      <4>1. 1 \in 1..Len(s) /\ n + 1 \in 1..Len(s)
        OBVIOUS
      <4>2. QED
        BY <4>1, SubSeqRecursiveSecond
    <3>3. front \o <<s[n + 1]>> = Append(front, s[n + 1])
      BY <2>1, AppendIsConcat
    <3>4. (n + 1) - 1 = n
      OBVIOUS
    <3>5. QED
      BY <3>1, <3>2, <3>3, <3>4
  <2>3. front \in Q
    BY <1>2, <2>1
  <2> HIDE DEF front
  <2>4. QED
    BY <2>1, <2>2, <2>3
<1> HIDE DEF N
<1>3. Nat \subseteq N
  BY <1>1, <1>2, CountingUp
<1>4. QED
  BY <1>3, LenProperties DEF N

\* Of a set of positions there is a first and a last.
LEMMA FirstAndLast ==
  ASSUME NEW m \in Nat, NEW at \in SUBSET (1..m), at # {}
  PROVE  /\ Min(at) \in at /\ \A i \in at : Min(at) <= i
         /\ Max(at) \in at /\ \A i \in at : i <= Max(at)
<1>1. at \in SUBSET Nat
  OBVIOUS
<1>2. PICK first \in at : \A i \in at : first <= i
  BY <1>1, LeastNatural
<1>3. Min(at) \in at /\ \A i \in at : Min(at) <= i
  BY <1>2 DEF Min
<1> DEFINE behind == {m - i : i \in at}
<1>4. behind \in SUBSET Nat /\ behind # {}
  OBVIOUS
<1>5. PICK least \in behind : \A n \in behind : least <= n
  <2> HIDE DEF behind
  <2>1. QED
    BY <1>4, LeastNatural
<1>6. PICK last \in at : least = m - last
  BY <1>5
<1>7. ASSUME NEW i \in at
      PROVE  last >= i
  <2>1. m - last <= m - i
    BY <1>5, <1>6
  <2>2. last \in Int /\ i \in Int
    OBVIOUS
  <2>3. QED
    BY <2>1, <2>2
<1>8. Max(at) \in at /\ \A i \in at : Max(at) >= i
  BY <1>7 DEF Max
<1>9. QED
  BY <1>1, <1>3, <1>8

-----------------------------------------------------------------------------
(* Select                                                                  *)

\* The recursive function behind Select exists, and obeys its equations.
LEMMA SelectRecursion ==
  ASSUME NEW S, NEW s \in Seq(S), NEW T
  PROVE  \E f : /\ f[0] = <<>>
                /\ \A n \in 1..Len(s) :
                     f[n] = IF s[n] \in T THEN Append(f[n - 1], s[n]) ELSE f[n - 1]
                /\ Select(s, T) = f[Len(s)]
<1> DEFINE Obeys(f, m) ==
             f = [n \in 0..m |->
                   IF n = 0 THEN <<>>
                   ELSE IF s[n] \in T THEN Append(f[n - 1], s[n])
                   ELSE f[n - 1]]
           N == {m \in Nat : \E f : Obeys(f, m)}
<1>1. 0 \in N
  <2>1. Obeys([n \in 0..0 |-> <<>>], 0)
    OBVIOUS
  <2>2. QED
    BY <2>1
<1>2. ASSUME NEW m \in Nat, m \in N
      PROVE  m + 1 \in N
  <2>1. PICK f : Obeys(f, m)
    BY <1>2
  <2> DEFINE next == IF s[m + 1] \in T THEN Append(f[m], s[m + 1]) ELSE f[m]
             g == [n \in 0..(m + 1) |-> IF n = m + 1 THEN next ELSE f[n]]
  <2>2. ASSUME NEW n \in 0..(m + 1)
        PROVE  g[n] = IF n = 0 THEN <<>>
                      ELSE IF s[n] \in T THEN Append(g[n - 1], s[n])
                      ELSE g[n - 1]
    <3>1. CASE n = m + 1
      <4>1. n # 0 /\ n - 1 = m /\ m \in 0..(m + 1) /\ m # m + 1
        BY <3>1
      <4>2. QED
        BY <3>1, <4>1
    <3>2. CASE n = 0
      BY <2>1, <3>2
    <3>3. CASE n # m + 1 /\ n # 0
      <4>1. n \in 0..m /\ n - 1 \in 0..(m + 1) /\ n - 1 # m + 1
        BY <3>3
      <4>2. g[n] = f[n] /\ g[n - 1] = f[n - 1]
        BY <3>3, <4>1
      <4>3. f[n] = IF n = 0 THEN <<>>
                   ELSE IF s[n] \in T THEN Append(f[n - 1], s[n])
                   ELSE f[n - 1]
        BY <2>1, <4>1
      <4> HIDE DEF g
      <4>4. QED
        BY <4>2, <4>3
    <3>4. QED
      BY <3>1, <3>2, <3>3
  <2>3. Obeys(g, m + 1)
    <3>1. g = [n \in 0..(m + 1) |-> g[n]]
      OBVIOUS
    <3> HIDE DEF g
    <3>2. QED
      BY <2>2, <3>1
  <2>4. m + 1 \in Nat
    OBVIOUS
  <2> HIDE DEF g, Obeys
  <2>5. QED
    BY <2>3, <2>4
<1>3. Nat \subseteq N
  <2> HIDE DEF N
  <2>1. QED
    BY <1>1, <1>2, CountingUp
<1>4. Len(s) \in Nat
  BY LenProperties
<1> DEFINE picked == CHOOSE f : Obeys(f, Len(s))
<1>5. Obeys(picked, Len(s))
  <2>1. \E f : Obeys(f, Len(s))
    BY <1>3, <1>4
  <2> HIDE DEF Obeys
  <2>2. QED
    BY <2>1
<1>6. Select(s, T) = picked[Len(s)]
  BY DEF Select
<1> HIDE DEF picked
<1>7. picked[0] = <<>>
  BY <1>4, <1>5
<1>8. ASSUME NEW n \in 1..Len(s)
      PROVE  picked[n] = IF s[n] \in T THEN Append(picked[n - 1], s[n]) ELSE picked[n - 1]
  <2>1. n \in 0..Len(s) /\ n # 0
    BY <1>4
  <2>2. QED
    BY <1>5, <2>1
<1>9. QED
  BY <1>6, <1>7, <1>8

LEMMA SelectEmpty ==
  ASSUME NEW T
  PROVE  Select(<<>>, T) = <<>>
<1>1. PICK none : none = <<>>
  OBVIOUS
<1>2. none \in Seq({}) /\ Len(none) = 0
  BY <1>1, EmptySeq
<1>3. PICK f : /\ f[0] = <<>>
               /\ \A n \in 1..Len(none) :
                    f[n] = IF none[n] \in T THEN Append(f[n - 1], none[n]) ELSE f[n - 1]
               /\ Select(none, T) = f[Len(none)]
  BY <1>2, SelectRecursion
<1>4. QED
  BY <1>1, <1>2, <1>3

\* Select meets one element after the other.
LEMMA SelectAppend ==
  ASSUME NEW S, NEW s \in Seq(S), NEW e \in S, NEW T
  PROVE  Select(Append(s, e), T) = IF e \in T THEN Append(Select(s, T), e) ELSE Select(s, T)
<1> DEFINE t == Append(s, e)
<1>1. /\ t \in Seq(S) /\ Len(s) \in Nat /\ Len(t) = Len(s) + 1
      /\ t[Len(s) + 1] = e
      /\ \A n \in 1..Len(s) : t[n] = s[n]
  BY AppendProperties, LenProperties
<1> HIDE DEF t
<1>2. PICK f : /\ f[0] = <<>>
               /\ \A n \in 1..Len(s) :
                    f[n] = IF s[n] \in T THEN Append(f[n - 1], s[n]) ELSE f[n - 1]
               /\ Select(s, T) = f[Len(s)]
  BY SelectRecursion
<1>3. PICK g : /\ g[0] = <<>>
               /\ \A n \in 1..Len(t) :
                    g[n] = IF t[n] \in T THEN Append(g[n - 1], t[n]) ELSE g[n - 1]
               /\ Select(t, T) = g[Len(t)]
  BY <1>1, SelectRecursion
<1> DEFINE M == {n \in Nat : n <= Len(s) => g[n] = f[n]}
<1>4. 0 \in M
  BY <1>2, <1>3
<1>5. ASSUME NEW n \in Nat, n \in M
      PROVE  n + 1 \in M
  <2> SUFFICES ASSUME n + 1 <= Len(s)
               PROVE  g[n + 1] = f[n + 1]
    OBVIOUS
  <2>1. n + 1 \in 1..Len(s) /\ n + 1 \in 1..Len(t) /\ (n + 1) - 1 = n /\ n <= Len(s)
    BY <1>1
  <2>2. g[n] = f[n] /\ t[n + 1] = s[n + 1]
    BY <1>1, <1>5, <2>1
  <2>3. f[n + 1] = IF s[n + 1] \in T THEN Append(f[n], s[n + 1]) ELSE f[n]
    BY <1>2, <2>1
  <2>4. g[n + 1] = IF t[n + 1] \in T THEN Append(g[n], t[n + 1]) ELSE g[n]
    BY <1>3, <2>1
  <2>5. QED
    BY <2>2, <2>3, <2>4
<1> HIDE DEF M
<1>6. Nat \subseteq M
  BY <1>4, <1>5, CountingUp
<1>7. g[Len(s)] = f[Len(s)]
  BY <1>1, <1>6 DEF M
<1>8. g[Len(s) + 1] = IF t[Len(s) + 1] \in T THEN Append(g[Len(s)], t[Len(s) + 1]) ELSE g[Len(s)]
  <2>1. Len(s) + 1 \in 1..Len(t) /\ (Len(s) + 1) - 1 = Len(s)
    BY <1>1
  <2>2. QED
    BY <1>3, <2>1
<1>9. QED
  BY <1>1, <1>2, <1>3, <1>7, <1>8 DEF t

\* What Select returns is a sequence of elements of both sets.
LEMMA SelectIsSeq ==
  ASSUME NEW S, NEW s \in Seq(S), NEW T
  PROVE  Select(s, T) \in Seq(S \intersect T)
<1> DEFINE Q == {r \in Seq(S) : Select(r, T) \in Seq(S \intersect T)}
<1>1. <<>> \in Q
  BY SelectEmpty, EmptySeq
<1>2. ASSUME NEW r \in Seq(S), NEW e \in S, r \in Q
      PROVE  Append(r, e) \in Q
  <2>1. Append(r, e) \in Seq(S)
    BY AppendProperties
  <2>2. Select(r, T) \in Seq(S \intersect T)
    BY <1>2
  <2>3. CASE e \in T
    <3>1. Select(Append(r, e), T) = Append(Select(r, T), e)
      BY <2>3, SelectAppend
    <3>2. Append(Select(r, T), e) \in Seq(S \intersect T)
      BY <2>2, <2>3, AppendProperties
    <3>3. QED
      BY <2>1, <3>1, <3>2
  <2>4. CASE e \notin T
    BY <2>1, <2>2, <2>4, SelectAppend
  <2>5. QED
    BY <2>3, <2>4
<1> HIDE DEF Q
<1>3. Seq(S) \subseteq Q
  BY <1>1, <1>2, AppendingOn
<1>4. QED
  BY <1>3 DEF Q

LEMMA SelectStays ==
  ASSUME NEW S, NEW s \in Seq(S), NEW T
  PROVE  Select(s, T) \in Seq(S)
<1>1. S \intersect T \subseteq S
  OBVIOUS
<1>2. QED
  BY <1>1, SelectIsSeq, SeqMonotonic

\* Sets that agree on the elements of s select the same.
LEMMA SelectSame ==
  ASSUME NEW S, NEW s \in Seq(S), NEW T, NEW U,
         \A i \in 1..Len(s) : s[i] \in T <=> s[i] \in U
  PROVE  Select(s, T) = Select(s, U)
<1> DEFINE Q == {r \in Seq(S) :
                   (\A i \in 1..Len(r) : r[i] \in T <=> r[i] \in U)
                   => Select(r, T) = Select(r, U)}
<1>1. <<>> \in Q
  BY SelectEmpty, EmptySeq
<1>2. ASSUME NEW r \in Seq(S), NEW e \in S, r \in Q
      PROVE  Append(r, e) \in Q
  <2>1. /\ Append(r, e) \in Seq(S) /\ Len(r) \in Nat /\ Len(Append(r, e)) = Len(r) + 1
        /\ Append(r, e)[Len(r) + 1] = e
        /\ \A i \in 1..Len(r) : Append(r, e)[i] = r[i]
    BY AppendProperties, LenProperties
  <2> SUFFICES ASSUME \A i \in 1..Len(Append(r, e)) : Append(r, e)[i] \in T <=> Append(r, e)[i] \in U
               PROVE  Select(Append(r, e), T) = Select(Append(r, e), U)
    BY <2>1
  <2>2. e \in T <=> e \in U
    <3>1. Len(r) + 1 \in 1..Len(Append(r, e))
      BY <2>1
    <3>2. QED
      BY <2>1, <3>1
  <2>3. \A i \in 1..Len(r) : r[i] \in T <=> r[i] \in U
    BY <2>1
  <2>4. Select(r, T) = Select(r, U)
    BY <1>2, <2>3
  <2>5. /\ Select(Append(r, e), T) = IF e \in T THEN Append(Select(r, T), e) ELSE Select(r, T)
        /\ Select(Append(r, e), U) = IF e \in U THEN Append(Select(r, U), e) ELSE Select(r, U)
    BY SelectAppend
  <2>6. QED
    BY <2>2, <2>4, <2>5
<1> HIDE DEF Q
<1>3. Seq(S) \subseteq Q
  BY <1>1, <1>2, AppendingOn
<1>4. QED
  BY <1>3 DEF Q

\* Of what U selects, T selects what it selects of the whole, if U leaves it in.
LEMMA SelectTwice ==
  ASSUME NEW S, NEW s \in Seq(S), NEW T, NEW U, S \intersect T \subseteq U
  PROVE  Select(Select(s, U), T) = Select(s, T)
<1> DEFINE Q == {r \in Seq(S) : Select(Select(r, U), T) = Select(r, T)}
<1>1. <<>> \in Q
  BY SelectEmpty, EmptySeq
<1>2. ASSUME NEW r \in Seq(S), NEW e \in S, r \in Q
      PROVE  Append(r, e) \in Q
  <2>1. Append(r, e) \in Seq(S)
    BY AppendProperties
  <2>2. Select(r, U) \in Seq(S)
    BY SelectStays
  <2>3. Select(Append(Select(r, U), e), T)
          = IF e \in T THEN Append(Select(Select(r, U), T), e) ELSE Select(Select(r, U), T)
    BY <2>2, SelectAppend
  <2>4. Select(Append(r, e), T) = IF e \in T THEN Append(Select(r, T), e) ELSE Select(r, T)
    BY SelectAppend
  <2>5. Select(Append(r, e), U) = IF e \in U THEN Append(Select(r, U), e) ELSE Select(r, U)
    BY SelectAppend
  <2>6. Select(Select(r, U), T) = Select(r, T)
    BY <1>2
  <2>7. Select(Select(Append(r, e), U), T) = Select(Append(r, e), T)
    <3>1. CASE e \in U
      BY <2>3, <2>4, <2>5, <2>6, <3>1
    <3>2. CASE e \notin U
      BY <2>4, <2>5, <2>6, <3>2
    <3>3. QED
      BY <3>1, <3>2
  <2>8. QED
    BY <2>1, <2>7
<1> HIDE DEF Q
<1>3. Seq(S) \subseteq Q
  BY <1>1, <1>2, AppendingOn
<1>4. QED
  BY <1>3 DEF Q

\* Select of a concatenation is the concatenation of what it selects.
LEMMA SelectConcat ==
  ASSUME NEW S, NEW s \in Seq(S), NEW t \in Seq(S), NEW T
  PROVE  Select(s \o t, T) = Select(s, T) \o Select(t, T)
<1> DEFINE Q == {r \in Seq(S) : Select(s \o r, T) = Select(s, T) \o Select(r, T)}
<1>0. Select(s, T) \in Seq(S)
  BY SelectStays
<1>1. <<>> \in Q
  <2>1. <<>> \in Seq(S) /\ s \o <<>> = s /\ Select(s, T) \o <<>> = Select(s, T)
    BY <1>0, EmptySeq, ConcatEmptySeq
  <2>2. QED
    BY <2>1, SelectEmpty
<1>2. ASSUME NEW r \in Seq(S), NEW e \in S, r \in Q
      PROVE  Append(r, e) \in Q
  <2>1. Append(r, e) \in Seq(S)
    BY AppendProperties
  <2>2. s \o Append(r, e) = Append(s \o r, e) /\ s \o r \in Seq(S)
    <3>1. <<e>> \in Seq(S) /\ s \o r \in Seq(S)
      BY ConcatProperties
    <3>2. Append(r, e) = r \o <<e>> /\ Append(s \o r, e) = (s \o r) \o <<e>>
      BY <3>1, AppendIsConcat
    <3>3. QED
      BY <3>1, <3>2, ConcatAssociative
  <2>3. Select(Append(s \o r, e), T)
          = IF e \in T THEN Append(Select(s \o r, T), e) ELSE Select(s \o r, T)
    BY <2>2, SelectAppend
  <2>4. Select(Append(r, e), T) = IF e \in T THEN Append(Select(r, T), e) ELSE Select(r, T)
    BY SelectAppend
  <2>5. Select(s \o r, T) = Select(s, T) \o Select(r, T)
    BY <1>2
  <2>6. Select(s, T) \o Append(Select(r, T), e) = Append(Select(s, T) \o Select(r, T), e)
    <3>1. <<e>> \in Seq(S) /\ Select(r, T) \in Seq(S) /\ Select(s, T) \o Select(r, T) \in Seq(S)
      BY <1>0, SelectStays, ConcatProperties
    <3>2. /\ Append(Select(r, T), e) = Select(r, T) \o <<e>>
          /\ Append(Select(s, T) \o Select(r, T), e) = (Select(s, T) \o Select(r, T)) \o <<e>>
      BY <3>1, AppendIsConcat
    <3>3. QED
      BY <1>0, <3>1, <3>2, ConcatAssociative
  <2>7. QED
    BY <2>1, <2>2, <2>3, <2>4, <2>5, <2>6
<1> HIDE DEF Q
<1>3. Seq(S) \subseteq Q
  BY <1>1, <1>2, AppendingOn
<1>4. QED
  BY <1>3 DEF Q

LEMMA SelectNone ==
  ASSUME NEW S, NEW s \in Seq(S), NEW T, S \intersect T = {}
  PROVE  Select(s, T) = <<>>
<1>1. Select(s, T) \in Seq({})
  BY SelectIsSeq
<1>2. Len(Select(s, T)) \in Nat
  BY <1>1, LenProperties
<1>3. ASSUME Len(Select(s, T)) # 0
      PROVE  FALSE
  <2>1. 1 \in 1..Len(Select(s, T))
    BY <1>2, <1>3
  <2>2. Select(s, T)[1] \in {}
    BY <1>1, <2>1, ElementOfSeq
  <2>3. QED
    BY <2>2
<1>4. QED
  BY <1>1, <1>3, EmptySeq

\* Replacing an element that is not selected by another such selects the same.
LEMMA SelectReplace ==
  ASSUME NEW S, NEW s \in Seq(S), NEW T, NEW i \in 1..Len(s), NEW e \in S,
         s[i] \notin T, e \notin T
  PROVE  Select(ReplaceAt(s, i, e), T) = Select(s, T)
<1> DEFINE Q == {r \in Seq(S) :
                   \A j \in 1..Len(r) :
                     r[j] \notin T => Select([r EXCEPT ![j] = e], T) = Select(r, T)}
<1>1. <<>> \in Q
  BY EmptySeq
<1>2. ASSUME NEW r \in Seq(S), NEW x \in S, r \in Q
      PROVE  Append(r, x) \in Q
  <2>1. /\ Append(r, x) \in Seq(S) /\ Len(r) \in Nat /\ Len(Append(r, x)) = Len(r) + 1
        /\ Append(r, x)[Len(r) + 1] = x
        /\ \A j \in 1..Len(r) : Append(r, x)[j] = r[j]
    BY AppendProperties, LenProperties
  <2> SUFFICES ASSUME NEW j \in 1..(Len(r) + 1), Append(r, x)[j] \notin T
               PROVE  Select([Append(r, x) EXCEPT ![j] = e], T) = Select(Append(r, x), T)
    BY <2>1
  <2> DEFINE t == [Append(r, x) EXCEPT ![j] = e]
  <2>2. /\ t \in Seq(S) /\ Len(t) = Len(r) + 1
        /\ \A l \in 1..(Len(r) + 1) : t[l] = IF l = j THEN e ELSE Append(r, x)[l]
    <3>1. PICK w : w = Append(r, x)
      OBVIOUS
    <3>2. w \in Seq(S) /\ Len(w) = Len(r) + 1 /\ j \in 1..Len(w)
      BY <2>1, <3>1
    <3>3. /\ [w EXCEPT ![j] = e] \in Seq(S)
          /\ Len([w EXCEPT ![j] = e]) = Len(w)
          /\ \A l \in 1..Len(w) : [w EXCEPT ![j] = e][l] = IF l = j THEN e ELSE w[l]
      BY <3>2, ExceptSeq
    <3>4. t = [w EXCEPT ![j] = e]
      BY <3>1
    <3> HIDE DEF t
    <3>5. QED
      BY <3>1, <3>2, <3>3, <3>4
  <2>3. Select(Append(r, x), T) = IF x \in T THEN Append(Select(r, T), x) ELSE Select(r, T)
    BY SelectAppend
  <2>4. ASSUME j = Len(r) + 1
        PROVE  Select(t, T) = Select(Append(r, x), T)
    <3>1. /\ Append(r, e) \in Seq(S) /\ Len(Append(r, e)) = Len(r) + 1
          /\ Append(r, e)[Len(r) + 1] = e
          /\ \A l \in 1..Len(r) : Append(r, e)[l] = r[l]
      BY AppendProperties
    <3> HIDE DEF t
    <3>2. ASSUME NEW l \in 1..Len(t)
          PROVE  t[l] = Append(r, e)[l]
      BY <2>1, <2>2, <2>4, <3>1
    <3>3. t = Append(r, e)
      BY <2>2, <3>1, <3>2, SeqEqual
    <3>4. Select(Append(r, e), T) = Select(r, T)
      BY SelectAppend
    <3>5. x \notin T
      BY <2>1, <2>4
    <3>6. QED
      BY <2>3, <3>3, <3>4, <3>5
  <2>5. ASSUME j # Len(r) + 1
        PROVE  Select(t, T) = Select(Append(r, x), T)
    <3> DEFINE u == [r EXCEPT ![j] = e]
    <3>1. j \in 1..Len(r)
      BY <2>1, <2>5
    <3>2. /\ u \in Seq(S) /\ Len(u) = Len(r)
          /\ \A l \in 1..Len(r) : u[l] = IF l = j THEN e ELSE r[l]
      BY <3>1, ExceptSeq
    <3>3. Select(u, T) = Select(r, T)
      BY <1>2, <2>1, <3>1
    <3> HIDE DEF t, u
    <3>4. /\ Append(u, x) \in Seq(S) /\ Len(Append(u, x)) = Len(r) + 1
          /\ Append(u, x)[Len(r) + 1] = x
          /\ \A l \in 1..Len(r) : Append(u, x)[l] = u[l]
      <4>1. u \in Seq(S) /\ Len(u) = Len(r)
        BY <3>2
      <4>2. /\ Append(u, x) \in Seq(S) /\ Len(Append(u, x)) = Len(u) + 1
            /\ Append(u, x)[Len(u) + 1] = x
            /\ \A l \in 1..Len(u) : Append(u, x)[l] = u[l]
        BY <4>1, AppendProperties
      <4>3. QED
        BY <4>1, <4>2
    <3>5. ASSUME NEW l \in 1..Len(t)
          PROVE  t[l] = Append(u, x)[l]
      <4>1. CASE l = Len(r) + 1
        BY <2>1, <2>2, <2>5, <3>4, <4>1
      <4>2. CASE l # Len(r) + 1
        <5>1. l \in 1..Len(r)
          BY <2>1, <2>2, <4>2
        <5>2. QED
          BY <2>1, <2>2, <3>2, <3>4, <5>1
      <4>3. QED
        BY <4>1, <4>2
    <3>6. t = Append(u, x)
      BY <2>2, <3>4, <3>5, SeqEqual
    <3>7. Select(Append(u, x), T) = IF x \in T THEN Append(Select(u, T), x) ELSE Select(u, T)
      BY <3>2, SelectAppend
    <3>8. QED
      BY <2>3, <3>3, <3>6, <3>7
  <2>6. Select(t, T) = Select(Append(r, x), T)
    BY <2>4, <2>5
  <2>7. QED
    BY <2>6
<1> HIDE DEF Q
<1>3. Seq(S) \subseteq Q
  BY <1>1, <1>2, AppendingOn
<1>4. QED
  BY <1>3 DEF Q, ReplaceAt

\* s is a followed by b, and InsertAt puts e between them.
Cut(s, i, e, a, b) ==
  /\ s = a \o b
  /\ Len(a) = i - 1
  /\ InsertAt(s, i, e) = (a \o <<e>>) \o b
  /\ \A j \in 1..Len(a) : a[j] = s[j]
  /\ \A j \in 1..Len(b) : b[j] = s[Len(a) + j]

\* InsertAt cuts s in two.
LEMMA InsertCuts ==
  ASSUME NEW S, NEW s \in Seq(S), NEW i \in 1..(Len(s) + 1), NEW e \in S
  PROVE  \E a, b \in Seq(S) : Cut(s, i, e, a, b)
<1> DEFINE a == SubSeq(s, 1, i - 1)
           b == SubSeq(s, i, Len(s))
<1>0. Len(s) \in Nat /\ s \in [1..Len(s) -> S]
  BY LenProperties
<1>1. /\ a \in Seq(S) /\ Len(a) = i - 1
      /\ \A j \in 1..(i - 1) : a[j] = s[j]
  <2>1. \A j \in 1..(i - 1) : s[j] \in S
    BY <1>0
  <2>2. /\ a \in Seq(S) /\ Len(a) = IF 1 <= i - 1 THEN (i - 1) - 1 + 1 ELSE 0
        /\ \A j \in 1..((i - 1) - 1 + 1) : a[j] = s[1 + j - 1]
    BY <2>1, SubSeqProperties
  <2> HIDE DEF a
  <2>3. i - 1 \in Nat /\ (i - 1) - 1 + 1 = i - 1
    BY <1>0
  <2>4. Len(a) = i - 1
    BY <2>2, <2>3
  <2>5. ASSUME NEW j \in 1..(i - 1)
        PROVE  a[j] = s[j]
    <3>1. j \in 1..((i - 1) - 1 + 1) /\ 1 + j - 1 = j
      BY <2>3
    <3>2. a[j] = s[1 + j - 1]
      BY <2>2, <3>1
    <3>3. QED
      BY <3>1, <3>2
  <2>6. QED
    BY <2>2, <2>4, <2>5
<1>2. /\ b \in Seq(S) /\ Len(b) = Len(s) - (i - 1)
      /\ \A j \in 1..Len(b) : b[j] = s[(i - 1) + j]
  <2>1. \A j \in i..Len(s) : s[j] \in S
    BY <1>0
  <2>2. /\ b \in Seq(S) /\ Len(b) = IF i <= Len(s) THEN Len(s) - i + 1 ELSE 0
        /\ \A j \in 1..(Len(s) - i + 1) : b[j] = s[i + j - 1]
    BY <1>0, <2>1, SubSeqProperties
  <2> HIDE DEF b
  <2>3. ASSUME NEW j \in 1..Len(b)
        PROVE  b[j] = s[(i - 1) + j]
    <3>1. i + j - 1 = (i - 1) + j /\ j \in 1..(Len(s) - i + 1)
      BY <1>0, <2>2
    <3>2. QED
      BY <2>2, <3>1
  <2>4. QED
    BY <1>0, <2>2, <2>3
<1>3. InsertAt(s, i, e) = (a \o <<e>>) \o b
  BY DEF InsertAt
<1> HIDE DEF a, b
<1>4. s = a \o b
  <2>1. /\ a \o b \in Seq(S) /\ Len(a \o b) = Len(a) + Len(b)
        /\ \A j \in 1..(Len(a) + Len(b)) :
             (a \o b)[j] = IF j <= Len(a) THEN a[j] ELSE b[j - Len(a)]
    BY <1>1, <1>2, ConcatProperties
  <2>2. Len(a) + Len(b) = Len(s)
    BY <1>0, <1>1, <1>2
  <2>3. ASSUME NEW j \in 1..Len(s)
        PROVE  s[j] = (a \o b)[j]
    <3>1. CASE j <= Len(a)
      BY <1>1, <2>1, <2>2, <3>1
    <3>2. CASE ~ (j <= Len(a))
      <4>1. Len(a) \in Nat /\ Len(b) \in Nat /\ Len(a) = i - 1 /\ j <= Len(a) + Len(b)
        BY <1>1, <1>2, <2>2, LenProperties
      <4>2. j - Len(a) \in 1..Len(b) /\ (i - 1) + (j - Len(a)) = j /\ j \in 1..(Len(a) + Len(b))
        BY <3>2, <4>1
      <4>3. (a \o b)[j] = b[j - Len(a)]
        BY <2>1, <3>2, <4>2
      <4>4. b[j - Len(a)] = s[j]
        BY <1>2, <4>2
      <4>5. QED
        BY <4>3, <4>4
    <3>3. QED
      BY <3>1, <3>2
  <2>4. QED
    BY <2>1, <2>2, <2>3, SeqEqual
<1>5. Cut(s, i, e, a, b)
  BY <1>1, <1>2, <1>3, <1>4 DEF Cut
<1>6. QED
  BY <1>1, <1>2, <1>5

LEMMA SelectOne ==
  ASSUME NEW S, NEW e \in S, NEW T
  PROVE  Select(<<e>>, T) = IF e \in T THEN <<e>> ELSE <<>>
<1>1. PICK none : none = <<>>
  OBVIOUS
<1>2. none \in Seq(S) /\ Append(none, e) = <<e>>
  BY <1>1, EmptySeq
<1>3. Select(Append(none, e), T) = IF e \in T THEN Append(Select(none, T), e) ELSE Select(none, T)
  BY <1>2, SelectAppend
<1>4. Select(none, T) = none
  BY <1>1, SelectEmpty
<1>5. QED
  BY <1>1, <1>2, <1>3, <1>4

\* An element put into s: as if it were not there, if it is not selected, and
\* behind the others selected, if none of those stood at its place or behind.
LEMMA SelectInsert ==
  ASSUME NEW S, NEW s \in Seq(S), NEW T, NEW i \in 1..(Len(s) + 1), NEW e \in S
  PROVE  /\ InsertAt(s, i, e) \in Seq(S)
         /\ Len(InsertAt(s, i, e)) = Len(s) + 1
         /\ InsertAt(s, i, e)[i] = e
         /\ \A j \in 1..(i - 1) : InsertAt(s, i, e)[j] = s[j]
         /\ \A j \in (i + 1)..(Len(s) + 1) : InsertAt(s, i, e)[j] = s[j - 1]
         /\ e \notin T => Select(InsertAt(s, i, e), T) = Select(s, T)
         /\ e \in T /\ (\A j \in i..Len(s) : s[j] \notin T)
              => Select(InsertAt(s, i, e), T) = Append(Select(s, T), e)
<1>0. PICK a \in Seq(S), b \in Seq(S) : Cut(s, i, e, a, b)
  BY InsertCuts
<1>1. /\ s = a \o b
      /\ Len(a) = i - 1
      /\ InsertAt(s, i, e) = (a \o <<e>>) \o b
      /\ \A j \in 1..Len(a) : a[j] = s[j]
      /\ \A j \in 1..Len(b) : b[j] = s[Len(a) + j]
  BY <1>0 DEF Cut
<1> DEFINE m == a \o <<e>>
           t == m \o b
<1>2. /\ Len(s) \in Nat /\ Len(a) \in Nat /\ Len(b) \in Nat
      /\ Len(s) = Len(a) + Len(b)
      /\ <<e>> \in Seq(S) /\ Len(<<e>>) = 1 /\ <<e>>[1] = e
  <2>1. Len(s) \in Nat /\ Len(a) \in Nat /\ Len(b) \in Nat
    BY LenProperties
  <2>2. Len(s) = Len(a) + Len(b)
    BY <1>1, ConcatProperties
  <2>3. <<e>> \in Seq(S) /\ Len(<<e>>) = 1 /\ <<e>>[1] = e
    OBVIOUS
  <2>4. QED
    BY <2>1, <2>2, <2>3
<1>3. /\ m \in Seq(S) /\ Len(m) = i
      /\ \A j \in 1..i : m[j] = IF j <= Len(a) THEN a[j] ELSE <<e>>[j - Len(a)]
  <2>1. /\ m \in Seq(S) /\ Len(m) = Len(a) + Len(<<e>>)
        /\ \A j \in 1..(Len(a) + Len(<<e>>)) :
             m[j] = IF j <= Len(a) THEN a[j] ELSE <<e>>[j - Len(a)]
    BY <1>2, ConcatProperties
  <2> HIDE DEF m
  <2>2. Len(a) + Len(<<e>>) = i
    BY <1>1, <1>2
  <2>3. QED
    BY <2>1, <2>2
<1> HIDE DEF m
<1>4. /\ t \in Seq(S) /\ Len(t) = Len(m) + Len(b)
      /\ \A j \in 1..(Len(m) + Len(b)) : t[j] = IF j <= Len(m) THEN m[j] ELSE b[j - Len(m)]
  BY <1>3, ConcatProperties
<1>5. t = InsertAt(s, i, e)
  BY <1>1 DEF m
<1> HIDE DEF t
<1>6. t \in Seq(S) /\ Len(t) = Len(s) + 1
  BY <1>1, <1>2, <1>3, <1>4
<1>7. t[i] = e
  <2>1. i \in 1..(Len(m) + Len(b)) /\ i <= Len(m) /\ i \in 1..i /\ ~ (i <= Len(a)) /\ i - Len(a) = 1
    BY <1>1, <1>2, <1>3
  <2>2. QED
    BY <1>2, <1>3, <1>4, <2>1
<1>8. ASSUME NEW j \in 1..(i - 1)
      PROVE  t[j] = s[j]
  <2>1. j \in 1..(Len(m) + Len(b)) /\ j <= Len(m) /\ j \in 1..i /\ j <= Len(a) /\ j \in 1..Len(a)
    BY <1>1, <1>2, <1>3
  <2>2. QED
    BY <1>1, <1>3, <1>4, <2>1
<1>9. ASSUME NEW j \in (i + 1)..(Len(s) + 1)
      PROVE  t[j] = s[j - 1]
  <2>1. /\ j \in 1..(Len(m) + Len(b)) /\ ~ (j <= Len(m)) /\ j - Len(m) \in 1..Len(b)
        /\ Len(a) + (j - Len(m)) = j - 1
    BY <1>1, <1>2, <1>3
  <2>2. QED
    BY <1>1, <1>4, <2>1
<1>10. /\ Select(t, T) = (Select(a, T) \o Select(<<e>>, T)) \o Select(b, T)
       /\ Select(s, T) = Select(a, T) \o Select(b, T)
       /\ Select(a, T) \in Seq(S) /\ Select(b, T) \in Seq(S)
  <2>1. Select(m, T) = Select(a, T) \o Select(<<e>>, T)
    <3>1. PICK one \in Seq(S) : one = <<e>>
      BY <1>2
    <3>2. Select(a \o one, T) = Select(a, T) \o Select(one, T)
      BY SelectConcat, SMTT(30)
    <3>3. QED
      BY <3>1, <3>2 DEF m
  <2>2. Select(t, T) = Select(m, T) \o Select(b, T)
    <3>1. Select(m \o b, T) = Select(m, T) \o Select(b, T)
      BY <1>3, SelectConcat, SMTT(30)
    <3>2. QED
      BY <3>1 DEF t
  <2>3. Select(a \o b, T) = Select(a, T) \o Select(b, T)
    BY SelectConcat
  <2>4. QED
    BY <1>1, <2>1, <2>2, <2>3, SelectStays
<1>11. ASSUME e \notin T
       PROVE  Select(t, T) = Select(s, T)
  <2>1. Select(<<e>>, T) = <<>>
    BY <1>11, SelectOne
  <2>2. Select(a, T) \o <<>> = Select(a, T)
    BY <1>10, ConcatEmptySeq
  <2>3. QED
    BY <1>10, <2>1, <2>2
<1>12. ASSUME e \in T, \A j \in i..Len(s) : s[j] \notin T
       PROVE  Select(t, T) = Append(Select(s, T), e)
  <2>1. Select(<<e>>, T) = <<e>>
    BY <1>12, SelectOne
  <2>2. Select(b, T) = <<>>
    <3>1. b \in Seq(S \ T)
      <4>1. \A j \in 1..Len(b) : b[j] \in S \ T
        <5> SUFFICES ASSUME NEW j \in 1..Len(b)
                     PROVE  b[j] \in S \ T
          OBVIOUS
        <5>1. b[j] = s[Len(a) + j] /\ Len(a) + j \in i..Len(s)
          BY <1>1, <1>2
        <5>2. b[j] \in S
          BY ElementOfSeq
        <5>3. QED
          BY <1>12, <5>1, <5>2
      <4>2. b \in [1..Len(b) -> S]
        BY LenProperties
      <4>3. b \in [1..Len(b) -> S \ T]
        BY <4>1, <4>2
      <4>4. QED
        BY <1>2, <4>3
    <3>2. QED
      BY <3>1, SelectNone
  <2>3. Select(a, T) \o <<>> = Select(a, T) /\ (Select(a, T) \o <<e>>) \o <<>> = Select(a, T) \o <<e>>
    BY <1>2, <1>10, ConcatProperties, ConcatEmptySeq
  <2>4. Append(Select(a, T), e) = Select(a, T) \o <<e>>
    BY <1>10, AppendIsConcat
  <2>5. QED
    BY <1>10, <2>1, <2>2, <2>3, <2>4
<1>13. QED
  BY <1>5, <1>6, <1>7, <1>8, <1>9, <1>11, <1>12

-----------------------------------------------------------------------------
(* What Select returns, as a set                                           *)

LEMMA RangeOfAppend ==
  ASSUME NEW S, NEW s \in Seq(S), NEW e \in S
  PROVE  Range(Append(s, e)) = Range(s) \union {e}
<1>1. /\ Append(s, e) \in Seq(S) /\ Len(Append(s, e)) = Len(s) + 1 /\ Len(s) \in Nat
      /\ Append(s, e)[Len(s) + 1] = e
      /\ \A i \in 1..Len(s) : Append(s, e)[i] = s[i]
  BY AppendProperties, LenProperties
<1>2. /\ Range(s) = {s[i] : i \in 1..Len(s)}
      /\ Range(Append(s, e)) = {Append(s, e)[i] : i \in 1..Len(Append(s, e))}
  BY <1>1, LenProperties DEF Range
<1>3. 1..Len(Append(s, e)) = 1..Len(s) \union {Len(s) + 1}
  BY <1>1
<1>4. QED
  BY <1>1, <1>2, <1>3

LEMMA SelectRange ==
  ASSUME NEW S, NEW s \in Seq(S), NEW T
  PROVE  Range(Select(s, T)) = Range(s) \intersect T
<1> DEFINE Q == {r \in Seq(S) : Range(Select(r, T)) = Range(r) \intersect T}
<1>1. <<>> \in Q
  <2>1. Range(<<>>) = {}
    BY DEF Range
  <2>2. QED
    BY <2>1, SelectEmpty, EmptySeq
<1>2. ASSUME NEW r \in Seq(S), NEW e \in S, r \in Q
      PROVE  Append(r, e) \in Q
  <2>1. Append(r, e) \in Seq(S) /\ Range(Append(r, e)) = Range(r) \union {e}
    BY AppendProperties, RangeOfAppend
  <2>2. Select(r, T) \in Seq(S) /\ Range(Select(r, T)) = Range(r) \intersect T
    BY <1>2, SelectStays
  <2>3. CASE e \in T
    <3>1. Select(Append(r, e), T) = Append(Select(r, T), e)
      BY <2>3, SelectAppend
    <3>2. Range(Append(Select(r, T), e)) = Range(Select(r, T)) \union {e}
      BY <2>2, RangeOfAppend
    <3>3. QED
      BY <2>1, <2>2, <2>3, <3>1, <3>2
  <2>4. CASE e \notin T
    <3>1. Select(Append(r, e), T) = Select(r, T)
      BY <2>4, SelectAppend
    <3>2. QED
      BY <2>1, <2>2, <2>4, <3>1
  <2>5. QED
    BY <2>3, <2>4
<1> HIDE DEF Q
<1>3. Seq(S) \subseteq Q
  BY <1>1, <1>2, AppendingOn
<1>4. QED
  BY <1>3 DEF Q

\* No element stands twice.
Apart(s) == \A i, j \in 1..Len(s) : s[i] = s[j] => i = j

LEMMA ApartAppend ==
  ASSUME NEW S, NEW s \in Seq(S), NEW e \in S
  PROVE  Apart(Append(s, e)) <=> Apart(s) /\ e \notin Range(s)
<1> DEFINE t == Append(s, e)
<1>1. /\ Len(t) = Len(s) + 1 /\ Len(s) \in Nat /\ DOMAIN s = 1..Len(s)
      /\ t[Len(s) + 1] = e
      /\ \A i \in 1..Len(s) : t[i] = s[i]
  BY AppendProperties, LenProperties
<1> HIDE DEF t
<1>2. ASSUME Apart(t)
      PROVE  Apart(s) /\ e \notin Range(s)
  <2>1. Apart(s)
    BY <1>1, <1>2 DEF Apart
  <2>2. ASSUME NEW i \in 1..Len(s), s[i] = e
        PROVE  FALSE
    <3>1. t[i] = t[Len(s) + 1] /\ i \in 1..Len(t) /\ Len(s) + 1 \in 1..Len(t) /\ i # Len(s) + 1
      BY <1>1, <2>2
    <3>2. QED
      BY <1>2, <3>1 DEF Apart
  <2>3. QED
    BY <1>1, <2>1, <2>2 DEF Range
<1>3. ASSUME Apart(s), e \notin Range(s)
      PROVE  Apart(t)
  <2>1. \A i \in 1..Len(s) : s[i] # e
    BY <1>1, <1>3 DEF Range
  <2>2. ASSUME NEW i \in 1..Len(t), NEW j \in 1..Len(t), t[i] = t[j]
        PROVE  i = j
    <3>1. CASE i \in 1..Len(s) /\ j \in 1..Len(s)
      BY <1>1, <1>3, <2>2, <3>1 DEF Apart
    <3>2. CASE i \notin 1..Len(s) \/ j \notin 1..Len(s)
      <4>1. (i = Len(s) + 1 \/ i \in 1..Len(s)) /\ (j = Len(s) + 1 \/ j \in 1..Len(s))
        BY <1>1
      <4>2. QED
        BY <1>1, <2>1, <2>2, <3>2, <4>1
    <3>3. QED
      BY <3>1, <3>2
  <2>3. QED
    BY <2>2 DEF Apart
<1>4. QED
  BY <1>2, <1>3 DEF t

LEMMA SelectApart ==
  ASSUME NEW S, NEW s \in Seq(S), NEW T, Apart(s)
  PROVE  Apart(Select(s, T))
<1> DEFINE Q == {r \in Seq(S) : Apart(r) => Apart(Select(r, T))}
<1>1. <<>> \in Q
  BY SelectEmpty, EmptySeq DEF Apart
<1>2. ASSUME NEW r \in Seq(S), NEW e \in S, r \in Q
      PROVE  Append(r, e) \in Q
  <2>1. Append(r, e) \in Seq(S)
    BY AppendProperties
  <2>2. ASSUME Apart(Append(r, e))
        PROVE  Apart(Select(Append(r, e), T))
    <3>1. Apart(r) /\ e \notin Range(r)
      BY <2>2, ApartAppend
    <3>2. Apart(Select(r, T)) /\ Select(r, T) \in Seq(S)
      BY <1>2, <3>1, SelectStays
    <3>3. e \notin Range(Select(r, T))
      BY <3>1, SelectRange
    <3>4. Apart(Append(Select(r, T), e))
      BY <3>2, <3>3, ApartAppend
    <3>5. Select(Append(r, e), T) = IF e \in T THEN Append(Select(r, T), e) ELSE Select(r, T)
      BY SelectAppend
    <3>6. QED
      BY <3>2, <3>4, <3>5
  <2>3. QED
    BY <2>1, <2>2
<1> HIDE DEF Q
<1>3. Seq(S) \subseteq Q
  BY <1>1, <1>2, AppendingOn
<1>4. QED
  BY <1>3 DEF Q
=============================================================================
