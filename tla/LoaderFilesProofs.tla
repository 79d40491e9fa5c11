--------------------------- MODULE LoaderFilesProofs ---------------------------
(***************************************************************************)
(* What the write pipelines of LoaderFiles keep, for every set of callers, *)
(* inodes, files and arguments: the live file is whole, and a call that    *)
(* succeeds has made its own change and no other.                          *)
(*                                                                         *)
(* The text functions of LoaderText recurse over the lines of a file. What *)
(* they return for every file is proved by induction (TextsProofs).        *)
(***************************************************************************)
EXTENDS LoaderFiles, TextsProofs

-----------------------------------------------------------------------------
(* What the edits do to a file                                             *)

LEMMA LineIsOne ==
  /\ \A k, v \in STRING : /\ Line(k, v) \in Lines
                          /\ Line(k, v).key = k /\ Line(k, v).value = v
  /\ \A l \in Lines : l.key \in STRING /\ l.value \in STRING /\ l = Line(l.key, l.value)
  BY DEF Line, Lines

\* parse_loader_entry keeps the last line of a key.
LEMMA FieldOfAppend ==
  ASSUME NEW lines \in Text, NEW l \in Lines, NEW k
  PROVE  FieldOf(Append(lines, l), k) = IF l.key = k THEN l.value ELSE FieldOf(lines, k)
<1> DEFINE m == Len(lines)
           longer == Append(lines, l)
           at == {i \in DOMAIN lines : lines[i].key = k}
           now == {i \in DOMAIN longer : longer[i].key = k}
<1>1. /\ longer \in Seq(Lines) /\ m \in Nat /\ Len(longer) = m + 1 /\ DOMAIN longer = 1..(m + 1)
      /\ longer[m + 1] = l /\ DOMAIN lines = 1..m
      /\ \A i \in 1..m : longer[i] = lines[i]
  <2>1. lines \in Seq(Lines)
    BY DEF Text
  <2>2. /\ longer \in Seq(Lines) /\ Len(longer) = m + 1 /\ longer[m + 1] = l
        /\ \A i \in 1..m : longer[i] = lines[i]
    BY <2>1, AppendProperties
  <2>3. m \in Nat /\ DOMAIN lines = 1..m
    BY <2>1, LenProperties
  <2> HIDE DEF longer
  <2>4. DOMAIN longer = 1..(m + 1)
    BY <2>2, LenProperties
  <2>5. QED
    BY <2>2, <2>3, <2>4
<1> HIDE DEF longer, m
<1>2. now = IF l.key = k THEN at \union {m + 1} ELSE at
  <2>1. 1..(m + 1) = (1..m) \union {m + 1}
    BY <1>1
  <2>2. QED
    BY <1>1, <2>1
<1>3. /\ FieldOf(longer, k) = IF now = {} THEN NoText ELSE longer[Max(now)].value
      /\ FieldOf(lines, k) = IF at = {} THEN NoText ELSE lines[Max(at)].value
  BY DEF FieldOf
<1>4. at \in SUBSET (1..m) /\ now \in SUBSET (1..(m + 1)) /\ m + 1 \in Nat
  BY <1>1
<1>5. ASSUME l.key = k
      PROVE  FieldOf(longer, k) = l.value
  <2>1. now = at \union {m + 1}
    BY <1>2, <1>5
  <2> HIDE DEF now, at
  <2>2. now # {} /\ m + 1 \in now
    BY <2>1
  <2>3. Max(now) \in now /\ \A i \in now : i <= Max(now)
    BY <1>4, <2>2, FirstAndLast
  <2>4. Max(now) = m + 1
    <3>1. Max(now) \in 1..(m + 1) /\ m + 1 <= Max(now)
      BY <1>4, <2>2, <2>3
    <3>2. QED
      BY <1>1, <3>1
  <2>5. QED
    BY <1>1, <1>3, <2>2, <2>4
<1>6. ASSUME l.key # k
      PROVE  FieldOf(longer, k) = FieldOf(lines, k)
  <2>1. now = at
    BY <1>2, <1>6
  <2> HIDE DEF now, at
  <2>2. CASE at = {}
    BY <1>3, <2>1, <2>2
  <2>3. CASE at # {}
    <3>1. Max(at) \in 1..m
      BY <1>1, <1>4, <2>3, FirstAndLast
    <3>2. longer[Max(at)] = lines[Max(at)]
      BY <1>1, <3>1
    <3>3. QED
      BY <1>3, <2>1, <2>3, <3>2
  <2>4. QED
    BY <2>2, <2>3
<1>7. QED
  BY <1>5, <1>6 DEF longer

LEMMA KeyLinesAppend ==
  ASSUME NEW lines \in Text, NEW l \in Lines, NEW k
  PROVE  KeyLines(Append(lines, l), k)
           = IF l.key = k THEN Append(KeyLines(lines, k), l) ELSE KeyLines(lines, k)
<1> DEFINE T == {x \in Lines : x.key = k}
<1>1. Select(Append(lines, l), T) = IF l \in T THEN Append(Select(lines, T), l) ELSE Select(lines, T)
  BY SelectAppend DEF Text
<1>2. l \in T <=> l.key = k
  OBVIOUS
<1>3. QED
  BY <1>1, <1>2 DEF KeyLines

LEMMA KeyLinesAreText ==
  ASSUME NEW lines \in Text, NEW k
  PROVE  /\ KeyLines(lines, k) \in Text
         /\ \A i \in 1..Len(KeyLines(lines, k)) : KeyLines(lines, k)[i].key = k
<1> DEFINE T == {x \in Lines : x.key = k}
<1>1. Select(lines, T) \in Seq(Lines) /\ Select(lines, T) \in Seq(Lines \intersect T)
  BY SelectStays, SelectIsSeq DEF Text
<1>2. \A i \in 1..Len(Select(lines, T)) : Select(lines, T)[i] \in Lines \intersect T
  BY <1>1, ElementOfSeq
<1>3. QED
  BY <1>1, <1>2 DEF KeyLines, Text

\* The value of a key is that of its last line.
LEMMA FieldIsLastLine ==
  ASSUME NEW lines \in Text, NEW k
  PROVE  FieldOf(lines, k) = IF KeyLines(lines, k) = <<>> THEN NoText
                             ELSE KeyLines(lines, k)[Len(KeyLines(lines, k))].value
<1> DEFINE LastOf(s) == IF s = <<>> THEN NoText ELSE s[Len(s)].value
           Q == {s \in Text : FieldOf(s, k) = LastOf(KeyLines(s, k))}
<1>1. <<>> \in Q
  <2>1. KeyLines(<<>>, k) = <<>>
    BY SelectEmpty DEF KeyLines
  <2>2. FieldOf(<<>>, k) = NoText
    <3>1. {i \in DOMAIN <<>> : <<>>[i].key = k} = {}
      OBVIOUS
    <3>2. QED
      BY <3>1 DEF FieldOf
  <2>3. <<>> \in Text
    BY EmptySeq DEF Text
  <2>4. QED
    BY <2>1, <2>2, <2>3
<1>2. ASSUME NEW s \in Seq(Lines), NEW l \in Lines, s \in Q
      PROVE  Append(s, l) \in Q
  <2>1. s \in Text /\ Append(s, l) \in Text
    BY AppendProperties DEF Text
  <2>2. FieldOf(Append(s, l), k) = IF l.key = k THEN l.value ELSE FieldOf(s, k)
    BY <2>1, FieldOfAppend
  <2>3. KeyLines(Append(s, l), k)
          = IF l.key = k THEN Append(KeyLines(s, k), l) ELSE KeyLines(s, k)
    BY <2>1, KeyLinesAppend
  <2>4. FieldOf(s, k) = LastOf(KeyLines(s, k))
    BY <1>2
  <2>5. LastOf(Append(KeyLines(s, k), l)) = l.value
    <3>1. KeyLines(s, k) \in Seq(Lines)
      BY <2>1, KeyLinesAreText DEF Text
    <3>2. PICK r \in Seq(Lines) : r = KeyLines(s, k)
      BY <3>1
    <3>3. /\ Append(r, l) # <<>> /\ Len(Append(r, l)) = Len(r) + 1
          /\ Append(r, l)[Len(r) + 1] = l
      BY AppendProperties
    <3>4. QED
      BY <3>2, <3>3
  <2>6. FieldOf(Append(s, l), k) = LastOf(KeyLines(Append(s, l), k))
    <3> HIDE DEF LastOf
    <3>1. CASE l.key = k
      BY <2>2, <2>3, <2>5, <3>1
    <3>2. CASE l.key # k
      BY <2>2, <2>3, <2>4, <3>2
    <3>3. QED
      BY <3>1, <3>2
  <2>7. QED
    BY <2>1, <2>6
<1> HIDE DEF Q
<1>3. Seq(Lines) \subseteq Q
  BY <1>1, <1>2, AppendingOn
<1>4. QED
  BY <1>3 DEF Q, Text

\* update_or_append_key: the first line of the key has the value, and every
\* other key has the lines it had.
LEMMA UpdateOrAppendIsExact ==
  ASSUME NEW lines \in Text, NEW k \in STRING, NEW v \in STRING
  PROVE  /\ UpdateOrAppend(lines, k, v) \in Text
         /\ Setting(UpdateOrAppend(lines, k, v), k) # {}
         /\ UpdateOrAppend(lines, k, v)[Min(Setting(UpdateOrAppend(lines, k, v), k))].value = v
         /\ \A other : other # k => KeyLines(UpdateOrAppend(lines, k, v), other) = KeyLines(lines, other)
<1> DEFINE m == Len(lines)
           l == Line(k, v)
           at == Setting(lines, k)
           new == UpdateOrAppend(lines, k, v)
           now == Setting(new, k)
<1>1. lines \in Seq(Lines) /\ m \in Nat /\ DOMAIN lines = 1..m /\ at \in SUBSET (1..m)
  <2>1. lines \in Seq(Lines)
    BY DEF Text
  <2>2. m \in Nat /\ DOMAIN lines = 1..m
    BY <2>1, LenProperties
  <2>3. QED
    BY <2>1, <2>2 DEF Setting
<1>2. l \in Lines /\ l.key = k /\ l.value = v
  BY LineIsOne
<1> HIDE DEF l
<1>3. ASSUME at = {}
      PROVE  /\ new \in Text /\ now # {} /\ new[Min(now)].value = v
             /\ \A other : other # k => KeyLines(new, other) = KeyLines(lines, other)
  <2>1. new = Append(lines, l)
    BY <1>3 DEF UpdateOrAppend, l
  <2> HIDE DEF new
  <2>2. /\ new \in Seq(Lines) /\ Len(new) = m + 1 /\ new[m + 1] = l
        /\ \A i \in 1..m : new[i] = lines[i]
    BY <1>1, <1>2, <2>1, AppendProperties
  <2>3. DOMAIN new = 1..(m + 1)
    BY <2>2, LenProperties
  <2>4. now = {m + 1}
    <3>1. \A i \in 1..m : lines[i].key # k
      BY <1>1, <1>3 DEF Setting
    <3>2. QED
      BY <1>1, <1>2, <2>2, <2>3, <3>1 DEF Setting
  <2> HIDE DEF now
  <2>5. Min(now) = m + 1
    BY <2>4 DEF Min
  <2>6. ASSUME NEW other, other # k
        PROVE  KeyLines(new, other) = KeyLines(lines, other)
    BY <1>2, <2>1, <2>6, KeyLinesAppend
  <2>7. QED
    BY <1>2, <2>2, <2>4, <2>5, <2>6 DEF Text
<1>4. ASSUME at # {}
      PROVE  /\ new \in Text /\ now # {} /\ new[Min(now)].value = v
             /\ \A other : other # k => KeyLines(new, other) = KeyLines(lines, other)
  <2> DEFINE first == Min(at)
  <2>1. first \in at /\ first \in 1..m /\ \A i \in at : first <= i
    BY <1>1, <1>4, FirstAndLast
  <2>2. new = ReplaceAt(lines, first, l)
    BY <1>4 DEF UpdateOrAppend, l
  <2> HIDE DEF new, first
  <2>3. /\ new \in Seq(Lines) /\ Len(new) = m
        /\ \A i \in 1..m : new[i] = IF i = first THEN l ELSE lines[i]
    BY <1>1, <1>2, <2>1, <2>2, ExceptSeq DEF ReplaceAt
  <2>4. DOMAIN new = 1..m
    BY <2>3, LenProperties
  <2>5. now = at
    BY <1>1, <1>2, <2>1, <2>3, <2>4 DEF Setting
  <2>6. Min(now) = first
    BY <2>5 DEF first
  <2>7. ASSUME NEW other, other # k
        PROVE  KeyLines(new, other) = KeyLines(lines, other)
    <3> DEFINE T == {x \in Lines : x.key = other}
    <3>1. lines[first] \notin T /\ l \notin T
      BY <1>2, <2>1, <2>7 DEF Setting
    <3> HIDE DEF T
    <3>2. Select(ReplaceAt(lines, first, l), T) = Select(lines, T)
      BY <1>1, <1>2, <2>1, <3>1, SelectReplace
    <3>3. QED
      BY <2>2, <3>2 DEF KeyLines, T
  <2>8. QED
    BY <1>2, <1>4, <2>1, <2>3, <2>5, <2>6, <2>7 DEF Text
<1>5. QED
  BY <1>3, <1>4

\* add_param and remove_param touch the one parameter only.
LEMMA ParamsAreExact ==
  ASSUME NEW lines \in Text, NEW p \in STRING
  PROVE  /\ AddParam(lines, p) \in Text /\ HasParam(AddParam(lines, p), p)
         /\ Others(AddParam(lines, p), p) = Others(lines, p)
         /\ Append(lines, Line("param", p)) \in Text /\ HasParam(Append(lines, Line("param", p)), p)
         /\ Others(Append(lines, Line("param", p)), p) = Others(lines, p)
         /\ RemoveParam(lines, p) \in Text /\ ~HasParam(RemoveParam(lines, p), p)
         /\ Others(RemoveParam(lines, p), p) = Others(lines, p)
<1> DEFINE l == Line("param", p)
           T == {x \in Lines : x.value # p}
<1>1. lines \in Seq(Lines) /\ l \in Lines /\ l.value = p
  <2>1. lines \in Seq(Lines)
    BY DEF Text
  <2>2. l \in Lines /\ l.value = p
    <3>1. PICK k \in STRING : k = "param"
      BY KeyAssumption
    <3>2. QED
      BY <3>1, LineIsOne
  <2>3. QED
    BY <2>1, <2>2
<1> HIDE DEF l, T
<1>2. /\ Append(lines, l) \in Text
      /\ HasParam(Append(lines, l), p)
      /\ Others(Append(lines, l), p) = Others(lines, p)
  <2>1. /\ Append(lines, l) \in Seq(Lines) /\ Len(Append(lines, l)) = Len(lines) + 1
        /\ Append(lines, l)[Len(lines) + 1] = l /\ Len(lines) \in Nat
    BY <1>1, AppendProperties, LenProperties
  <2>2. Len(lines) + 1 \in DOMAIN Append(lines, l)
    BY <2>1, LenProperties
  <2>3. Select(Append(lines, l), T) = IF l \in T THEN Append(Select(lines, T), l) ELSE Select(lines, T)
    BY <1>1, SelectAppend
  <2>4. l \notin T
    BY <1>1 DEF T
  <2>5. QED
    BY <1>1, <2>1, <2>2, <2>3, <2>4 DEF HasParam, Others, Text, T
<1>3. /\ AddParam(lines, p) \in Text /\ HasParam(AddParam(lines, p), p)
      /\ Others(AddParam(lines, p), p) = Others(lines, p)
  BY <1>2 DEF AddParam, l
<1>4. /\ Select(lines, T) \in Seq(Lines) /\ Select(lines, T) \in Seq(Lines \intersect T)
      /\ Select(Select(lines, T), T) = Select(lines, T)
  BY <1>1, SelectStays, SelectIsSeq, SelectTwice
<1>5. ASSUME NEW i \in DOMAIN Select(lines, T)
      PROVE  Select(lines, T)[i].value # p
  <2>1. i \in 1..Len(Select(lines, T))
    BY <1>4, LenProperties
  <2>2. Select(lines, T)[i] \in Lines \intersect T
    BY <1>4, <2>1, ElementOfSeq
  <2>3. QED
    BY <2>2 DEF T
<1>6. /\ RemoveParam(lines, p) \in Text /\ ~HasParam(RemoveParam(lines, p), p)
      /\ Others(RemoveParam(lines, p), p) = Others(lines, p)
  BY <1>4, <1>5 DEF RemoveParam, HasParam, Others, Text, T
<1>7. QED
  BY <1>2, <1>3, <1>6 DEF l

-----------------------------------------------------------------------------
(* What rename_loader_entry does to an entry                               *)

\* The recursive function behind Restored exists, and obeys its equations.
LEMMA RestoredRecursion ==
  ASSUME NEW S, NEW ps \in Seq(S), NEW plain
  PROVE  \E f : /\ f[0] = plain
                /\ \A n \in 1..Len(ps) : f[n] = PutBack(f[n - 1], ps[n])
                /\ Restored(plain, ps) = f[Len(ps)]
<1> DEFINE Obeys(f, m) ==
             f = [n \in 0..m |-> IF n = 0 THEN plain ELSE PutBack(f[n - 1], ps[n])]
           N == {m \in Nat : \E f : Obeys(f, m)}
<1>1. 0 \in N
  <2>1. Obeys([n \in 0..0 |-> plain], 0)
    OBVIOUS
  <2>2. QED
    BY <2>1
<1>2. ASSUME NEW m \in Nat, m \in N
      PROVE  m + 1 \in N
  <2>1. PICK f : Obeys(f, m)
    BY <1>2
  <2> DEFINE g == [n \in 0..(m + 1) |-> IF n = m + 1 THEN PutBack(f[m], ps[m + 1]) ELSE f[n]]
  <2>2. ASSUME NEW n \in 0..(m + 1)
        PROVE  g[n] = IF n = 0 THEN plain ELSE PutBack(g[n - 1], ps[n])
    <3>1. CASE n = m + 1
      <4>1. n # 0 /\ n - 1 = m /\ m \in 0..(m + 1) /\ m # m + 1
        BY <3>1
      <4>2. QED
        BY <3>1, <4>1
    <3>2. CASE n = 0
      BY <2>1, <3>2
    <3>3. CASE n # m + 1 /\ n # 0
      <4>1. n \in 0..m /\ n - 1 \in 0..(m + 1) /\ n - 1 # m + 1
        BY <3>3
      <4>2. g[n] = f[n] /\ g[n - 1] = f[n - 1]
        BY <3>3, <4>1
      <4>3. f[n] = IF n = 0 THEN plain ELSE PutBack(f[n - 1], ps[n])
        BY <2>1, <4>1
      <4> HIDE DEF g
      <4>4. QED
        BY <4>2, <4>3
    <3>4. QED
      BY <3>1, <3>2, <3>3
  <2>3. Obeys(g, m + 1)
    <3>1. g = [n \in 0..(m + 1) |-> g[n]]
      OBVIOUS
    <3> HIDE DEF g
    <3>2. QED
      BY <2>2, <3>1
  <2>4. m + 1 \in Nat
    OBVIOUS
  <2> HIDE DEF g, Obeys
  <2>5. QED
    BY <2>3, <2>4
<1>3. Nat \subseteq N
  <2> HIDE DEF N
  <2>1. QED
    BY <1>1, <1>2, CountingUp
<1>4. Len(ps) \in Nat
  BY LenProperties
<1> DEFINE back == CHOOSE f : Obeys(f, Len(ps))
<1>5. Obeys(back, Len(ps))
  <2>1. \E f : Obeys(f, Len(ps))
    BY <1>3, <1>4
  <2> HIDE DEF Obeys
  <2>2. QED
    BY <2>1
<1>6. Restored(plain, ps) = back[Len(ps)]
  BY DEF Restored
<1> HIDE DEF back
<1>7. back[0] = plain
  BY <1>4, <1>5
<1>8. ASSUME NEW n \in 1..Len(ps)
      PROVE  back[n] = PutBack(back[n - 1], ps[n])
  <2>1. n \in 0..Len(ps) /\ n # 0
    BY <1>4
  <2>2. QED
    BY <1>5, <2>1
<1>9. QED
  BY <1>6, <1>7, <1>8

LEMMA RestoredEmpty ==
  ASSUME NEW plain
  PROVE  Restored(plain, <<>>) = plain
<1>1. PICK none : none = <<>>
  OBVIOUS
<1>2. none \in Seq({}) /\ Len(none) = 0
  BY <1>1, EmptySeq
<1>3. PICK f : /\ f[0] = plain
               /\ \A n \in 1..Len(none) : f[n] = PutBack(f[n - 1], none[n])
               /\ Restored(plain, none) = f[Len(none)]
  BY <1>2, RestoredRecursion
<1>4. QED
  BY <1>1, <1>2, <1>3

\* The comments are put back one after the other.
LEMMA RestoredAppend ==
  ASSUME NEW S, NEW ps \in Seq(S), NEW p \in S, NEW plain
  PROVE  Restored(plain, Append(ps, p)) = PutBack(Restored(plain, ps), p)
<1> DEFINE qs == Append(ps, p)
<1>1. /\ qs \in Seq(S) /\ Len(ps) \in Nat /\ Len(qs) = Len(ps) + 1
      /\ qs[Len(ps) + 1] = p
      /\ \A n \in 1..Len(ps) : qs[n] = ps[n]
  BY AppendProperties, LenProperties
<1> HIDE DEF qs
<1>2. PICK f : /\ f[0] = plain
               /\ \A n \in 1..Len(ps) : f[n] = PutBack(f[n - 1], ps[n])
               /\ Restored(plain, ps) = f[Len(ps)]
  BY RestoredRecursion
<1>3. PICK g : /\ g[0] = plain
               /\ \A n \in 1..Len(qs) : g[n] = PutBack(g[n - 1], qs[n])
               /\ Restored(plain, qs) = g[Len(qs)]
  BY <1>1, RestoredRecursion
<1> DEFINE M == {n \in Nat : n <= Len(ps) => g[n] = f[n]}
<1>4. 0 \in M
  BY <1>2, <1>3
<1>5. ASSUME NEW n \in Nat, n \in M
      PROVE  n + 1 \in M
  <2> SUFFICES ASSUME n + 1 <= Len(ps)
               PROVE  g[n + 1] = f[n + 1]
    OBVIOUS
  <2>1. n + 1 \in 1..Len(ps) /\ n + 1 \in 1..Len(qs) /\ (n + 1) - 1 = n /\ n <= Len(ps)
    BY <1>1
  <2>2. g[n] = f[n] /\ qs[n + 1] = ps[n + 1]
    BY <1>1, <1>5, <2>1
  <2>3. f[n + 1] = PutBack(f[n], ps[n + 1])
    BY <1>2, <2>1
  <2>4. g[n + 1] = PutBack(g[n], qs[n + 1])
    BY <1>3, <2>1
  <2>5. QED
    BY <2>2, <2>3, <2>4
<1> HIDE DEF M
<1>6. Nat \subseteq M
  BY <1>4, <1>5, CountingUp
<1>7. g[Len(ps)] = f[Len(ps)]
  BY <1>1, <1>6 DEF M
<1>8. g[Len(ps) + 1] = PutBack(g[Len(ps)], qs[Len(ps) + 1])
  <2>1. Len(ps) + 1 \in 1..Len(qs) /\ (Len(ps) + 1) - 1 = Len(ps)
    BY <1>1
  <2>2. QED
    BY <1>3, <2>1
<1>9. QED
  BY <1>1, <1>2, <1>3, <1>7, <1>8 DEF qs

\* A comment and the position it had.
Noted == [at : Nat \ {0}, line : {l \in Lines : IsComment(l)}]

Numbered(lines) == [i \in DOMAIN lines |-> [at |-> i, line |-> lines[i]]]

Preserved(lines) == Select(Numbered(lines), [at : Nat, line : {l \in Lines : IsComment(l)}])

LEMMA NumberedAppend ==
  ASSUME NEW lines \in Text, NEW l \in Lines
  PROVE  /\ Numbered(lines) \in Seq([at : Nat \ {0}, line : Lines])
         /\ Numbered(Append(lines, l)) = Append(Numbered(lines), [at |-> Len(lines) + 1, line |-> l])
<1> DEFINE m == Len(lines)
           S == [at : Nat \ {0}, line : Lines]
           longer == Append(lines, l)
           last == [at |-> m + 1, line |-> l]
           ns == Numbered(lines)
           ms == Numbered(longer)
           ap == Append(ns, last)
<1>1. /\ lines \in Seq(Lines) /\ m \in Nat /\ DOMAIN lines = 1..m
      /\ \A i \in 1..m : lines[i] \in Lines
  <2>1. lines \in Seq(Lines)
    BY DEF Text
  <2>2. QED
    BY <2>1, LenProperties, ElementOfSeq
<1>2. /\ longer \in Seq(Lines) /\ Len(longer) = m + 1
      /\ longer[m + 1] = l /\ \A i \in 1..m : longer[i] = lines[i]
  BY <1>1, AppendProperties
<1> HIDE DEF longer
<1>3. DOMAIN longer = 1..(m + 1)
  BY <1>2, LenProperties
<1>4. /\ ns = [i \in 1..m |-> [at |-> i, line |-> lines[i]]]
      /\ ms = [i \in 1..(m + 1) |-> [at |-> i, line |-> longer[i]]]
  BY <1>1, <1>3 DEF Numbered
<1> HIDE DEF m, ns, ms
<1>5. \A i \in 1..m : [at |-> i, line |-> lines[i]] \in S
  BY <1>1
<1>6. ns \in Seq(S) /\ Len(ns) = m /\ \A i \in 1..m : ns[i] = [at |-> i, line |-> lines[i]]
  <2>1. ns \in [1..m -> S]
    BY <1>4, <1>5
  <2>2. QED
    BY <1>1, <1>4, <2>1
<1>7. last \in S
  BY <1>1
<1> HIDE DEF last, S
<1>8. /\ ap \in Seq(S) /\ Len(ap) = m + 1 /\ ap[m + 1] = last
      /\ \A i \in 1..m : ap[i] = ns[i]
  BY <1>6, <1>7, AppendProperties
<1> HIDE DEF ap
<1>9. ASSUME NEW i \in 1..(m + 1)
      PROVE  ms[i] = ap[i]
  <2>1. CASE i = m + 1
    BY <1>2, <1>4, <1>8, <2>1 DEF last
  <2>2. CASE i # m + 1
    <3>1. i \in 1..m
      BY <1>1, <2>2
    <3>2. QED
      BY <1>2, <1>4, <1>6, <1>8, <3>1
  <2>3. QED
    BY <2>1, <2>2
<1>10. ms = ap
  <2>1. ap \in [1..(m + 1) -> S]
    BY <1>8, LenProperties
  <2>2. ap = [i \in 1..(m + 1) |-> ap[i]] /\ ms = [i \in 1..(m + 1) |-> ms[i]]
    BY <1>4, <2>1
  <2>3. QED
    BY <1>9, <2>2
<1>11. QED
  BY <1>6, <1>10 DEF S, ms, ap, ns, last, longer, m

LEMMA PreservedAppend ==
  ASSUME NEW lines \in Text, NEW l \in Lines
  PROVE  /\ Preserved(lines) \in Seq(Noted)
         /\ IsComment(l) => [at |-> Len(lines) + 1, line |-> l] \in Noted
         /\ Preserved(Append(lines, l))
              = IF IsComment(l) THEN Append(Preserved(lines), [at |-> Len(lines) + 1, line |-> l])
                ELSE Preserved(lines)
<1> DEFINE S == [at : Nat \ {0}, line : Lines]
           C == [at : Nat, line : {x \in Lines : IsComment(x)}]
           last == [at |-> Len(lines) + 1, line |-> l]
<1>1. Len(lines) \in Nat
  BY LenProperties DEF Text
<1>2. last \in S /\ (last \in C <=> IsComment(l))
  <2> DEFINE K == {x \in Lines : IsComment(x)}
  <2>1. l \in K <=> IsComment(l)
    OBVIOUS
  <2> HIDE DEF K
  <2>2. last \in [at : Nat, line : K] <=> l \in K
    BY <1>1
  <2>3. QED
    BY <1>1, <2>1, <2>2 DEF K
<1>3. S \intersect C \subseteq Noted
  <2> DEFINE K == {x \in Lines : IsComment(x)}
  <2> HIDE DEF K
  <2>1. S \intersect [at : Nat, line : K] \subseteq [at : Nat \ {0}, line : K]
    OBVIOUS
  <2>2. QED
    BY <2>1 DEF Noted, K
<1>4. /\ Numbered(lines) \in Seq(S)
      /\ Numbered(Append(lines, l)) = Append(Numbered(lines), last)
  BY NumberedAppend
<1> HIDE DEF S, C, last
<1>5. Select(Append(Numbered(lines), last), C)
        = IF last \in C THEN Append(Select(Numbered(lines), C), last) ELSE Select(Numbered(lines), C)
  BY <1>2, <1>4, SelectAppend
<1>6. Select(Numbered(lines), C) \in Seq(Noted)
  BY <1>3, <1>4, SelectIsSeq, SeqMonotonic
<1>7. /\ Preserved(lines) = Select(Numbered(lines), C)
      /\ Preserved(Append(lines, l)) = Select(Numbered(Append(lines, l)), C)
  BY DEF Preserved, C
<1>8. IsComment(l) => last \in Noted
  BY <1>2, <1>3
<1>9. QED
  BY <1>2, <1>4, <1>5, <1>6, <1>7, <1>8 DEF last

\* With the comments of lines put back, now has them in order, none behind the
\* length of lines, and has the other lines of plain.
PutsBack(plain, lines, now) ==
  /\ now \in Text
  /\ KeyLines(now, "#") = KeyLines(lines, "#")
  /\ \A i \in 1..Len(now) : IsComment(now[i]) => i <= Len(lines)
  /\ \A k : k # "#" => KeyLines(now, k) = KeyLines(plain, k)

\* One more line, which is not a comment.
LEMMA PutsBackNoComment ==
  ASSUME NEW plain, NEW lines \in Text, NEW now, NEW l \in Lines,
         PutsBack(plain, lines, now), ~IsComment(l)
  PROVE  PutsBack(plain, Append(lines, l), now)
<1>1. lines \in Seq(Lines) /\ Len(lines) \in Nat /\ Len(Append(lines, l)) = Len(lines) + 1
  <2>1. lines \in Seq(Lines)
    BY DEF Text
  <2>2. QED
    BY <2>1, LenProperties, AppendProperties
<1>2. l.key # "#"
  BY DEF IsComment
<1>3. KeyLines(Append(lines, l), "#") = KeyLines(lines, "#")
  <2>1. PICK k : k = "#"
    OBVIOUS
  <2>2. KeyLines(Append(lines, l), k) = KeyLines(lines, k)
    BY <1>2, <2>1, KeyLinesAppend
  <2>3. QED
    BY <2>1, <2>2
<1>4. now \in Seq(Lines) /\ Len(now) \in Nat
  BY LenProperties DEF PutsBack, Text
<1>5. \A i \in 1..Len(now) : IsComment(now[i]) => i <= Len(Append(lines, l))
  BY <1>1, <1>4 DEF PutsBack
<1>6. QED
  BY <1>3, <1>5 DEF PutsBack

\* A comment goes back behind those before it.
LEMMA PutsBackComment ==
  ASSUME NEW plain, NEW lines \in Text, NEW now, NEW l \in Lines,
         PutsBack(plain, lines, now), IsComment(l)
  PROVE  PutsBack(plain, Append(lines, l), PutBack(now, [at |-> Len(lines) + 1, line |-> l]))
<1> DEFINE m == Len(lines)
           i == IF m + 1 <= Len(now) THEN m + 1 ELSE Len(now) + 1
           new == InsertAt(now, i, l)
<1>1. lines \in Seq(Lines) /\ m \in Nat /\ Len(Append(lines, l)) = m + 1
  <2>1. lines \in Seq(Lines)
    BY DEF Text
  <2>2. QED
    BY <2>1, LenProperties, AppendProperties
<1>2. now \in Seq(Lines) /\ Len(now) \in Nat
  BY LenProperties DEF PutsBack, Text
<1>3. i \in 1..(Len(now) + 1) /\ i <= m + 1
  BY <1>1, <1>2
<1>4. PutBack(now, [at |-> m + 1, line |-> l]) = new
  BY DEF PutBack
<1>5. \A j \in i..Len(now) : ~IsComment(now[j])
  <2> SUFFICES ASSUME NEW j \in i..Len(now), IsComment(now[j])
               PROVE  FALSE
    OBVIOUS
  <2>1. j \in 1..Len(now)
    BY <1>1, <1>2, <1>3
  <2>2. j <= m
    BY <2>1 DEF PutsBack
  <2>3. CASE m + 1 <= Len(now)
    BY <1>1, <1>2, <2>1, <2>2, <2>3
  <2>4. CASE ~ (m + 1 <= Len(now))
    BY <1>1, <1>2, <2>1, <2>4
  <2>5. QED
    BY <2>3, <2>4
<1> HIDE DEF i, new, m
<1>6. /\ new \in Seq(Lines) /\ Len(new) = Len(now) + 1
      /\ \A j \in (i + 1)..(Len(now) + 1) : new[j] = now[j - 1]
  <2>1. PICK T : T = {}
    OBVIOUS
  <2>2. /\ new \in Seq(Lines)
        /\ Len(new) = Len(now) + 1
        /\ new[i] = l
        /\ \A j \in 1..(i - 1) : new[j] = now[j]
        /\ \A j \in (i + 1)..(Len(now) + 1) : new[j] = now[j - 1]
        /\ l \notin T => Select(new, T) = Select(now, T)
        /\ l \in T /\ (\A j \in i..Len(now) : now[j] \notin T)
             => Select(new, T) = Append(Select(now, T), l)
    BY <1>2, <1>3, SelectInsert DEF new
  <2>3. QED
    BY <2>2
<1>7. ASSUME NEW j \in 1..Len(new), IsComment(new[j])
      PROVE  j <= m + 1
  <2>1. CASE j <= i
    BY <1>1, <1>3, <1>6, <2>1, <1>2
  <2>2. CASE ~ (j <= i)
    <3>1. j \in (i + 1)..(Len(now) + 1) /\ j - 1 \in i..Len(now)
      BY <1>2, <1>3, <1>6, <2>2
    <3>2. QED
      BY <1>5, <1>6, <1>7, <3>1
  <2>3. QED
    BY <2>1, <2>2
<1>8. KeyLines(new, "#") = KeyLines(Append(lines, l), "#")
  <2> DEFINE T == {x \in Lines : x.key = "#"}
  <2>1. l \in T /\ \A j \in i..Len(now) : now[j] \notin T
    BY <1>5 DEF IsComment
  <2> HIDE DEF T
  <2>2. Select(new, T) = Append(Select(now, T), l)
    BY <1>2, <1>3, <2>1, SelectInsert DEF new
  <2>3. Select(Append(lines, l), T) = Append(Select(lines, T), l)
    BY <1>1, <2>1, SelectAppend
  <2>4. Select(now, T) = Select(lines, T)
    BY DEF PutsBack, KeyLines, T
  <2>5. QED
    BY <2>2, <2>3, <2>4 DEF KeyLines, T
<1>9. ASSUME NEW k, k # "#"
      PROVE  KeyLines(new, k) = KeyLines(plain, k)
  <2> DEFINE T == {x \in Lines : x.key = k}
  <2>1. l \notin T
    BY <1>9 DEF IsComment
  <2> HIDE DEF T
  <2>2. Select(new, T) = Select(now, T)
    BY <1>2, <1>3, <2>1, SelectInsert DEF new
  <2>3. KeyLines(now, k) = KeyLines(plain, k)
    BY <1>9 DEF PutsBack
  <2>4. QED
    BY <2>2, <2>3 DEF KeyLines, T
<1>10. PutsBack(plain, Append(lines, l), new)
  BY <1>1, <1>6, <1>7, <1>8, <1>9 DEF PutsBack, Text
<1>11. QED
  BY <1>4, <1>10 DEF m

\* All comments of an entry go back, in order, and nothing else changes.
LEMMA RestoredIsExact ==
  ASSUME NEW plain \in Text, \A i \in 1..Len(plain) : ~IsComment(plain[i]),
         NEW lines \in Text
  PROVE  PutsBack(plain, lines, Restored(plain, Preserved(lines)))
<1> DEFINE Q == {r \in Text : PutsBack(plain, r, Restored(plain, Preserved(r)))}
<1>1. <<>> \in Q
  <2>1. PICK none : none = <<>>
    OBVIOUS
  <2>2. none \in Text /\ Len(none) = 0
    BY <2>1, EmptySeq DEF Text
  <2>3. Preserved(none) = <<>>
    <3>1. Numbered(none) = <<>>
      BY <2>1 DEF Numbered
    <3>2. QED
      BY <3>1, SelectEmpty DEF Preserved
  <2>4. Restored(plain, Preserved(none)) = plain
    BY <2>3, RestoredEmpty
  <2>5. KeyLines(plain, "#") = <<>>
    <3> DEFINE T == {x \in Lines : x.key = "#"}
               S == Lines \ T
    <3>1. plain \in Seq(Lines) /\ Len(plain) \in Nat /\ plain \in [1..Len(plain) -> Lines]
      BY LenProperties DEF Text
    <3>2. \A i \in 1..Len(plain) : plain[i] \in S
      BY <3>1 DEF IsComment
    <3>3. plain \in [1..Len(plain) -> S]
      BY <3>1, <3>2
    <3>4. plain \in Seq(S)
      BY <3>1, <3>3
    <3>5. Select(plain, T) = <<>>
      BY <3>4, SelectNone
    <3>6. QED
      BY <3>5 DEF KeyLines
  <2>6. KeyLines(none, "#") = <<>>
    BY <2>1, SelectEmpty DEF KeyLines
  <2>7. PutsBack(plain, none, plain)
    BY <2>5, <2>6 DEF PutsBack
  <2>8. QED
    BY <2>1, <2>2, <2>4, <2>7
<1>2. ASSUME NEW r \in Seq(Lines), NEW l \in Lines, r \in Q
      PROVE  Append(r, l) \in Q
  <2>1. r \in Text /\ Append(r, l) \in Text
    BY AppendProperties DEF Text
  <2> DEFINE now == Restored(plain, Preserved(r))
             p == [at |-> Len(r) + 1, line |-> l]
  <2>2. PutsBack(plain, r, now)
    BY <1>2
  <2>3. /\ Preserved(r) \in Seq(Noted) /\ (IsComment(l) => p \in Noted)
        /\ Preserved(Append(r, l))
             = IF IsComment(l) THEN Append(Preserved(r), p) ELSE Preserved(r)
    BY <2>1, PreservedAppend
  <2> HIDE DEF p
  <2>4. PutsBack(plain, Append(r, l), Restored(plain, Preserved(Append(r, l))))
    <3>1. CASE IsComment(l)
      <4>1. Restored(plain, Append(Preserved(r), p)) = PutBack(now, p)
        BY <2>3, <3>1, RestoredAppend
      <4> HIDE DEF now
      <4>2. PutsBack(plain, Append(r, l), PutBack(now, p))
        BY <2>1, <2>2, <3>1, PutsBackComment DEF p
      <4>3. QED
        BY <2>3, <3>1, <4>1, <4>2
    <3>2. CASE ~IsComment(l)
      <4>1. PutsBack(plain, Append(r, l), now)
        <5> HIDE DEF now
        <5>1. QED
          BY <2>1, <2>2, <3>2, PutsBackNoComment
      <4>2. QED
        BY <2>3, <3>2, <4>1
    <3>3. QED
      BY <3>1, <3>2
  <2>5. QED
    BY <2>1, <2>4
<1> HIDE DEF Q
<1>3. Seq(Lines) \subseteq Q
  BY <1>1, <1>2, AppendingOn
<1>4. QED
  BY <1>3 DEF Q, Text

\* The lines serialize_loader_entry writes for the fields F, in the order ks.
Emitted(ks, F) ==
  LET given == Select(ks, {k \in Known : F[k] # NoText})
  IN [i \in DOMAIN given |-> Line(given[i], F[given[i]])]

Distinct(ks) == \A i, j \in 1..Len(ks) : ks[i] = ks[j] => i = j

\* A field that is given has one line.
EmitsOnce(ks, F) ==
  /\ Emitted(ks, F) \in Seq({l \in Lines : l.key \in Known})
  /\ \A k : KeyLines(Emitted(ks, F), k)
              = IF (\E i \in 1..Len(ks) : ks[i] = k) /\ F[k] # NoText THEN <<Line(k, F[k])>> ELSE <<>>

LEMMA EmittedAppend ==
  ASSUME NEW ks \in Seq(Known), NEW e \in Known, NEW F
  PROVE  Emitted(Append(ks, e), F)
           = IF F[e] # NoText THEN [i \in DOMAIN Append(Select(ks, {k \in Known : F[k] # NoText}), e) |->
                                      Line(Append(Select(ks, {k \in Known : F[k] # NoText}), e)[i],
                                           F[Append(Select(ks, {k \in Known : F[k] # NoText}), e)[i]])]
             ELSE Emitted(ks, F)
<1> DEFINE G == {k \in Known : F[k] # NoText}
<1>1. e \in G <=> F[e] # NoText
  OBVIOUS
<1> HIDE DEF G
<1>2. Select(Append(ks, e), G) = IF e \in G THEN Append(Select(ks, G), e) ELSE Select(ks, G)
  BY SelectAppend
<1>3. CASE e \in G
  BY <1>1, <1>2, <1>3 DEF Emitted, G
<1>4. CASE e \notin G
  BY <1>1, <1>2, <1>4 DEF Emitted, G
<1>5. QED
  BY <1>3, <1>4

\* Line by line of a sequence that has grown.
LEMMA LinesOfAppend ==
  ASSUME NEW S, NEW given \in Seq(S), NEW e \in S, NEW F,
         \A k \in S : Line(k, F[k]) \in Lines
  PROVE  /\ [i \in DOMAIN given |-> Line(given[i], F[given[i]])] \in Seq(Lines)
         /\ [i \in DOMAIN Append(given, e) |-> Line(Append(given, e)[i], F[Append(given, e)[i]])]
              = Append([i \in DOMAIN given |-> Line(given[i], F[given[i]])], Line(e, F[e]))
<1> DEFINE m == Len(given)
           longer == Append(given, e)
           ns == [i \in DOMAIN given |-> Line(given[i], F[given[i]])]
           ms == [i \in DOMAIN longer |-> Line(longer[i], F[longer[i]])]
           last == Line(e, F[e])
           ap == Append(ns, last)
<1>1. m \in Nat /\ DOMAIN given = 1..m /\ \A i \in 1..m : given[i] \in S
  BY LenProperties, ElementOfSeq
<1>2. /\ longer \in Seq(S) /\ Len(longer) = m + 1
      /\ longer[m + 1] = e /\ \A i \in 1..m : longer[i] = given[i]
  BY AppendProperties
<1> HIDE DEF longer
<1>3. DOMAIN longer = 1..(m + 1)
  BY <1>2, LenProperties
<1>4. /\ ns = [i \in 1..m |-> Line(given[i], F[given[i]])]
      /\ ms = [i \in 1..(m + 1) |-> Line(longer[i], F[longer[i]])]
  BY <1>1, <1>3
<1> HIDE DEF m, ns, ms
<1>5. \A i \in 1..m : Line(given[i], F[given[i]]) \in Lines
  BY <1>1
<1>6. ns \in Seq(Lines) /\ Len(ns) = m /\ \A i \in 1..m : ns[i] = Line(given[i], F[given[i]])
  <2>1. ns \in [1..m -> Lines]
    BY <1>4, <1>5
  <2>2. QED
    BY <1>1, <1>4, <2>1
<1>7. last \in Lines
  OBVIOUS
<1> HIDE DEF last
<1>8. /\ ap \in Seq(Lines) /\ Len(ap) = m + 1 /\ ap[m + 1] = last
      /\ \A i \in 1..m : ap[i] = ns[i]
  BY <1>6, <1>7, AppendProperties
<1> HIDE DEF ap
<1>9. ASSUME NEW i \in 1..(m + 1)
      PROVE  ms[i] = ap[i]
  <2>1. CASE i = m + 1
    BY <1>2, <1>4, <1>8, <2>1 DEF last
  <2>2. CASE i # m + 1
    <3>1. i \in 1..m
      BY <1>1, <2>2
    <3>2. QED
      BY <1>2, <1>4, <1>6, <1>8, <3>1
  <2>3. QED
    BY <2>1, <2>2
<1>10. ms = ap
  <2>1. ap \in [1..(m + 1) -> Lines]
    BY <1>8, LenProperties
  <2>2. ap = [i \in 1..(m + 1) |-> ap[i]] /\ ms = [i \in 1..(m + 1) |-> ms[i]]
    BY <1>4, <2>1
  <2>3. QED
    BY <1>9, <2>2
<1>11. QED
  BY <1>6, <1>10 DEF ms, ap, ns, last, longer

\* One more field.
LEMMA EmitsOneMore ==
  ASSUME NEW ks \in Seq(Known), NEW e \in Known, NEW F,
         \A k \in Known : F[k] # NoText => F[k] \in STRING,
         ~ \E i \in 1..Len(ks) : ks[i] = e,
         EmitsOnce(ks, F)
  PROVE  EmitsOnce(Append(ks, e), F)
<1> DEFINE G == {k \in Known : F[k] # NoText}
           W == {l \in Lines : l.key \in Known}
           old == Emitted(ks, F)
           new == Emitted(Append(ks, e), F)
<1>1. /\ Append(ks, e) \in Seq(Known) /\ Len(ks) \in Nat /\ Len(Append(ks, e)) = Len(ks) + 1
      /\ Append(ks, e)[Len(ks) + 1] = e
      /\ \A i \in 1..Len(ks) : Append(ks, e)[i] = ks[i]
  BY AppendProperties, LenProperties
<1>2. ASSUME NEW k
      PROVE  (\E i \in 1..Len(Append(ks, e)) : Append(ks, e)[i] = k)
               <=> (\E i \in 1..Len(ks) : ks[i] = k) \/ k = e
  <2>1. 1..Len(Append(ks, e)) = (1..Len(ks)) \union {Len(ks) + 1}
    BY <1>1
  <2>2. QED
    BY <1>1, <2>1
<1>3. old \in Seq(W) /\ old \in Text
  <2>1. old \in Seq(W)
    BY DEF EmitsOnce
  <2>2. QED
    BY <2>1, SeqMonotonic DEF Text
<1>4. ASSUME F[e] = NoText
      PROVE  EmitsOnce(Append(ks, e), F)
  <2>1. new = old
    BY <1>4, EmittedAppend
  <2>2. QED
    BY <1>2, <1>4, <2>1 DEF EmitsOnce
<1>5. ASSUME F[e] # NoText
      PROVE  EmitsOnce(Append(ks, e), F)
  <2> DEFINE l == Line(e, F[e])
  <2>1. l \in W /\ l \in Lines /\ l.key = e
    <3>1. e \in STRING /\ F[e] \in STRING
      BY <1>5, KeyAssumption
    <3>2. QED
      BY <3>1, LineIsOne
  <2>2. new = Append(old, l)
    <3> DEFINE given == Select(ks, G)
    <3>1. given \in Seq(G)
      <4>1. Known \intersect G \subseteq G
        OBVIOUS
      <4>2. QED
        BY <4>1, SelectIsSeq, SeqMonotonic
    <3>2. \A k \in G : Line(k, F[k]) \in Lines
      BY KeyAssumption, LineIsOne
    <3>3. e \in G
      BY <1>5
    <3>4. /\ old = [i \in DOMAIN given |-> Line(given[i], F[given[i]])]
          /\ new = [i \in DOMAIN Append(given, e) |-> Line(Append(given, e)[i], F[Append(given, e)[i]])]
      BY <1>5, EmittedAppend DEF Emitted
    <3> HIDE DEF G, given, old, new
    <3>5. [i \in DOMAIN Append(given, e) |-> Line(Append(given, e)[i], F[Append(given, e)[i]])]
            = Append([i \in DOMAIN given |-> Line(given[i], F[given[i]])], l)
      BY <3>1, <3>2, <3>3, LinesOfAppend
    <3>6. QED
      BY <3>4, <3>5
  <2> HIDE DEF l, old, new, W
  <2>3. new \in Seq(W)
    BY <1>3, <2>1, <2>2, AppendProperties
  <2>4. ASSUME NEW k
        PROVE  KeyLines(new, k)
                 = IF (\E i \in 1..Len(Append(ks, e)) : Append(ks, e)[i] = k) /\ F[k] # NoText
                   THEN <<Line(k, F[k])>> ELSE <<>>
    <3>1. KeyLines(new, k) = IF l.key = k THEN Append(KeyLines(old, k), l) ELSE KeyLines(old, k)
      BY <1>3, <2>1, <2>2, KeyLinesAppend
    <3>2. KeyLines(old, k)
            = IF (\E i \in 1..Len(ks) : ks[i] = k) /\ F[k] # NoText THEN <<Line(k, F[k])>> ELSE <<>>
      BY DEF EmitsOnce, old
    <3>3. CASE k = e
      <4>1. KeyLines(old, k) = <<>>
        BY <3>2, <3>3
      <4>2. KeyLines(new, k) = <<l>>
        BY <2>1, <3>1, <3>3, <4>1
      <4>3. QED
        BY <1>2, <1>5, <3>3, <4>2 DEF l
    <3>4. CASE k # e
      BY <1>2, <2>1, <3>1, <3>2, <3>4
    <3>5. QED
      BY <3>3, <3>4
  <2>5. QED
    BY <2>3, <2>4 DEF EmitsOnce, new, W
<1>6. QED
  BY <1>4, <1>5

LEMMA DistinctEmitsOnce ==
  ASSUME NEW ks \in Seq(Known), Distinct(ks), NEW F,
         \A k \in Known : F[k] # NoText => F[k] \in STRING
  PROVE  EmitsOnce(ks, F)
<1> DEFINE Q == {s \in Seq(Known) : Distinct(s) => EmitsOnce(s, F)}
<1>1. <<>> \in Q
  <2>1. PICK none : none = <<>>
    OBVIOUS
  <2>2. none \in Seq(Known) /\ Len(none) = 0
    BY <2>1, EmptySeq
  <2>3. Emitted(none, F) = <<>>
    <3> DEFINE given == Select(none, {k \in Known : F[k] # NoText})
    <3>1. given = <<>>
      BY <2>1, SelectEmpty
    <3>2. Emitted(none, F) = [i \in DOMAIN given |-> Line(given[i], F[given[i]])]
      BY DEF Emitted
    <3> HIDE DEF given
    <3>3. QED
      BY <3>1, <3>2
  <2>4. \A k : KeyLines(Emitted(none, F), k) = <<>>
    BY <2>3, SelectEmpty DEF KeyLines
  <2>5. Emitted(none, F) \in Seq({l \in Lines : l.key \in Known})
    BY <2>3, EmptySeq
  <2>6. EmitsOnce(none, F)
    BY <2>2, <2>4, <2>5 DEF EmitsOnce
  <2>7. QED
    BY <2>1, <2>2, <2>6
<1>2. ASSUME NEW s \in Seq(Known), NEW e \in Known, s \in Q
      PROVE  Append(s, e) \in Q
  <2>1. /\ Append(s, e) \in Seq(Known) /\ Len(s) \in Nat /\ Len(Append(s, e)) = Len(s) + 1
        /\ Append(s, e)[Len(s) + 1] = e
        /\ \A i \in 1..Len(s) : Append(s, e)[i] = s[i]
    BY AppendProperties, LenProperties
  <2> SUFFICES ASSUME Distinct(Append(s, e))
               PROVE  EmitsOnce(Append(s, e), F)
    BY <2>1
  <2>2. \A i, j \in 1..(Len(s) + 1) : Append(s, e)[i] = Append(s, e)[j] => i = j
    BY <2>1 DEF Distinct
  <2>3. Distinct(s)
    <3>1. \A i \in 1..Len(s) : i \in 1..(Len(s) + 1)
      BY <2>1
    <3>2. QED
      BY <2>1, <2>2, <3>1 DEF Distinct
  <2>4. ~ \E i \in 1..Len(s) : s[i] = e
    <3> SUFFICES ASSUME NEW i \in 1..Len(s), s[i] = e
                 PROVE  FALSE
      OBVIOUS
    <3>1. i \in 1..(Len(s) + 1) /\ Len(s) + 1 \in 1..(Len(s) + 1) /\ i # Len(s) + 1
      BY <2>1
    <3>2. QED
      BY <2>1, <2>2, <3>1
  <2>5. EmitsOnce(s, F)
    BY <1>2, <2>3
  <2>6. QED
    BY <2>4, <2>5, EmitsOneMore
<1> HIDE DEF Q
<1>3. Seq(Known) \subseteq Q
  BY <1>1, <1>2, AppendingOn
<1>4. QED
  BY <1>3 DEF Q

LEMMA KnownOrderIsDistinct ==
  /\ KnownOrder \in Seq(Known) /\ Distinct(KnownOrder)
  /\ \A k \in Known : \E i \in 1..Len(KnownOrder) : KnownOrder[i] = k
  /\ "#" \notin Known /\ "title" \in Known
<1>1. Known = {"title", "linux", "initrd", "options", "machine-id"}
  <2>1. DOMAIN KnownOrder = 1..5
    BY DEF KnownOrder
  <2>2. 1..5 = {1, 2, 3, 4, 5}
    OBVIOUS
  <2>3. QED
    BY <2>1, <2>2 DEF Known, ToSet, KnownOrder
<1>2. Len(KnownOrder) = 5 /\ 1..5 = {1, 2, 3, 4, 5}
  BY DEF KnownOrder
<1>3. KnownOrder \in Seq(Known)
  BY <1>1 DEF KnownOrder
<1>4. Distinct(KnownOrder)
  BY <1>2 DEF Distinct, KnownOrder
<1>5. \A k \in Known : \E i \in 1..Len(KnownOrder) : KnownOrder[i] = k
  BY <1>1, <1>2 DEF KnownOrder
<1>6. QED
  BY <1>1, <1>3, <1>4, <1>5

Retitled(lines, title) == [[k \in Known |-> FieldOf(lines, k)] EXCEPT !["title"] = title]

Extra(lines) == Select(lines, {l \in Lines : l.key \notin Known \union {"#"}})

LEMMA WithTitleParts ==
  ASSUME NEW lines, NEW title
  PROVE  WithTitle(lines, title)
           = Restored(Emitted(KnownOrder, Retitled(lines, title)) \o Extra(lines), Preserved(lines))
<1> DEFINE entry == [LoaderEntry(lines) EXCEPT !.fields["title"] = title]
<1>1. /\ LoaderEntry(lines).fields = [k \in Known |-> FieldOf(lines, k)]
      /\ LoaderEntry(lines).extra = Extra(lines)
      /\ LoaderEntry(lines).preserved = Preserved(lines)
      /\ LoaderEntry(lines) = [fields |-> [k \in Known |-> FieldOf(lines, k)],
                               extra |-> Extra(lines), preserved |-> Preserved(lines)]
  BY DEF LoaderEntry, Extra, Preserved, Numbered
<1>2. /\ entry.fields = Retitled(lines, title)
      /\ entry.extra = Extra(lines)
      /\ entry.preserved = Preserved(lines)
  BY <1>1 DEF Retitled
<1>3. WithTitle(lines, title) = SerializeEntry(entry)
  BY DEF WithTitle
<1> HIDE DEF entry
<1>4. SerializeEntry(entry)
        = Restored(Emitted(KnownOrder, entry.fields) \o entry.extra, entry.preserved)
  BY DEF SerializeEntry, Emitted
<1>5. QED
  BY <1>2, <1>3, <1>4

\* Of a text that has a line of a key, the field is a string.
LEMMA FieldIsString ==
  ASSUME NEW lines \in Text, NEW k, FieldOf(lines, k) # NoText
  PROVE  FieldOf(lines, k) \in STRING
<1> DEFINE r == KeyLines(lines, k)
<1>1. r \in Seq(Lines) /\ Len(r) \in Nat
  BY KeyLinesAreText, LenProperties DEF Text
<1>2. FieldOf(lines, k) = IF r = <<>> THEN NoText ELSE r[Len(r)].value
  BY FieldIsLastLine
<1> HIDE DEF r
<1>3. r # <<>>
  BY <1>2
<1>4. Len(r) \in 1..Len(r)
  BY <1>1, <1>3, EmptySeq
<1>5. r[Len(r)] \in Lines
  BY <1>1, <1>4, ElementOfSeq
<1>6. QED
  BY <1>2, <1>3, <1>5, LineIsOne

\* rename_loader_entry: the entry has the title, and of every other key the lines
\* it had; a key the daemon knows and the entry repeats is cut to its last line.
LEMMA WithTitleIsExact ==
  ASSUME NEW lines \in Text, NEW title \in STRING
  PROVE  /\ WithTitle(lines, title) \in Text
         /\ title # NoText => FieldOf(WithTitle(lines, title), "title") = title
         /\ EntryParses(lines) =>
              \A k : k # "title" /\ (k \notin Known \/ Len(KeyLines(lines, k)) <= 1)
                       => KeyLines(WithTitle(lines, title), k) = KeyLines(lines, k)
<1> DEFINE F == Retitled(lines, title)
           known == Emitted(KnownOrder, F)
           extra == Extra(lines)
           plain == known \o extra
           new == Restored(plain, Preserved(lines))
           W == {l \in Lines : l.key \in Known}
           E == {l \in Lines : l.key \notin Known \union {"#"}}
<1>0. WithTitle(lines, title) = new
  BY WithTitleParts
<1>1. \A k \in Known : F[k] = IF k = "title" THEN title ELSE FieldOf(lines, k)
  BY DEF Retitled
<1> HIDE DEF F
<1>2. \A k \in Known : F[k] # NoText => F[k] \in STRING
  BY <1>1, FieldIsString
<1>3. EmitsOnce(KnownOrder, F)
  BY <1>2, KnownOrderIsDistinct, DistinctEmitsOnce
<1>4. /\ known \in Seq(W)
      /\ \A k : KeyLines(known, k) = IF k \in Known /\ F[k] # NoText THEN <<Line(k, F[k])>> ELSE <<>>
  <2>1. known \in Seq(W)
    BY <1>3 DEF EmitsOnce
  <2>2. ASSUME NEW k
        PROVE  (\E i \in 1..Len(KnownOrder) : KnownOrder[i] = k) <=> k \in Known
    BY KnownOrderIsDistinct, ElementOfSeq
  <2>3. QED
    BY <1>3, <2>1, <2>2 DEF EmitsOnce
<1> HIDE DEF known
<1>5. extra \in Seq(E)
  <2>1. Lines \intersect E \subseteq E /\ lines \in Seq(Lines)
    BY DEF Text
  <2> HIDE DEF E
  <2>2. Select(lines, E) \in Seq(E)
    BY <2>1, SelectIsSeq, SeqMonotonic
  <2>3. QED
    BY <2>2 DEF Extra, E
<1>6. /\ known \in Seq(Lines) /\ extra \in Seq(Lines)
      /\ plain \in Seq(Lines) /\ \A i \in 1..Len(plain) : ~IsComment(plain[i])
  <2>1. known \in Seq(Lines) /\ extra \in Seq(Lines)
    BY <1>4, <1>5, SeqMonotonic
  <2>2. known \in Seq(W \union E) /\ extra \in Seq(W \union E)
    <3>1. W \subseteq W \union E /\ E \subseteq W \union E
      OBVIOUS
    <3> HIDE DEF W, E, extra
    <3>2. QED
      BY <1>4, <1>5, <3>1, SeqMonotonic
  <2>3. plain \in Seq(Lines) /\ plain \in Seq(W \union E)
    BY <2>1, <2>2, ConcatProperties
  <2> HIDE DEF plain
  <2>4. ASSUME NEW i \in 1..Len(plain)
        PROVE  ~IsComment(plain[i])
    <3>1. plain[i] \in W \union E
      BY <2>3, ElementOfSeq
    <3>2. QED
      BY <3>1, KnownOrderIsDistinct DEF IsComment
  <2>5. QED
    BY <2>1, <2>3, <2>4
<1>7. ASSUME NEW k
      PROVE  KeyLines(plain, k) = KeyLines(known, k) \o KeyLines(extra, k)
  <2> DEFINE T == {l \in Lines : l.key = k}
  <2> HIDE DEF T, extra
  <2>1. Select(plain, T) = Select(known, T) \o Select(extra, T)
    BY <1>6, SelectConcat
  <2>2. QED
    BY <2>1 DEF KeyLines, T
<1>8. ASSUME NEW k, k \notin Known, k # "#"
      PROVE  KeyLines(plain, k) = KeyLines(lines, k)
  <2> DEFINE T == {l \in Lines : l.key = k}
  <2>1. Lines \intersect T \subseteq E
    BY <1>8
  <2>2. Select(Select(lines, E), T) = Select(lines, T)
    <3> HIDE DEF T, E
    <3>1. QED
      BY <2>1, SelectTwice DEF Text
  <2>3. KeyLines(extra, k) = KeyLines(lines, k)
    BY <2>2 DEF KeyLines, Extra
  <2>4. KeyLines(known, k) = <<>>
    BY <1>4, <1>8
  <2>5. KeyLines(lines, k) \in Seq(Lines)
    BY KeyLinesAreText DEF Text
  <2>6. <<>> \o KeyLines(lines, k) = KeyLines(lines, k)
    BY <2>5, ConcatEmptySeq
  <2>7. QED
    BY <1>7, <2>3, <2>4, <2>6
<1>9. ASSUME NEW k \in Known
      PROVE  KeyLines(plain, k) = IF F[k] # NoText THEN <<Line(k, F[k])>> ELSE <<>>
  <2> DEFINE T == {l \in Lines : l.key = k}
  <2>1. E \intersect T = {}
    BY <1>9
  <2>2. Select(extra, T) = <<>>
    <3> HIDE DEF T, E, extra
    <3>1. QED
      BY <1>5, <2>1, SelectNone
  <2>3. KeyLines(extra, k) = <<>>
    BY <2>2 DEF KeyLines
  <2>4. KeyLines(known, k) = IF F[k] # NoText THEN <<Line(k, F[k])>> ELSE <<>>
    BY <1>4, <1>9
  <2>5. KeyLines(known, k) \in Seq(Lines)
    BY <1>6, KeyLinesAreText DEF Text
  <2>6. KeyLines(known, k) \o <<>> = KeyLines(known, k)
    BY <2>5, ConcatEmptySeq
  <2>7. QED
    BY <1>7, <2>3, <2>4, <2>6
<1> HIDE DEF plain, extra
<1>10. PutsBack(plain, lines, new)
  BY <1>6, RestoredIsExact DEF Text
<1> HIDE DEF new
<1>11. new \in Text
  BY <1>10 DEF PutsBack
<1>12. ASSUME title # NoText
       PROVE  FieldOf(new, "title") = title
  <2>1. PICK k : k = "title"
    OBVIOUS
  <2>2. k \in Known /\ F[k] = title /\ k # "#"
    BY <1>1, <2>1, KnownOrderIsDistinct
  <2>3. KeyLines(new, k) = <<Line(k, title)>>
    BY <1>9, <1>10, <1>12, <2>2 DEF PutsBack
  <2>4. FieldOf(new, k) = IF KeyLines(new, k) = <<>> THEN NoText
                          ELSE KeyLines(new, k)[Len(KeyLines(new, k))].value
    BY <1>11, FieldIsLastLine
  <2>5. Line(k, title).value = title
    BY DEF Line
  <2>6. QED
    BY <2>1, <2>3, <2>4, <2>5
<1>13. ASSUME EntryParses(lines),
              NEW k, k # "title", k \notin Known \/ Len(KeyLines(lines, k)) <= 1
       PROVE  KeyLines(new, k) = KeyLines(lines, k)
  <2>1. CASE k = "#"
    BY <1>10, <2>1 DEF PutsBack
  <2>2. CASE k # "#" /\ k \notin Known
    BY <1>8, <1>10, <2>2 DEF PutsBack
  <2>3. CASE k # "#" /\ k \in Known
    <3> DEFINE r == KeyLines(lines, k)
    <3>1. r \in Seq(Lines) /\ Len(r) \in Nat /\ Len(r) <= 1
      BY <1>13, <2>3, KeyLinesAreText, LenProperties DEF Text
    <3>2. F[k] = FieldOf(lines, k)
      BY <1>1, <1>13, <2>3
    <3>3. FieldOf(lines, k) = IF r = <<>> THEN NoText ELSE r[Len(r)].value
      BY FieldIsLastLine
    <3>4. KeyLines(new, k) = IF F[k] # NoText THEN <<Line(k, F[k])>> ELSE <<>>
      BY <1>9, <1>10, <2>3 DEF PutsBack
    <3>5. \A i \in 1..Len(r) : r[i] \in Lines /\ r[i].key = k
      BY <3>1, KeyLinesAreText, ElementOfSeq
    <3>6. \A i \in 1..Len(r) : r[i].value # NoText
      <4> DEFINE S == {l \in Lines : IsComment(l) \/ l.value # NoText}
                 T == {l \in Lines : l.key = k}
      <4>1. lines \in Seq(S)
        <5>1. lines \in Seq(Lines)
          BY DEF Text
        <5>2. DOMAIN lines = 1..Len(lines) /\ Len(lines) \in Nat /\ lines \in [1..Len(lines) -> Lines]
          BY <5>1, LenProperties
        <5>3. \A i \in 1..Len(lines) : lines[i] \in S
          BY <1>13, <5>2 DEF EntryParses
        <5> HIDE DEF S
        <5>4. lines \in [1..Len(lines) -> S]
          BY <5>2, <5>3
        <5>5. QED
          BY <5>2, <5>4
      <4>2. r \in Seq(S \intersect T)
        <5> HIDE DEF S, T
        <5>1. Select(lines, T) \in Seq(S \intersect T)
          BY <4>1, SelectIsSeq
        <5>2. QED
          BY <5>1 DEF KeyLines, T
      <4>3. \A i \in 1..Len(r) : r[i] \in S \intersect T
        <5> HIDE DEF S, T, r
        <5>1. QED
          BY <4>2, ElementOfSeq
      <4> HIDE DEF r
      <4>4. QED
        BY <2>3, <4>3 DEF IsComment
    <3> HIDE DEF r
    <3>7. CASE r = <<>>
      BY <3>2, <3>3, <3>4, <3>7 DEF r
    <3>8. CASE r # <<>>
      <4>1. Len(r) = 1 /\ 1 \in 1..Len(r)
        <5>1. \A s \in Seq(Lines) : s # <<>> => Len(s) \in Nat \ {0}
          BY EmptySeq
        <5>2. Len(r) \in Nat \ {0}
          BY <3>1, <3>8, <5>1
        <5>3. QED
          BY <3>1, <5>2
      <4>2. r[1] = Line(k, F[k]) /\ F[k] # NoText
        <5>1. r[1] = Line(r[1].key, r[1].value)
          BY <3>5, <4>1, LineIsOne
        <5>2. QED
          BY <3>2, <3>3, <3>5, <3>6, <3>8, <4>1, <5>1
      <4>3. r = <<r[1]>>
        BY <3>1, <4>1
      <4>4. QED
        BY <3>4, <4>2, <4>3 DEF r
    <3>9. QED
      BY <3>7, <3>8
  <2>4. QED
    BY <2>1, <2>2, <2>3
<1>14. QED
  BY <1>0, <1>11, <1>12, <1>13

-----------------------------------------------------------------------------
(* The inductive invariant                                                 *)

Request == [op : {"default", "title", "add", "remove"}, arg : STRING, etag : Bytes \union {NoEtag},
            seen : Nat]

Types ==
  /\ target \in Targets /\ overlap \in BOOLEAN
  /\ name \in Inode \union {NoInode} /\ tmp \in Inode \union {NoInode}
  /\ data \in [Inode -> Bytes]
  /\ lock \in [Inode -> Caller \union {NoHolder}]
  /\ pc \in [Caller -> Resting \union {"read"} \union Working]
  /\ request \in [Caller -> Request \union {NoRequest}]
  /\ fd \in [Caller -> Inode \union {NoInode}]
  /\ tfd \in [Caller -> Inode \union {NoInode}]
  /\ base \in [Caller -> Bytes]
  /\ changes \in Nat

\* What a call may ask of a target.
Fits(t, r) ==
  /\ r \in Request
  /\ t = "loader.conf" => r.op = "default"
  /\ t = "entry" => r.op = "title" /\ r.arg # NoText
  /\ t \in {"cmdline", "kargs"} => r.op \in {"add", "remove"}

\* What a call has open at its step.
Steps ==
  \A c \in Caller :
    /\ pc[c] \notin Resting => Fits(target, request[c])
    /\ pc[c] = "parsed" => target \in Loader
    /\ pc[c] = "checked" => target = "kargs"
    /\ pc[c] \in {"opened", "locked", "verified", "created", "written"} => target # "kargs"
    /\ pc[c] \in {"opened", "locked"} => fd[c] # NoInode
    /\ tfd[c] # NoInode <=> pc[c] \in {"created", "written"}

\* The temporary name is another than the target's, and the command line has none.
Names ==
  /\ tmp # NoInode => tmp # name /\ target \in Loader
  /\ target = "kargs" => name # NoInode

Whole ==
  target \in {"cmdline", "kargs"} \/ ~overlap => (name # NoInode => data[name] \in Text)

\* The temporary file of a command line is its call's alone, and is nobody's
\* target; what a call has open, and what it edits, carried the ETag it presented.
Staged ==
  target = "cmdline" =>
    \A c \in Caller :
      /\ fd[c] # NoInode => data[fd[c]] \in Text
      /\ tfd[c] # NoInode => /\ tfd[c] # name
                             /\ \A d \in Caller : tfd[c] # fd[d] /\ (tfd[d] = tfd[c] => d = c)
      /\ pc[c] \in {"verified", "created", "written"} =>
           base[c] = request[c].etag /\ base[c] \in Text
      /\ pc[c] = "created" => data[tfd[c]] = Empty
      /\ pc[c] = "written" => data[tfd[c]] = Transformed(request[c], base[c])

\* A call alone in the daemon stages its edit of the text it has read.
Serial ==
  ~overlap =>
    \A c \in Caller : pc[c] \in Working =>
      /\ \A d \in Caller : pc[d] \in Working => d = c
      /\ target \in Loader =>
           /\ base[c] \in Text
           /\ target = "entry" => EntryParses(base[c])
           /\ pc[c] \in {"created", "written"} => tfd[c] = tmp
           /\ pc[c] = "created" => data[tmp] = Empty
           /\ pc[c] = "written" => data[tmp] = Transformed(request[c], base[c])

LoaderInv == Types /\ Steps /\ Names /\ Whole /\ Staged /\ Serial

-----------------------------------------------------------------------------
(* Every step keeps it                                                     *)

\* The edit of a text is a text, and is what was meant.
LEMMA TransformedIsExact ==
  ASSUME NEW old \in Text, NEW t, NEW r, Fits(t, r)
  PROVE  /\ Transformed(r, old) \in Text
         /\ t = "loader.conf" => Intended(r, old, Transformed(r, old))
         /\ t = "entry" /\ EntryParses(old) => Intended(r, old, Transformed(r, old))
         /\ t \in {"cmdline", "kargs"} => Intended(r, old, Transformed(r, old))
<1> DEFINE new == Transformed(r, old)
<1>1. IsText(old)
  BY LoaderAssumption DEF IsText
<1>2. r.arg \in STRING /\ r.op \in {"default", "title", "add", "remove"}
  BY DEF Fits, Request
<1>3. CASE r.op = "default"
  <2>1. new = UpdateOrAppend(old, "default", r.arg)
    BY <1>1, <1>3 DEF Transformed
  <2>2. PICK k : k = "default"
    OBVIOUS
  <2>3. k \in STRING
    BY <2>2, KeyAssumption
  <2>4. /\ UpdateOrAppend(old, k, r.arg) \in Text
        /\ Setting(UpdateOrAppend(old, k, r.arg), k) # {}
        /\ UpdateOrAppend(old, k, r.arg)[Min(Setting(UpdateOrAppend(old, k, r.arg), k))].value = r.arg
        /\ \A other : other # k =>
             KeyLines(UpdateOrAppend(old, k, r.arg), other) = KeyLines(old, other)
    BY <1>2, <2>3, UpdateOrAppendIsExact
  <2> HIDE DEF new
  <2>5. LoaderConfDefault(new) = r.arg
    BY <2>1, <2>2, <2>4 DEF LoaderConfDefault
  <2>6. Intended(r, old, new)
    BY <1>3, <2>1, <2>2, <2>4, <2>5 DEF Intended
  <2>7. new \in Text
    BY <2>1, <2>2, <2>4
  <2>8. QED
    BY <2>6, <2>7 DEF new
<1>4. CASE r.op = "title"
  <2>1. new = WithTitle(old, r.arg)
    BY <1>1, <1>4 DEF Transformed
  <2>2. /\ WithTitle(old, r.arg) \in Text
        /\ r.arg # NoText => FieldOf(WithTitle(old, r.arg), "title") = r.arg
        /\ EntryParses(old) =>
             \A k : k # "title" /\ (k \notin Known \/ Len(KeyLines(old, k)) <= 1)
                      => KeyLines(WithTitle(old, r.arg), k) = KeyLines(old, k)
    BY <1>2, WithTitleIsExact
  <2> HIDE DEF new
  <2>3. ASSUME t = "entry", EntryParses(old)
        PROVE  Intended(r, old, new)
    <3>1. FieldOf(new, "title") = r.arg
      BY <2>1, <2>2, <2>3 DEF Fits
    <3>2. \A k : k # "title" /\ (k \notin Known \/ Len(KeyLines(old, k)) <= 1)
                   => KeyLines(new, k) = KeyLines(old, k)
      BY <2>1, <2>2, <2>3
    <3>3. QED
      BY <1>4, <3>1, <3>2 DEF Intended
  <2>4. t \notin {"loader.conf", "cmdline", "kargs"}
    BY <1>4 DEF Fits
  <2>5. QED
    BY <2>1, <2>2, <2>3, <2>4 DEF new
<1>5. CASE r.op = "add"
  <2>1. new = AddParam(old, r.arg)
    BY <1>1, <1>5 DEF Transformed
  <2>2. /\ AddParam(old, r.arg) \in Text /\ HasParam(AddParam(old, r.arg), r.arg)
        /\ Others(AddParam(old, r.arg), r.arg) = Others(old, r.arg)
    BY <1>2, ParamsAreExact
  <2> HIDE DEF new
  <2>3. new \in Text /\ Intended(r, old, new)
    BY <1>5, <2>1, <2>2 DEF Intended
  <2>4. QED
    BY <2>3 DEF new
<1>6. CASE r.op = "remove"
  <2>1. new = RemoveParam(old, r.arg)
    BY <1>1, <1>6 DEF Transformed
  <2>2. /\ RemoveParam(old, r.arg) \in Text /\ ~HasParam(RemoveParam(old, r.arg), r.arg)
        /\ Others(RemoveParam(old, r.arg), r.arg) = Others(old, r.arg)
    BY <1>2, ParamsAreExact
  <2> HIDE DEF new
  <2>3. new \in Text /\ Intended(r, old, new)
    BY <1>6, <2>1, <2>2 DEF Intended
  <2>4. QED
    BY <2>3 DEF new
<1>7. QED
  BY <1>2, <1>3, <1>4, <1>5, <1>6

LEMMA TransformedIsBytes ==
  ASSUME NEW bytes \in Bytes, NEW t, NEW r, Fits(t, r)
  PROVE  Transformed(r, bytes) \in Bytes
<1>1. CASE bytes \in Text
  BY <1>1, TransformedIsExact DEF Bytes
<1>2. CASE bytes \notin Text
  BY <1>2 DEF Transformed, IsText, Bytes
<1>3. QED
  BY <1>1, <1>2

\* The call is refused, and the files are as they were.
Leaves(c) ==
  /\ \E reply \in Errors : Return(c, reply)
  /\ UNCHANGED <<fixed, files>>

LEMMA LeavingKeeps ==
  ASSUME LoaderInv, NEW c \in Caller, Leaves(c)
  PROVE  LoaderInv'
<1>1. PICK reply \in Errors : Return(c, reply)
  BY DEF Leaves
<1>2. /\ UNCHANGED <<target, overlap, name, tmp, data, changes>>
      /\ pc' = [pc EXCEPT ![c] = reply]
      /\ lock' = [i \in Inode |-> IF lock[i] = c THEN NoHolder ELSE lock[i]]
      /\ request' = [request EXCEPT ![c] = NoRequest]
      /\ fd' = [fd EXCEPT ![c] = NoInode]
      /\ tfd' = [tfd EXCEPT ![c] = NoInode]
      /\ base' = [base EXCEPT ![c] = Empty]
  BY <1>1 DEF Leaves, Return, fixed, files
<1>3. reply \in Resting /\ reply \notin Working \union {"read"}
  BY <1>1 DEF Resting, Errors, Working
<1>4. Types'
  <2>1. Empty \in Bytes
    BY DEF Bytes
  <2>2. QED
    BY <1>2, <1>3, <2>1 DEF LoaderInv, Types
<1>5. /\ pc'[c] = reply /\ fd'[c] = NoInode /\ tfd'[c] = NoInode
      /\ \A d \in Caller : d # c => /\ pc'[d] = pc[d] /\ request'[d] = request[d] /\ fd'[d] = fd[d]
                                    /\ tfd'[d] = tfd[d] /\ base'[d] = base[d]
  BY <1>2 DEF LoaderInv, Types
<1>6. Steps'
  BY <1>1, <1>2, <1>3, <1>5 DEF LoaderInv, Steps, Working
<1>7. Names' /\ Whole'
  BY <1>2 DEF LoaderInv, Names, Whole
<1>8. Staged'
  BY <1>2, <1>3, <1>5 DEF LoaderInv, Staged, Working
<1>9. Serial'
  BY <1>2, <1>3, <1>5 DEF LoaderInv, Serial, Working
<1>10. QED
  BY <1>4, <1>6, <1>7, <1>8, <1>9 DEF LoaderInv

LEMMA ReadTargetKeeps ==
  ASSUME LoaderInv, NEW c \in Caller, ReadTarget(c)
  PROVE  LoaderInv'
<1>1. PICK o \in Operation :
        request' = [request EXCEPT ![c] =
          [op |-> o.op, arg |-> o.arg, etag |-> IF Exists THEN data[name] ELSE NoEtag,
           seen |-> changes]]
  BY DEF ReadTarget
<1> DEFINE r == [op |-> o.op, arg |-> o.arg, etag |-> IF Exists THEN data[name] ELSE NoEtag,
                 seen |-> changes]
<1>2. /\ UNCHANGED <<target, overlap, name, tmp, data, changes, lock, fd, tfd, base>>
      /\ pc' = [pc EXCEPT ![c] = "read"]
      /\ request' = [request EXCEPT ![c] = r]
      /\ pc[c] \in Resting
  BY <1>1 DEF ReadTarget, fixed, files
<1>3. Fits(target, r)
  <2>1. r.etag \in Bytes \union {NoEtag} /\ r.seen \in Nat
    BY DEF LoaderInv, Types, Exists
  <2>2. /\ target = "loader.conf" => o.op = "default" /\ o.arg \in Id
        /\ target = "entry" => o.op = "title" /\ o.arg \in Title
        /\ target \in {"cmdline", "kargs"} => o.op \in {"add", "remove"} /\ o.arg \in Param
    BY DEF Operation
  <2>3. target \in {"loader.conf", "entry", "cmdline", "kargs"}
    BY LoaderAssumption DEF LoaderInv, Types
  <2>4. /\ o.arg \in STRING
        /\ target = "entry" => o.arg # NoText
        /\ o.op \in {"default", "title", "add", "remove"}
    BY <2>2, <2>3, LoaderAssumption
  <2>5. r \in Request
    BY <2>1, <2>4 DEF Request
  <2>6. QED
    BY <2>2, <2>4, <2>5 DEF Fits
<1> HIDE DEF r
<1>4. pc[c] \notin Working \union {"read"} /\ "read" \notin Resting \union Working
  BY <1>2 DEF Resting, Errors, Working
<1>5. Types'
  BY <1>2, <1>3 DEF LoaderInv, Types, Fits
<1>6. /\ pc'[c] = "read" /\ request'[c] = r
      /\ \A d \in Caller : d # c => pc'[d] = pc[d] /\ request'[d] = request[d]
  BY <1>2 DEF LoaderInv, Types
<1>7. tfd[c] = NoInode
  BY <1>4 DEF LoaderInv, Steps, Working
<1>8. Steps'
  BY <1>2, <1>3, <1>4, <1>6, <1>7 DEF LoaderInv, Steps, Working
<1>9. Names' /\ Whole'
  BY <1>2 DEF LoaderInv, Names, Whole
<1>10. Staged'
  BY <1>2, <1>4, <1>6, <1>7 DEF LoaderInv, Staged, Working
<1>11. Serial'
  BY <1>2, <1>4, <1>6 DEF LoaderInv, Serial, Working
<1>12. QED
  BY <1>5, <1>8, <1>9, <1>10, <1>11 DEF LoaderInv

LEMMA ReadLoaderTextKeeps ==
  ASSUME LoaderInv, NEW c \in Caller, ReadLoaderText(c)
  PROVE  LoaderInv'
<1> DEFINE text == IF name = NoInode THEN <<>> ELSE data[name]
<1>1. /\ UNCHANGED <<target, overlap, name, tmp, data, changes, lock, request, fd, tfd>>
      /\ pc[c] = "read" /\ pc' = [pc EXCEPT ![c] = "parsed"]
      /\ base' = [base EXCEPT ![c] = text]
      /\ target \in Loader
      /\ target = "entry" => name # NoInode /\ (IsText(text) => EntryParses(text))
      /\ overlap \/ \A d \in Caller : pc[d] \notin Working
  BY DEF ReadLoaderText, Dispatched, Step, Exists, fixed, files, Loader
<1>2. text \in Bytes
  BY EmptySeq DEF LoaderInv, Types, Bytes, Text
<1>3. ~overlap => text \in Text /\ (target = "entry" => EntryParses(text))
  <2>1. ASSUME ~overlap
        PROVE  text \in Text /\ (target = "entry" => EntryParses(text))
    <3>1. text \in Text
      BY <1>1, <2>1, EmptySeq DEF LoaderInv, Whole, Text
    <3>2. IsText(text)
      BY <3>1, LoaderAssumption DEF IsText
    <3>3. QED
      BY <1>1, <2>1, <3>1, <3>2
  <2>2. QED
    BY <2>1
<1>4. Types'
  BY <1>1, <1>2 DEF LoaderInv, Types, Working
<1>5. /\ pc'[c] = "parsed" /\ base'[c] = text
      /\ \A d \in Caller : d # c => pc'[d] = pc[d] /\ base'[d] = base[d]
  BY <1>1 DEF LoaderInv, Types
<1> HIDE DEF text
<1>6. "read" \notin Resting \union Working /\ target \notin {"cmdline", "kargs"}
  BY <1>1 DEF Resting, Errors, Working, Loader
<1>7. Steps'
  BY <1>1, <1>5, <1>6 DEF LoaderInv, Steps
<1>8. Names' /\ Whole'
  BY <1>1 DEF LoaderInv, Names, Whole
<1>9. Staged'
  BY <1>1, <1>6 DEF Staged
<1>10. Serial'
  <2> SUFFICES ASSUME ~overlap
               PROVE  Serial'
    BY <1>1 DEF Serial
  <2>1. \A d \in Caller : d # c => pc'[d] \notin Working
    BY <1>1, <1>5
  <2>2. QED
    BY <1>1, <1>3, <1>5, <1>6, <2>1 DEF Serial
<1>11. QED
  BY <1>4, <1>7, <1>8, <1>9, <1>10 DEF LoaderInv

LEMMA OpenLoaderFileKeeps ==
  ASSUME LoaderInv, NEW c \in Caller, OpenLoaderFile(c)
  PROVE  LoaderInv'
<1> DEFINE step == IF name # NoInode THEN "opened" ELSE "verified"
<1>1. /\ UNCHANGED <<target, overlap, name, tmp, data, changes, lock, request, tfd, base>>
      /\ pc[c] = "parsed" /\ pc' = [pc EXCEPT ![c] = step]
      /\ fd' = [fd EXCEPT ![c] = IF name # NoInode THEN name ELSE fd[c]]
      /\ target \in Loader
  <2>1. /\ UNCHANGED <<target, overlap, name, tmp, data, changes, lock, request, tfd, base>>
        /\ pc[c] = "parsed" /\ pc' = [pc EXCEPT ![c] = step]
        /\ target \in Loader
    BY DEF OpenLoaderFile, Step, Exists, fixed, files
  <2>2. fd = [fd EXCEPT ![c] = fd[c]]
    BY DEF LoaderInv, Types
  <2>3. fd' = [fd EXCEPT ![c] = IF name # NoInode THEN name ELSE fd[c]]
    BY <2>2 DEF OpenLoaderFile, Exists
  <2>4. QED
    BY <2>1, <2>3
<1>2. Types'
  BY <1>1 DEF LoaderInv, Types, Working
<1>3. /\ pc'[c] = step /\ (name # NoInode => fd'[c] = name)
      /\ \A d \in Caller : d # c => pc'[d] = pc[d] /\ fd'[d] = fd[d]
  BY <1>1 DEF LoaderInv, Types
<1>4. "parsed" \notin Resting /\ target \notin {"cmdline", "kargs"}
  BY <1>1 DEF Resting, Errors, Loader
<1>5. Steps'
  BY <1>1, <1>3, <1>4 DEF LoaderInv, Steps
<1>6. Names' /\ Whole'
  BY <1>1 DEF LoaderInv, Names, Whole
<1>7. Staged'
  BY <1>1, <1>4 DEF Staged
<1>8. Serial'
  BY <1>1, <1>3, <1>4 DEF LoaderInv, Serial, Working
<1>9. QED
  BY <1>2, <1>5, <1>6, <1>7, <1>8 DEF LoaderInv

LEMMA OpenCmdlineKeeps ==
  ASSUME LoaderInv, NEW c \in Caller, OpenCmdline(c)
  PROVE  LoaderInv'
<1>1. /\ UNCHANGED <<target, overlap, name, tmp, data, changes, lock, request, tfd, base>>
      /\ pc[c] = "read" /\ pc' = [pc EXCEPT ![c] = "opened"]
      /\ fd' = [fd EXCEPT ![c] = name]
      /\ target = "cmdline" /\ name # NoInode
      /\ overlap \/ \A d \in Caller : pc[d] \notin Working
  BY DEF OpenCmdline, Dispatched, Step, Exists, fixed, files
<1>2. Types'
  BY <1>1 DEF LoaderInv, Types, Working
<1>3. /\ pc'[c] = "opened" /\ fd'[c] = name
      /\ \A d \in Caller : d # c => pc'[d] = pc[d] /\ fd'[d] = fd[d]
  BY <1>1 DEF LoaderInv, Types
<1>4. "read" \notin Resting \union Working /\ "cmdline" \notin Loader
  BY DEF Resting, Errors, Working, Loader
<1>5. Steps'
  BY <1>1, <1>3, <1>4 DEF LoaderInv, Steps
<1>6. Names' /\ Whole'
  BY <1>1 DEF LoaderInv, Names, Whole
<1>7. Staged'
  <2>1. data[name] \in Text
    BY <1>1 DEF LoaderInv, Whole
  <2>2. QED
    BY <1>1, <1>3, <2>1 DEF LoaderInv, Staged
<1>8. Serial'
  <2> SUFFICES ASSUME ~overlap
               PROVE  Serial'
    BY <1>1 DEF Serial
  <2>1. \A d \in Caller : d # c => pc'[d] \notin Working
    BY <1>1, <1>3
  <2>2. QED
    BY <1>1, <1>3, <1>4, <2>1 DEF Serial
<1>9. QED
  BY <1>2, <1>5, <1>6, <1>7, <1>8 DEF LoaderInv

LEMMA AcquireLockKeeps ==
  ASSUME LoaderInv, NEW c \in Caller, AcquireLock(c)
  PROVE  LoaderInv'
<1>1. /\ UNCHANGED <<target, overlap, name, tmp, data, changes, request, fd, tfd, base>>
      /\ pc[c] = "opened" /\ pc' = [pc EXCEPT ![c] = "locked"]
      /\ lock' = [lock EXCEPT ![fd[c]] = c]
  BY DEF AcquireLock, Step, fixed, files, locals
<1>2. Types'
  BY <1>1 DEF LoaderInv, Types, Working
<1>3. pc'[c] = "locked" /\ \A d \in Caller : d # c => pc'[d] = pc[d]
  BY <1>1 DEF LoaderInv, Types
<1>4. "opened" \notin Resting /\ "opened" \in Working
  BY DEF Resting, Errors, Working
<1>5. Steps'
  BY <1>1, <1>3, <1>4 DEF LoaderInv, Steps
<1>6. Names' /\ Whole'
  BY <1>1 DEF LoaderInv, Names, Whole
<1>7. Staged'
  BY <1>1, <1>3 DEF LoaderInv, Staged
<1>8. Serial'
  BY <1>1, <1>3, <1>4 DEF LoaderInv, Serial
<1>9. QED
  BY <1>2, <1>5, <1>6, <1>7, <1>8 DEF LoaderInv

LEMMA VerifyEtagKeeps ==
  ASSUME LoaderInv, NEW c \in Caller, VerifyEtag(c)
  PROVE  LoaderInv'
<1> DEFINE text == IF target = "cmdline" THEN data[fd[c]] ELSE base[c]
           file == IF target = "cmdline" THEN fd[c] ELSE NoInode
<1>1. /\ UNCHANGED <<target, overlap, name, tmp, data, changes, request, tfd>>
      /\ pc[c] = "locked" /\ pc' = [pc EXCEPT ![c] = "verified"]
      /\ base' = [base EXCEPT ![c] = text] /\ fd' = [fd EXCEPT ![c] = file]
      /\ lock' \in [Inode -> Caller \union {NoHolder}]
      /\ EtagHolds(c)
  <2>1. base = [base EXCEPT ![c] = base[c]] /\ fd = [fd EXCEPT ![c] = fd[c]]
    BY DEF LoaderInv, Types
  <2>2. "cmdline" \notin Loader
    BY DEF Loader
  <2>3. base' = [base EXCEPT ![c] = text] /\ fd' = [fd EXCEPT ![c] = file]
    BY <2>1, <2>2 DEF VerifyEtag, AfterCompare
  <2>4. lock' \in [Inode -> Caller \union {NoHolder}]
    BY DEF VerifyEtag, AfterCompare, LoaderInv, Types
  <2>5. QED
    BY <2>3, <2>4 DEF VerifyEtag, Step, fixed, files
<1>2. "locked" \notin Resting /\ "locked" \in Working
  BY DEF Resting, Errors, Working
<1>3. fd[c] \in Inode
  BY <1>1 DEF LoaderInv, Types, Steps
<1>4. Types'
  BY <1>1, <1>3 DEF LoaderInv, Types, Working
<1>5. /\ pc'[c] = "verified" /\ base'[c] = text /\ fd'[c] = file
      /\ \A d \in Caller : d # c => pc'[d] = pc[d] /\ base'[d] = base[d] /\ fd'[d] = fd[d]
  BY <1>1 DEF LoaderInv, Types
<1>6. target = "cmdline" => text = request[c].etag /\ text \in Text /\ file = fd[c]
  BY <1>1, <1>3, LoaderAssumption DEF LoaderInv, Staged, EtagHolds, Loader
<1>7. Steps'
  BY <1>1, <1>2, <1>5 DEF LoaderInv, Steps
<1>8. Names' /\ Whole'
  BY <1>1 DEF LoaderInv, Names, Whole
<1>9. Staged'
  BY <1>1, <1>5, <1>6 DEF LoaderInv, Staged
<1>10. Serial'
  <2>1. target \in Loader => text = base[c]
    BY DEF Loader
  <2>2. QED
    BY <1>1, <1>2, <1>5, <2>1 DEF LoaderInv, Serial
<1>11. QED
  BY <1>4, <1>7, <1>8, <1>9, <1>10 DEF LoaderInv

LEMMA KargsReadKeeps ==
  ASSUME LoaderInv, NEW c \in Caller, KargsRead(c)
  PROVE  LoaderInv'
<1>1. /\ UNCHANGED <<target, overlap, name, tmp, data, changes, lock, request, fd, tfd, base>>
      /\ pc[c] = "read" /\ pc' = [pc EXCEPT ![c] = "checked"]
      /\ target = "kargs" /\ data[name] = request[c].etag
      /\ overlap \/ \A d \in Caller : pc[d] \notin Working
  BY DEF KargsRead, Dispatched, Step, fixed, files, locals
<1>2. Types'
  BY <1>1 DEF LoaderInv, Types, Working
<1>3. pc'[c] = "checked" /\ \A d \in Caller : d # c => pc'[d] = pc[d]
  BY <1>1 DEF LoaderInv, Types
<1>4. "read" \notin Resting \union Working /\ "kargs" \notin Loader
  BY DEF Resting, Errors, Working, Loader
<1>5. Steps'
  BY <1>1, <1>3, <1>4 DEF LoaderInv, Steps
<1>6. Names' /\ Whole'
  BY <1>1 DEF LoaderInv, Names, Whole
<1>7. Staged'
  BY <1>1 DEF Staged
<1>8. Serial'
  BY <1>1, <1>3, <1>4 DEF Serial
<1>9. QED
  BY <1>2, <1>5, <1>6, <1>7, <1>8 DEF LoaderInv

LEMMA FreshIsUnused ==
  ASSUME HasFresh
  PROVE  /\ Fresh \in Inode /\ Fresh \notin {name, tmp}
         /\ \A c \in Caller : Fresh \notin {fd[c], tfd[c]}
<1>1. \E i \in Inode : Unused(i)
  BY DEF HasFresh
<1>2. Fresh \in Inode /\ Unused(Fresh)
  BY <1>1 DEF Fresh
<1>3. QED
  BY <1>2 DEF Unused

LEMMA CreateTmpKeeps ==
  ASSUME LoaderInv, NEW c \in Caller, CreateTmp(c)
  PROVE  LoaderInv'
<1>1. PICK i : tfd' = [tfd EXCEPT ![c] = i]
  BY DEF CreateTmp
<1>2. /\ i \in Inode /\ i # name
      /\ IF target = "cmdline" THEN tmp' = tmp ELSE tmp' = i
      /\ target = "cmdline" => \A d \in Caller : i \notin {fd[d], tfd[d]}
  <2>1. tfd'[c] = i
    BY <1>1 DEF LoaderInv, Types
  <2>2. CASE (tmp = NoInode \/ target = "cmdline") /\ HasFresh
             /\ tfd' = [tfd EXCEPT ![c] = Fresh]
             /\ tmp' = IF target = "cmdline" THEN tmp ELSE Fresh
    <3>1. i = Fresh
      BY <2>1, <2>2 DEF LoaderInv, Types
    <3>2. QED
      BY <2>2, <3>1, FreshIsUnused
  <2>3. CASE tmp # NoInode /\ target # "cmdline"
             /\ tfd' = [tfd EXCEPT ![c] = tmp]
             /\ tmp' = tmp
    <3>1. i = tmp
      BY <2>1, <2>3 DEF LoaderInv, Types
    <3>2. QED
      BY <2>3, <3>1 DEF LoaderInv, Types, Names
  <2>4. QED
    BY <2>2, <2>3 DEF CreateTmp
<1>3. /\ UNCHANGED <<target, overlap, name, changes, lock, request, fd, base>>
      /\ pc[c] = "verified" /\ pc' = [pc EXCEPT ![c] = "created"]
      /\ data' = [data EXCEPT ![i] = Empty]
  <2>1. tfd'[c] = i
    BY <1>1 DEF LoaderInv, Types
  <2>2. QED
    BY <2>1 DEF CreateTmp, Step, fixed
<1>4. "verified" \notin Resting /\ "verified" \in Working
  BY DEF Resting, Errors, Working
<1>5. target \in Loader \union {"cmdline"}
  BY <1>3, LoaderAssumption DEF LoaderInv, Types, Steps, Loader
<1>6. Types'
  <2>1. Empty \in Bytes
    BY DEF Bytes
  <2>2. tmp' \in Inode \union {NoInode}
    BY <1>2 DEF LoaderInv, Types
  <2>3. QED
    BY <1>1, <1>2, <1>3, <2>1, <2>2 DEF LoaderInv, Types, Working
<1>7. /\ pc'[c] = "created" /\ tfd'[c] = i /\ data'[i] = Empty
      /\ \A d \in Caller : d # c => pc'[d] = pc[d] /\ tfd'[d] = tfd[d]
      /\ \A j \in Inode : j # i => data'[j] = data[j]
  BY <1>1, <1>2, <1>3 DEF LoaderInv, Types
<1>8. i # NoInode
  BY <1>2, LoaderAssumption
<1>9. Steps'
  BY <1>3, <1>4, <1>7, <1>8 DEF LoaderInv, Steps
<1>10. Names'
  BY <1>2, <1>3, <1>5 DEF LoaderInv, Names, Loader
<1>11. Whole'
  BY <1>2, <1>3, <1>7 DEF LoaderInv, Types, Whole
<1>12. Staged'
  <2> SUFFICES ASSUME target = "cmdline"
               PROVE  Staged'
    BY <1>3 DEF Staged
  <2>1. \A d \in Caller : fd[d] # i /\ tfd[d] # i
    BY <1>2
  <2>2. \A d \in Caller : /\ fd[d] \in Inode \union {NoInode} /\ tfd[d] \in Inode \union {NoInode}
                          /\ fd[d] # NoInode => data'[fd[d]] = data[fd[d]]
                          /\ tfd[d] # NoInode => data'[tfd[d]] = data[tfd[d]]
    BY <1>7, <2>1 DEF LoaderInv, Types
  <2>3. \A d \in Caller : pc[d] \in {"created", "written"} => tfd[d] # NoInode
    BY DEF LoaderInv, Steps
  <2>4. QED
    BY <1>2, <1>3, <1>7, <1>8, <2>1, <2>2, <2>3 DEF LoaderInv, Staged
<1>13. Serial'
  <2> SUFFICES ASSUME ~overlap
               PROVE  Serial'
    BY <1>3 DEF Serial
  <2>1. \A d \in Caller : pc'[d] \in Working => d = c
    BY <1>3, <1>4, <1>7 DEF LoaderInv, Serial
  <2>2. target \in Loader => tmp' = i
    BY <1>2 DEF Loader
  <2>3. target \in Loader => base[c] \in Text /\ (target = "entry" => EntryParses(base[c]))
    BY <1>3, <1>4 DEF LoaderInv, Serial
  <2>4. QED
    BY <1>3, <1>7, <2>1, <2>2, <2>3 DEF Serial
<1>14. QED
  BY <1>6, <1>9, <1>10, <1>11, <1>12, <1>13 DEF LoaderInv

LEMMA WriteTmpKeeps ==
  ASSUME LoaderInv, NEW c \in Caller, WriteTmp(c)
  PROVE  LoaderInv'
<1> DEFINE i == tfd[c]
           text == Transformed(request[c], base[c])
<1>1. PICK left \in {text} \union (IF data[i] = Empty THEN {} ELSE {Torn}) :
        data' = [data EXCEPT ![i] = left]
  BY DEF WriteTmp
<1>2. /\ UNCHANGED <<target, overlap, name, tmp, changes, lock, request, fd, tfd, base>>
      /\ pc[c] = "created" /\ pc' = [pc EXCEPT ![c] = "written"]
  BY DEF WriteTmp, Step, fixed, locals
<1>3. "created" \notin Resting /\ "created" \in Working
  BY DEF Resting, Errors, Working
<1>4. i \in Inode /\ i # NoInode
  BY <1>2, LoaderAssumption DEF LoaderInv, Types, Steps
<1>5. text \in Bytes
  <2>1. Fits(target, request[c]) /\ base[c] \in Bytes
    BY <1>2, <1>3 DEF LoaderInv, Types, Steps
  <2>2. QED
    BY <2>1, TransformedIsBytes
<1>6. left \in Bytes /\ (data[i] = Empty => left = text)
  BY <1>1, <1>5 DEF Bytes
<1> HIDE DEF text
<1>7. /\ pc'[c] = "written" /\ data'[i] = left
      /\ \A d \in Caller : d # c => pc'[d] = pc[d]
      /\ \A j \in Inode : j # i => data'[j] = data[j]
  BY <1>1, <1>2, <1>4 DEF LoaderInv, Types
<1>8. Types'
  BY <1>1, <1>2, <1>4, <1>6 DEF LoaderInv, Types, Working
<1>9. Steps'
  BY <1>2, <1>3, <1>7 DEF LoaderInv, Steps
<1>10. Names'
  BY <1>2 DEF LoaderInv, Names
<1>11. i # name \/ (overlap /\ target # "cmdline")
  <2>1. target = "cmdline" => i # name
    BY <1>4 DEF LoaderInv, Staged
  <2>2. target \in Loader /\ ~overlap => i = tmp /\ i # name
    BY <1>2, <1>3, <1>4 DEF LoaderInv, Serial, Names
  <2>3. target \in Loader \union {"cmdline"}
    BY <1>2, LoaderAssumption DEF LoaderInv, Types, Steps, Loader
  <2>4. QED
    BY <2>1, <2>2, <2>3 DEF Loader
<1>12. target # "kargs"
  BY <1>2 DEF LoaderInv, Steps
<1>13. Whole'
  BY <1>2, <1>7, <1>11, <1>12 DEF LoaderInv, Types, Whole
<1>14. Staged'
  <2> SUFFICES ASSUME target = "cmdline"
               PROVE  Staged'
    BY <1>2 DEF Staged
  <2>1. data[i] = Empty
    BY <1>2 DEF LoaderInv, Staged
  <2>2. data'[i] = Transformed(request[c], base[c])
    BY <1>6, <1>7, <2>1 DEF text
  <2>3. ASSUME NEW d \in Caller
        PROVE  /\ fd[d] # NoInode => data'[fd[d]] = data[fd[d]]
               /\ d # c /\ tfd[d] # NoInode => data'[tfd[d]] = data[tfd[d]]
               /\ pc[d] \in {"created", "written"} => tfd[d] # NoInode
    <3>1. fd[d] # i /\ (tfd[d] = i => d = c)
      BY <1>4 DEF LoaderInv, Staged
    <3>2. QED
      BY <1>7, <3>1 DEF LoaderInv, Types, Steps
  <2>4. QED
    BY <1>2, <1>7, <2>2, <2>3 DEF LoaderInv, Staged
<1>15. Serial'
  <2> SUFFICES ASSUME ~overlap
               PROVE  Serial'
    BY <1>2 DEF Serial
  <2>1. \A d \in Caller : pc'[d] \in Working => d = c
    BY <1>2, <1>3, <1>7 DEF LoaderInv, Serial
  <2>2. target \in Loader =>
          /\ base[c] \in Text /\ (target = "entry" => EntryParses(base[c]))
          /\ i = tmp /\ data[tmp] = Empty
    BY <1>2, <1>3 DEF LoaderInv, Serial
  <2>3. target \in Loader => data'[tmp] = Transformed(request[c], base[c])
    BY <1>6, <1>7, <2>2 DEF text
  <2> HIDE DEF i
  <2>4. target \in Loader => tfd[c] = tmp
    BY <2>2 DEF i
  <2>5. QED
    BY <1>2, <1>7, <2>1, <2>2, <2>3, <2>4 DEF Serial
<1>16. QED
  BY <1>8, <1>9, <1>10, <1>13, <1>14, <1>15 DEF LoaderInv

LEMMA RenameTmpKeeps ==
  ASSUME LoaderInv, NEW c \in Caller, RenameTmp(c)
  PROVE  LoaderInv'
<1>1. /\ UNCHANGED <<target, overlap, data>> /\ changes' = changes + 1
      /\ pc[c] = "written"
      /\ IF target = "cmdline" THEN name' = tfd[c] /\ tmp' = tmp
         ELSE tmp # NoInode /\ name' = tmp /\ tmp' = NoInode
      /\ pc' = [pc EXCEPT ![c] = "ok"]
      /\ lock' = [i \in Inode |-> IF lock[i] = c THEN NoHolder ELSE lock[i]]
      /\ request' = [request EXCEPT ![c] = NoRequest]
      /\ fd' = [fd EXCEPT ![c] = NoInode]
      /\ tfd' = [tfd EXCEPT ![c] = NoInode]
      /\ base' = [base EXCEPT ![c] = Empty]
  BY DEF RenameTmp, Return, fixed
<1>2. /\ "ok" \in Resting /\ "ok" \notin Working \union {"read"}
      /\ "written" \notin Resting /\ "written" \in Working
  BY DEF Resting, Errors, Working
<1>3. tfd[c] \in Inode /\ tfd[c] # NoInode /\ target \in Loader \union {"cmdline"}
  BY <1>1, LoaderAssumption DEF LoaderInv, Types, Steps, Loader
<1>4. Types'
  <2>1. Empty \in Bytes
    BY DEF Bytes
  <2>2. QED
    BY <1>1, <1>2, <1>3, <2>1 DEF LoaderInv, Types
<1>5. /\ pc'[c] = "ok" /\ fd'[c] = NoInode /\ tfd'[c] = NoInode
      /\ \A d \in Caller : d # c => /\ pc'[d] = pc[d] /\ request'[d] = request[d] /\ fd'[d] = fd[d]
                                    /\ tfd'[d] = tfd[d] /\ base'[d] = base[d]
  BY <1>1 DEF LoaderInv, Types
<1>6. Steps'
  BY <1>1, <1>2, <1>5 DEF LoaderInv, Steps, Working
<1>7. Names'
  BY <1>1, <1>3 DEF LoaderInv, Names, Loader
<1>8. ASSUME target = "cmdline" \/ ~overlap
      PROVE  data[name'] = Transformed(request[c], base[c]) /\ data[name'] \in Text
  <2>1. Fits(target, request[c])
    BY <1>1, <1>2 DEF LoaderInv, Steps
  <2>2. CASE target = "cmdline"
    <3>1. data[tfd[c]] = Transformed(request[c], base[c]) /\ base[c] \in Text
      BY <1>1, <2>2 DEF LoaderInv, Staged
    <3>2. QED
      BY <1>1, <2>1, <2>2, <3>1, TransformedIsExact
  <2>3. CASE target # "cmdline"
    <3>1. data[tmp] = Transformed(request[c], base[c]) /\ base[c] \in Text
      BY <1>1, <1>2, <1>3, <1>8, <2>3 DEF LoaderInv, Serial
    <3>2. QED
      BY <1>1, <2>1, <2>3, <3>1, TransformedIsExact
  <2>4. QED
    BY <2>2, <2>3
<1>9. Whole'
  BY <1>1, <1>3, <1>8 DEF Whole, Loader
<1>10. Staged'
  BY <1>1, <1>2, <1>3, <1>5 DEF LoaderInv, Staged
<1>11. Serial'
  BY <1>1, <1>2, <1>5 DEF LoaderInv, Serial
<1>12. QED
  BY <1>4, <1>6, <1>7, <1>9, <1>10, <1>11 DEF LoaderInv

LEMMA WriteFailsKeeps ==
  ASSUME LoaderInv, NEW c \in Caller, WriteFails(c)
  PROVE  LoaderInv'
<1> DEFINE i == tfd[c]
<1>1. /\ UNCHANGED <<target, overlap, name, tmp, changes>>
      /\ pc[c] = "created"
      /\ data' = [data EXCEPT ![i] = Torn]
      /\ pc' = [pc EXCEPT ![c] = "EspScanFailed"]
      /\ lock' = [j \in Inode |-> IF lock[j] = c THEN NoHolder ELSE lock[j]]
      /\ request' = [request EXCEPT ![c] = NoRequest]
      /\ fd' = [fd EXCEPT ![c] = NoInode]
      /\ tfd' = [tfd EXCEPT ![c] = NoInode]
      /\ base' = [base EXCEPT ![c] = Empty]
  BY DEF WriteFails, Return, fixed
<1>2. /\ "EspScanFailed" \in Resting /\ "EspScanFailed" \notin Working \union {"read"}
      /\ "created" \notin Resting /\ "created" \in Working
  BY DEF Resting, Errors, Working
<1>3. i \in Inode /\ i # NoInode /\ target \in Loader \union {"cmdline"}
  BY <1>1, LoaderAssumption DEF LoaderInv, Types, Steps, Loader
<1>4. Types'
  <2>1. Empty \in Bytes /\ Torn \in Bytes
    BY DEF Bytes
  <2>2. QED
    BY <1>1, <1>2, <1>3, <2>1 DEF LoaderInv, Types
<1>5. /\ pc'[c] = "EspScanFailed" /\ fd'[c] = NoInode /\ tfd'[c] = NoInode
      /\ \A d \in Caller : d # c => /\ pc'[d] = pc[d] /\ request'[d] = request[d] /\ fd'[d] = fd[d]
                                    /\ tfd'[d] = tfd[d] /\ base'[d] = base[d]
      /\ \A j \in Inode : j # i => data'[j] = data[j]
  BY <1>1, <1>3 DEF LoaderInv, Types
<1>6. Steps'
  BY <1>1, <1>2, <1>5 DEF LoaderInv, Steps, Working
<1>7. Names'
  BY <1>1 DEF LoaderInv, Names
<1>8. i # name \/ (overlap /\ target # "cmdline")
  <2>1. target = "cmdline" => i # name
    BY <1>3 DEF LoaderInv, Staged
  <2>2. target \in Loader /\ ~overlap => i = tmp /\ i # name
    BY <1>1, <1>2, <1>3 DEF LoaderInv, Serial, Names
  <2>3. QED
    BY <1>3, <2>1, <2>2 DEF Loader
<1>9. Whole'
  BY <1>1, <1>3, <1>5, <1>8 DEF LoaderInv, Types, Whole, Loader
<1>10. Staged'
  <2> SUFFICES ASSUME target = "cmdline"
               PROVE  Staged'
    BY <1>1 DEF Staged
  <2>1. ASSUME NEW d \in Caller, d # c
        PROVE  /\ fd[d] # NoInode => data'[fd[d]] = data[fd[d]]
               /\ tfd[d] # NoInode => data'[tfd[d]] = data[tfd[d]]
               /\ pc[d] \in {"created", "written"} => tfd[d] # NoInode
    <3>1. fd[d] # i /\ tfd[d] # i
      BY <1>3, <2>1 DEF LoaderInv, Staged
    <3>2. QED
      BY <1>5, <3>1 DEF LoaderInv, Types, Steps
  <2>2. QED
    BY <1>1, <1>2, <1>5, <2>1 DEF LoaderInv, Staged
<1>11. Serial'
  BY <1>1, <1>2, <1>5 DEF LoaderInv, Serial
<1>12. QED
  BY <1>4, <1>6, <1>7, <1>9, <1>10, <1>11 DEF LoaderInv

LEMMA KargsApplyKeeps ==
  ASSUME LoaderInv, NEW c \in Caller, KargsApply(c)
  PROVE  LoaderInv'
<1> DEFINE now == data[name]
           p == request[c].arg
<1>1. PICK then :
        /\ data' = [data EXCEPT ![name] = then]
        /\ \/ request[c].op = "add" /\ then \in {Append(now, Line("param", p)), AddParam(now, p)}
           \/ request[c].op = "remove" /\ then = RemoveParam(now, p)
  BY DEF KargsApply
<1>2. /\ UNCHANGED <<target, overlap, name, tmp, changes>>
      /\ pc[c] = "checked"
      /\ pc' = [pc EXCEPT ![c] = "ok"]
      /\ lock' = [i \in Inode |-> IF lock[i] = c THEN NoHolder ELSE lock[i]]
      /\ request' = [request EXCEPT ![c] = NoRequest]
      /\ fd' = [fd EXCEPT ![c] = NoInode]
      /\ tfd' = [tfd EXCEPT ![c] = NoInode]
      /\ base' = [base EXCEPT ![c] = Empty]
  BY DEF KargsApply, Return, fixed
<1>3. /\ "ok" \in Resting /\ "ok" \notin Working \union {"read"}
      /\ "checked" \notin Resting /\ "checked" \in Working
  BY DEF Resting, Errors, Working
<1>4. target = "kargs" /\ name \in Inode /\ name # NoInode
  BY <1>2 DEF LoaderInv, Types, Steps, Names
<1>5. then \in Text
  <2>1. now \in Text
    BY <1>4 DEF LoaderInv, Whole
  <2>2. p \in STRING
    BY <1>2, <1>3 DEF LoaderInv, Steps, Fits, Request
  <2> HIDE DEF now, p
  <2>3. /\ AddParam(now, p) \in Text /\ HasParam(AddParam(now, p), p)
        /\ Others(AddParam(now, p), p) = Others(now, p)
        /\ Append(now, Line("param", p)) \in Text /\ HasParam(Append(now, Line("param", p)), p)
        /\ Others(Append(now, Line("param", p)), p) = Others(now, p)
        /\ RemoveParam(now, p) \in Text /\ ~HasParam(RemoveParam(now, p), p)
        /\ Others(RemoveParam(now, p), p) = Others(now, p)
    BY <2>1, <2>2, ParamsAreExact
  <2>4. QED
    BY <1>1, <2>3 DEF now, p
<1>6. Types'
  <2>1. Empty \in Bytes /\ then \in Bytes
    BY <1>5 DEF Bytes
  <2>2. QED
    BY <1>1, <1>2, <1>3, <1>4, <2>1 DEF LoaderInv, Types
<1>7. /\ pc'[c] = "ok" /\ fd'[c] = NoInode /\ tfd'[c] = NoInode
      /\ \A d \in Caller : d # c => /\ pc'[d] = pc[d] /\ request'[d] = request[d] /\ fd'[d] = fd[d]
                                    /\ tfd'[d] = tfd[d] /\ base'[d] = base[d]
      /\ data'[name] = then
  BY <1>1, <1>2, <1>4 DEF LoaderInv, Types
<1>8. Steps'
  BY <1>2, <1>3, <1>7 DEF LoaderInv, Steps, Working
<1>9. Names' /\ Whole'
  BY <1>2, <1>5, <1>7 DEF LoaderInv, Names, Whole
<1>10. Staged'
  BY <1>2, <1>4 DEF Staged
<1>11. Serial'
  BY <1>2, <1>3, <1>7 DEF LoaderInv, Serial
<1>12. QED
  BY <1>6, <1>8, <1>9, <1>10, <1>11 DEF LoaderInv

LEMMA PackageReplaceKeeps ==
  ASSUME LoaderInv, PackageReplace
  PROVE  LoaderInv'
<1>1. PICK text \in Edit[target] : data' = [data EXCEPT ![Fresh] = text]
  BY DEF PackageReplace
<1>2. PICK i : i = Fresh
  OBVIOUS
<1>3. /\ UNCHANGED <<target, overlap, tmp, lock, pc, request, fd, tfd, base>>
      /\ name' = i /\ changes' = changes + 1
      /\ i \in Inode /\ i \notin {name, tmp}
      /\ \A c \in Caller : i \notin {fd[c], tfd[c]}
  BY <1>2, FreshIsUnused DEF PackageReplace, fixed, locals
<1>4. text \in Text /\ i # NoInode
  BY <1>1, <1>3, LoaderAssumption DEF LoaderInv, Types
<1>5. /\ data'[i] = text /\ data' = [data EXCEPT ![i] = text]
      /\ \A j \in Inode : j # i => data'[j] = data[j]
  BY <1>1, <1>2, <1>3 DEF LoaderInv, Types
<1>6. Types'
  <2>1. text \in Bytes
    BY <1>4 DEF Bytes
  <2>2. QED
    BY <1>3, <1>5, <2>1 DEF LoaderInv, Types
<1>7. Steps'
  BY <1>3 DEF LoaderInv, Steps
<1>8. Names' /\ Whole'
  BY <1>3, <1>4, <1>5 DEF LoaderInv, Names, Whole
<1>9. Staged'
  <2> SUFFICES ASSUME target = "cmdline"
               PROVE  Staged'
    BY <1>3 DEF Staged
  <2>1. \A d \in Caller : /\ fd[d] # NoInode => data'[fd[d]] = data[fd[d]]
                          /\ tfd[d] # NoInode => data'[tfd[d]] = data[tfd[d]]
                          /\ pc[d] \in {"created", "written"} => tfd[d] # NoInode
    BY <1>3, <1>5 DEF LoaderInv, Types, Steps
  <2>2. QED
    BY <1>3, <2>1 DEF LoaderInv, Staged
<1>10. Serial'
  <2>1. tmp \in Inode => data'[tmp] = data[tmp]
    BY <1>3, <1>5
  <2>2. \A c \in Caller : pc[c] \in {"created", "written"} => tfd[c] \in Inode
    BY DEF LoaderInv, Types, Steps
  <2>3. QED
    BY <1>3, <2>1, <2>2 DEF LoaderInv, Serial
<1>11. QED
  BY <1>6, <1>7, <1>8, <1>9, <1>10 DEF LoaderInv

LEMMA PackageRemoveKeeps ==
  ASSUME LoaderInv, PackageRemove
  PROVE  LoaderInv'
<1>1. /\ UNCHANGED <<target, overlap, tmp, data, lock, pc, request, fd, tfd, base>>
      /\ name' = NoInode /\ target # "kargs" /\ changes' = changes + 1
  BY DEF PackageRemove, fixed, locals
<1>2. Types' /\ Steps' /\ Names' /\ Whole'
  BY <1>1 DEF LoaderInv, Types, Steps, Names, Whole
<1>3. Staged' /\ Serial'
  BY <1>1 DEF LoaderInv, Staged, Serial
<1>4. QED
  BY <1>2, <1>3 DEF LoaderInv

LEMMA CrashKeeps ==
  ASSUME LoaderInv, Crash
  PROVE  LoaderInv'
<1>1. /\ UNCHANGED <<target, overlap, name, tmp, data, changes>>
      /\ pc' = [c \in Caller |-> IF pc[c] \in Working THEN "idle" ELSE pc[c]]
      /\ request' = [c \in Caller |-> IF pc[c] \in Working THEN NoRequest ELSE request[c]]
      /\ lock' = [i \in Inode |-> NoHolder]
      /\ fd' = [c \in Caller |-> NoInode]
      /\ tfd' = [c \in Caller |-> NoInode]
      /\ base' = [c \in Caller |-> Empty]
  BY DEF Crash, fixed, files
<1>2. "idle" \in Resting /\ "idle" \notin Working
  BY DEF Resting, Errors, Working
<1>3. \A c \in Caller : /\ pc'[c] \notin Working
                        /\ fd'[c] = NoInode /\ tfd'[c] = NoInode
                        /\ pc'[c] \notin Resting => pc'[c] = pc[c] /\ request'[c] = request[c]
  BY <1>1, <1>2
<1>4. Types'
  <2>1. Empty \in Bytes
    BY DEF Bytes
  <2>2. QED
    BY <1>1, <1>2, <2>1 DEF LoaderInv, Types
<1>5. Steps'
  BY <1>1, <1>3 DEF LoaderInv, Steps, Working
<1>6. Names' /\ Whole'
  BY <1>1 DEF LoaderInv, Names, Whole
<1>7. Staged'
  BY <1>3 DEF Staged, Working
<1>8. Serial'
  BY <1>3 DEF Serial
<1>9. QED
  BY <1>4, <1>5, <1>6, <1>7, <1>8 DEF LoaderInv

LEMMA LoaderInit ==
  ASSUME Init
  PROVE  LoaderInv
<1>1. /\ target \in Targets /\ overlap \in BOOLEAN
      /\ tmp = NoInode
      /\ lock = [i \in Inode |-> NoHolder]
      /\ pc = [c \in Caller |-> "idle"]
      /\ request = [c \in Caller |-> NoRequest]
      /\ fd = [c \in Caller |-> NoInode]
      /\ tfd = [c \in Caller |-> NoInode]
      /\ base = [c \in Caller |-> Empty]
      /\ changes = 0
  BY DEF Init
<1>2. "idle" \in Resting /\ "idle" \notin Working \union {"read"}
  BY DEF Resting, Errors, Working
<1>3. Empty \in Bytes
  BY DEF Bytes
<1>4. /\ name \in Inode \union {NoInode} /\ data \in [Inode -> Bytes]
      /\ name # NoInode => data[name] \in Text
      /\ target = "kargs" => name # NoInode
  <2>1. CASE /\ name \in Inode
             /\ \E text \in Installed[target] :
                  data = [i \in Inode |-> IF i = name THEN text ELSE Empty]
    <3>1. PICK text \in Installed[target] : data = [i \in Inode |-> IF i = name THEN text ELSE Empty]
      BY <2>1
    <3>2. text \in Text /\ text \in Bytes /\ name # NoInode
      BY <1>1, <2>1, <3>1, LoaderAssumption DEF Bytes
    <3>3. QED
      BY <1>3, <2>1, <3>1, <3>2
  <2>2. CASE target = "loader.conf" /\ name = NoInode /\ data = [i \in Inode |-> Empty]
    BY <1>3, <2>2
  <2>3. QED
    BY <2>1, <2>2 DEF Init
<1>5. Types
  BY <1>1, <1>2, <1>3, <1>4 DEF Types
<1>6. Steps
  BY <1>1, <1>2 DEF Steps, Resting, Errors
<1>7. Names /\ Whole
  BY <1>1, <1>4 DEF Names, Whole
<1>8. Staged
  BY <1>1 DEF Staged
<1>9. Serial
  BY <1>1, <1>2 DEF Serial
<1>10. QED
  BY <1>5, <1>6, <1>7, <1>8, <1>9 DEF LoaderInv

\* The calls that end with the files as they were.
LEMMA RefusalsLeave ==
  ASSUME NEW c \in Caller,
         \/ RefuseEntry(c) \/ RefuseParam(c) \/ NoCmdline(c) \/ ParamMissing(c) \/ LockBusy(c)
         \/ StaleEtag(c) \/ TmpGone(c) \/ StepFails(c) \/ KargsStale(c) \/ KargsMissing(c)
  PROVE  Leaves(c)
<1>1. CASE RefuseEntry(c)
  BY <1>1 DEF RefuseEntry, Leaves, Errors
<1>2. CASE RefuseParam(c)
  BY <1>2 DEF RefuseParam, Leaves, Errors
<1>3. CASE NoCmdline(c)
  BY <1>3 DEF NoCmdline, Leaves, Errors
<1>4. CASE ParamMissing(c)
  BY <1>4 DEF ParamMissing, Refuse, Leaves, Errors
<1>5. CASE LockBusy(c)
  BY <1>5 DEF LockBusy, Refuse, Leaves, Errors
<1>6. CASE StaleEtag(c)
  BY <1>6 DEF StaleEtag, Refuse, Leaves, Errors
<1>7. CASE TmpGone(c)
  BY <1>7 DEF TmpGone, Refuse, Leaves, Errors
<1>8. CASE StepFails(c)
  BY <1>8 DEF StepFails, Refuse, Leaves, Errors
<1>9. CASE KargsStale(c)
  BY <1>9 DEF KargsStale, Leaves, Errors
<1>10. CASE KargsMissing(c)
  BY <1>10 DEF KargsMissing, Refuse, Leaves, Errors
<1>11. QED
  BY <1>1, <1>2, <1>3, <1>4, <1>5, <1>6, <1>7, <1>8, <1>9, <1>10

LEMMA LoaderStep ==
  ASSUME LoaderInv, Next
  PROVE  LoaderInv'
<1>1. ASSUME NEW c \in Caller,
             \/ RefuseEntry(c) \/ RefuseParam(c) \/ NoCmdline(c) \/ ParamMissing(c) \/ LockBusy(c)
             \/ StaleEtag(c) \/ TmpGone(c) \/ StepFails(c) \/ KargsStale(c) \/ KargsMissing(c)
      PROVE  LoaderInv'
  BY <1>1, RefusalsLeave, LeavingKeeps
<1>2. ASSUME NEW c \in Caller,
             \/ ReadTarget(c) \/ ReadLoaderText(c) \/ OpenLoaderFile(c) \/ OpenCmdline(c)
             \/ AcquireLock(c) \/ VerifyEtag(c) \/ CreateTmp(c) \/ WriteTmp(c) \/ RenameTmp(c)
             \/ WriteFails(c) \/ KargsRead(c) \/ KargsApply(c)
      PROVE  LoaderInv'
  BY <1>2, ReadTargetKeeps, ReadLoaderTextKeeps, OpenLoaderFileKeeps, OpenCmdlineKeeps,
     AcquireLockKeeps, VerifyEtagKeeps, CreateTmpKeeps, WriteTmpKeeps, RenameTmpKeeps,
     WriteFailsKeeps, KargsReadKeeps, KargsApplyKeeps
<1>3. CASE PackageReplace \/ PackageRemove \/ Crash
  BY <1>3, PackageReplaceKeeps, PackageRemoveKeeps, CrashKeeps
<1>4. QED
  BY <1>1, <1>2, <1>3 DEF Next, Progress

LEMMA LoaderInvariant == Spec => []LoaderInv
<1>1. Init => LoaderInv
  BY LoaderInit
<1>2. LoaderInv /\ UNCHANGED vars => LoaderInv'
  BY DEF vars, LoaderInv, Types, Steps, Names, Whole, Staged, Serial
<1>3. LoaderInv /\ [Next]_vars => LoaderInv'
  BY <1>2, LoaderStep
<1>4. QED
  BY <1>1, <1>3, PTL DEF Spec

-----------------------------------------------------------------------------
(* The theorems                                                            *)

\* However calls overlap, fail or die, the live command line is whole, and a
\* loader file is as long as calls come one at a time: for every set of callers
\* and files.
THEOREM LiveStaysWhole == Spec => []LiveIsWhole
<1>1. LoaderInv => LiveIsWhole
  BY LoaderAssumption DEF LoaderInv, Whole, LiveIsWhole, Exists, IsText
<1>2. QED
  BY <1>1, LoaderInvariant, PTL

\* A caller's step is of its own call only, and only two end a call well.
LEMMA OwnStep ==
  ASSUME LoaderInv, NEW c \in Caller,
         \/ ReadTarget(c) \/ ReadLoaderText(c) \/ RefuseEntry(c)
         \/ RefuseParam(c) \/ OpenCmdline(c) \/ NoCmdline(c)
         \/ KargsRead(c) \/ KargsStale(c)
         \/ Progress(c) \/ WriteFails(c) \/ StepFails(c)
  PROVE  /\ \A d \in Caller : d # c => pc'[d] = pc[d]
         /\ pc'[c] = "ok" => RenameTmp(c) \/ KargsApply(c)
<1>0. c \in DOMAIN pc /\ DOMAIN pc = Caller
  BY DEF LoaderInv, Types
<1>1. CASE \/ RefuseEntry(c) \/ RefuseParam(c) \/ NoCmdline(c) \/ ParamMissing(c) \/ LockBusy(c)
           \/ StaleEtag(c) \/ TmpGone(c) \/ StepFails(c) \/ KargsStale(c) \/ KargsMissing(c)
  <2>1. Leaves(c)
    BY <1>1, RefusalsLeave
  <2>2. PICK reply \in Errors : Return(c, reply)
    BY <2>1 DEF Leaves
  <2>3. reply # "ok"
    BY DEF Errors
  <2>4. QED
    BY <1>0, <2>2, <2>3 DEF Return
<1>2. CASE ReadTarget(c)
  BY <1>0, <1>2 DEF ReadTarget
<1>3. CASE ReadLoaderText(c)
  BY <1>0, <1>3 DEF ReadLoaderText, Step
<1>4. CASE OpenCmdline(c)
  BY <1>0, <1>4 DEF OpenCmdline, Step
<1>5. CASE KargsRead(c)
  BY <1>0, <1>5 DEF KargsRead, Step
<1>6. CASE OpenLoaderFile(c)
  BY <1>0, <1>6 DEF OpenLoaderFile, Step
<1>7. CASE AcquireLock(c)
  BY <1>0, <1>7 DEF AcquireLock, Step
<1>8. CASE VerifyEtag(c)
  BY <1>0, <1>8 DEF VerifyEtag, Step
<1>9. CASE CreateTmp(c)
  BY <1>0, <1>9 DEF CreateTmp, Step
<1>10. CASE WriteTmp(c)
  BY <1>0, <1>10 DEF WriteTmp, Step
<1>11. CASE WriteFails(c)
  BY <1>0, <1>11 DEF WriteFails, Return
<1>12. CASE RenameTmp(c)
  BY <1>0, <1>12 DEF RenameTmp, Return
<1>13. CASE KargsApply(c)
  BY <1>0, <1>13 DEF KargsApply, Return
<1>14. QED
  BY <1>1, <1>2, <1>3, <1>4, <1>5, <1>6, <1>7, <1>8, <1>9, <1>10, <1>11, <1>12, <1>13
     DEF Progress

LEMMA WellEnded ==
  ASSUME LoaderInv, Next, NEW c \in Caller, pc[c] \in Working, pc'[c] = "ok"
  PROVE  RenameTmp(c) \/ KargsApply(c)
<1>1. "ok" \notin Working /\ "ok" # "idle"
  BY DEF Working
<1>2. pc'[c] # pc[c]
  BY <1>1
<1>3. ASSUME NEW d \in Caller,
             \/ ReadTarget(d) \/ ReadLoaderText(d) \/ RefuseEntry(d)
             \/ RefuseParam(d) \/ OpenCmdline(d) \/ NoCmdline(d)
             \/ KargsRead(d) \/ KargsStale(d)
             \/ Progress(d) \/ WriteFails(d) \/ StepFails(d)
      PROVE  RenameTmp(c) \/ KargsApply(c)
  <2>1. /\ \A e \in Caller : e # d => pc'[e] = pc[e]
        /\ pc'[d] = "ok" => RenameTmp(d) \/ KargsApply(d)
    BY <1>3, OwnStep
  <2>2. d = c
    BY <1>2, <2>1
  <2>3. QED
    BY <2>1, <2>2
<1>4. ASSUME PackageReplace \/ PackageRemove
      PROVE  FALSE
  BY <1>2, <1>4 DEF PackageReplace, PackageRemove
<1>5. ASSUME Crash
      PROVE  FALSE
  BY <1>1, <1>5 DEF Crash
<1>6. QED
  BY <1>3, <1>4, <1>5 DEF Next

\* However calls overlap: what a call that succeeds leaves in the command line is
\* its own edit of the bytes whose ETag it presented; of rpm-ostree's arguments
\* it changes none but its own.
THEOREM SuccessWasOwn == Spec => SuccessIsOwn
<1> DEFINE Own(c) ==
             Finishes(c) =>
               /\ target = "cmdline" => Intended(request[c], request[c].etag, data'[name'])
               /\ target = "kargs" =>
                    Others(data'[name'], request[c].arg) = Others(data[name], request[c].arg)
           A == \A c \in Caller : Own(c)
<1>1. ASSUME LoaderInv, Next, NEW c \in Caller
      PROVE  Own(c)
  <2> SUFFICES ASSUME pc[c] \in Working, pc'[c] = "ok"
               PROVE  /\ target = "cmdline" => Intended(request[c], request[c].etag, data'[name'])
                      /\ target = "kargs" =>
                           Others(data'[name'], request[c].arg) = Others(data[name], request[c].arg)
    BY DEF Finishes
  <2>1. pc[c] \notin Resting
    BY DEF Working, Resting, Errors
  <2>2. Fits(target, request[c])
    BY <1>1, <2>1 DEF LoaderInv, Steps
  <2>3. CASE RenameTmp(c)
    <3>1. pc[c] = "written" /\ data' = data /\ (target = "cmdline" => name' = tfd[c])
      BY <2>3 DEF RenameTmp
    <3>2. target # "kargs"
      BY <1>1, <3>1 DEF LoaderInv, Steps
    <3>3. ASSUME target = "cmdline"
          PROVE  Intended(request[c], request[c].etag, data'[name'])
      <4>1. /\ data[tfd[c]] = Transformed(request[c], base[c])
            /\ base[c] = request[c].etag /\ base[c] \in Text
        BY <1>1, <3>1, <3>3 DEF LoaderInv, Staged
      <4>2. data'[name'] = Transformed(request[c], base[c])
        BY <3>1, <3>3, <4>1
      <4>3. Intended(request[c], base[c], Transformed(request[c], base[c]))
        BY <2>2, <3>3, <4>1, TransformedIsExact
      <4>4. QED
        BY <4>1, <4>2, <4>3
    <3>4. QED
      BY <3>2, <3>3
  <2>4. CASE KargsApply(c)
    <3>1. pc[c] = "checked" /\ name' = name
      BY <2>4 DEF KargsApply
    <3>2. target = "kargs" /\ name \in Inode /\ data[name] \in Text
      BY <1>1, <3>1 DEF LoaderInv, Types, Steps, Names, Whole
    <3> DEFINE now == data[name]
               p == request[c].arg
    <3>3. PICK then :
            /\ data' = [data EXCEPT ![name] = then]
            /\ \/ request[c].op = "add" /\ then \in {Append(now, Line("param", p)), AddParam(now, p)}
               \/ request[c].op = "remove" /\ then = RemoveParam(now, p)
      BY <2>4 DEF KargsApply
    <3>4. data'[name'] = then
      BY <1>1, <3>1, <3>2, <3>3 DEF LoaderInv, Types
    <3>5. p \in STRING
      BY <2>2 DEF Fits, Request
    <3>6. Others(then, p) = Others(now, p)
      <4> HIDE DEF now, p
      <4>1. /\ AddParam(now, p) \in Text /\ HasParam(AddParam(now, p), p)
            /\ Others(AddParam(now, p), p) = Others(now, p)
            /\ Append(now, Line("param", p)) \in Text /\ HasParam(Append(now, Line("param", p)), p)
            /\ Others(Append(now, Line("param", p)), p) = Others(now, p)
            /\ RemoveParam(now, p) \in Text /\ ~HasParam(RemoveParam(now, p), p)
            /\ Others(RemoveParam(now, p), p) = Others(now, p)
        <5>1. now \in Text
          BY <3>2 DEF now
        <5>2. QED
          BY <3>5, <5>1, ParamsAreExact
      <4>2. QED
        BY <3>3, <4>1
    <3>7. QED
      BY <3>2, <3>4, <3>6
  <2>5. QED
    BY <1>1, <2>3, <2>4, WellEnded
<1>2. ASSUME LoaderInv, Next
      PROVE  A
  BY <1>1, <1>2
<1>3. LoaderInv /\ [Next]_vars => [A]_vars
  BY <1>2
<1>4. QED
  BY <1>3, LoaderInvariant, PTL DEF Spec, SuccessIsOwn

-----------------------------------------------------------------------------
(* The text a call edits, and the one its client read                      *)

\* Nothing has taken the path since the client read the file of its ETag, or one change has
\* and the call edits the client's text all the same, edits the text it has still to
\* compare with the ETag, or will find no file to open.
Follows(c) ==
  LET r == request[c] IN
    /\ r.seen <= changes
    /\ changes = r.seen => name # NoInode /\ data[name] = r.etag
    /\ pc[c] \in Working /\ changes <= r.seen + 1 =>
         \/ base[c] = r.etag
         \/ changes = r.seen + 1 /\ name = NoInode
         \/ /\ changes = r.seen + 1 /\ name # NoInode /\ base[c] = data[name]
            /\ \/ pc[c] = "parsed"
               \/ pc[c] \in {"opened", "locked"} /\ fd[c] = name

Followed ==
  ~overlap /\ target \in Loader =>
    \A c \in Caller : pc[c] \notin Resting /\ request[c].etag # NoEtag => Follows(c)

\* With calls one at a time the bytes of a loader file stay until another takes its path.
LEMMA PathStep ==
  ASSUME LoaderInv, Next, ~overlap, target \in Loader
  PROVE  \/ changes' = changes /\ name' = name /\ (name # NoInode => data'[name] = data[name])
         \/ changes' = changes + 1
<1>1. ASSUME NEW c \in Caller,
             \/ RefuseEntry(c) \/ RefuseParam(c) \/ NoCmdline(c) \/ ParamMissing(c) \/ LockBusy(c)
             \/ StaleEtag(c) \/ TmpGone(c) \/ StepFails(c) \/ KargsStale(c) \/ KargsMissing(c)
      PROVE  changes' = changes /\ name' = name /\ data' = data
  BY <1>1, RefusalsLeave DEF Leaves, files
<1>2. ASSUME NEW c \in Caller,
             \/ ReadTarget(c) \/ ReadLoaderText(c) \/ OpenLoaderFile(c) \/ OpenCmdline(c)
             \/ AcquireLock(c) \/ VerifyEtag(c) \/ KargsRead(c)
      PROVE  changes' = changes /\ name' = name /\ data' = data
  BY <1>2 DEF ReadTarget, ReadLoaderText, OpenLoaderFile, OpenCmdline, AcquireLock, VerifyEtag,
     KargsRead, files
<1>3. ASSUME NEW c \in Caller, CreateTmp(c) \/ WriteTmp(c) \/ WriteFails(c)
      PROVE  changes' = changes /\ name' = name /\ (name # NoInode => data'[name] = data[name])
  <2> DEFINE i == IF CreateTmp(c) THEN tfd'[c] ELSE tfd[c]
  <2>1. changes' = changes /\ name' = name
    BY <1>3 DEF CreateTmp, WriteTmp, WriteFails
  <2>2. i # name /\ \E bytes : data' = [data EXCEPT ![i] = bytes]
    <3>1. CASE CreateTmp(c)
      <4>1. tfd'[c] # name
        BY <3>1, FreshIsUnused DEF CreateTmp, LoaderInv, Types, Names
      <4>2. QED
        BY <3>1, <4>1 DEF CreateTmp
    <3>2. CASE ~CreateTmp(c) /\ (WriteTmp(c) \/ WriteFails(c))
      <4>1. pc[c] = "created" /\ \E bytes : data' = [data EXCEPT ![tfd[c]] = bytes]
        BY <3>2 DEF WriteTmp, WriteFails, Step
      <4>2. tfd[c] = tmp /\ tfd[c] # NoInode
        BY <4>1 DEF LoaderInv, Steps, Serial, Working
      <4>3. QED
        BY <3>2, <4>1, <4>2 DEF LoaderInv, Names
    <3>3. QED
      BY <1>3, <3>1, <3>2
  <2> HIDE DEF i
  <2>3. QED
    BY <2>1, <2>2 DEF LoaderInv, Types
<1>4. ASSUME NEW c \in Caller, RenameTmp(c)
      PROVE  changes' = changes + 1
  BY <1>4 DEF RenameTmp
<1>5. ASSUME NEW c \in Caller, KargsApply(c)
      PROVE  FALSE
  BY <1>5 DEF KargsApply, LoaderInv, Steps, Loader
<1>6. CASE PackageReplace \/ PackageRemove
  BY <1>6 DEF PackageReplace, PackageRemove
<1>7. CASE Crash
  BY <1>7 DEF Crash, files
<1>8. QED
  BY <1>1, <1>2, <1>3, <1>4, <1>5, <1>6, <1>7 DEF Next, Progress

\* What a step of the system leaves of a call: all that Followed is about, or the call
\* ends or takes one of its own steps.
Idles(c) ==
  /\ pc'[c] = pc[c] /\ request'[c] = request[c]
  /\ pc[c] \in Working => base'[c] = base[c] /\ fd'[c] = fd[c]

LEMMA CallStep ==
  ASSUME LoaderInv, Next, target \in Loader, NEW c \in Caller
  PROVE  \/ Idles(c)
         \/ pc'[c] \in Resting
         \/ ReadTarget(c) \/ ReadLoaderText(c) \/ OpenLoaderFile(c) \/ AcquireLock(c)
         \/ VerifyEtag(c) \/ CreateTmp(c) \/ WriteTmp(c)
<1>0. /\ DOMAIN pc = Caller /\ DOMAIN request = Caller /\ DOMAIN base = Caller /\ DOMAIN fd = Caller
      /\ pc \in [Caller -> Resting \union {"read"} \union Working]
  BY DEF LoaderInv, Types
<1>1. ASSUME NEW d \in Caller, NEW reply \in Resting, Return(d, reply)
      PROVE  Idles(c) \/ pc'[c] \in Resting
  BY <1>0, <1>1 DEF Return, Idles
<1>2. ASSUME NEW d \in Caller,
             \/ RefuseEntry(d) \/ RefuseParam(d) \/ NoCmdline(d) \/ ParamMissing(d) \/ LockBusy(d)
             \/ StaleEtag(d) \/ TmpGone(d) \/ StepFails(d) \/ KargsStale(d) \/ KargsMissing(d)
      PROVE  Idles(c) \/ pc'[c] \in Resting
  BY <1>1, <1>2, RefusalsLeave DEF Leaves, Resting
<1>3. ASSUME NEW d \in Caller, RenameTmp(d) \/ KargsApply(d) \/ WriteFails(d)
      PROVE  Idles(c) \/ pc'[c] \in Resting
  BY <1>1, <1>3 DEF RenameTmp, KargsApply, WriteFails, Resting, Errors
<1>4. ASSUME NEW d \in Caller, OpenCmdline(d) \/ KargsRead(d)
      PROVE  FALSE
  BY <1>4 DEF OpenCmdline, KargsRead, Loader
<1>5. ASSUME NEW d \in Caller, d # c,
             \/ ReadTarget(d) \/ ReadLoaderText(d) \/ OpenLoaderFile(d) \/ AcquireLock(d)
             \/ VerifyEtag(d) \/ CreateTmp(d) \/ WriteTmp(d)
      PROVE  Idles(c)
  <2>1. CASE ReadTarget(d)
    BY <1>0, <1>5, <2>1 DEF ReadTarget, Idles
  <2>2. CASE ReadLoaderText(d)
    BY <1>0, <1>5, <2>2 DEF ReadLoaderText, Step, Idles
  <2>3. CASE OpenLoaderFile(d)
    BY <1>0, <1>5, <2>3 DEF OpenLoaderFile, Step, Idles
  <2>4. CASE AcquireLock(d)
    BY <1>0, <1>5, <2>4 DEF AcquireLock, Step, Idles, locals
  <2>5. CASE VerifyEtag(d)
    BY <1>0, <1>5, <2>5 DEF VerifyEtag, AfterCompare, Step, Idles
  <2>6. CASE CreateTmp(d)
    BY <1>0, <1>5, <2>6 DEF CreateTmp, Step, Idles
  <2>7. CASE WriteTmp(d)
    BY <1>0, <1>5, <2>7 DEF WriteTmp, Step, Idles, locals
  <2>8. QED
    BY <1>5, <2>1, <2>2, <2>3, <2>4, <2>5, <2>6, <2>7
<1>6. CASE PackageReplace \/ PackageRemove
  BY <1>6 DEF PackageReplace, PackageRemove, Idles, locals
<1>7. CASE Crash
  BY <1>0, <1>7 DEF Crash, Idles, Resting
<1>8. QED
  BY <1>2, <1>3, <1>4, <1>5, <1>6, <1>7 DEF Next, Progress

\* A behaviour stays about one target.
LEMMA TargetStays == ASSUME Next PROVE target' = target /\ overlap' = overlap
<1>1. ASSUME NEW c \in Caller,
             \/ RefuseEntry(c) \/ RefuseParam(c) \/ NoCmdline(c) \/ ParamMissing(c) \/ LockBusy(c)
             \/ StaleEtag(c) \/ TmpGone(c) \/ StepFails(c) \/ KargsStale(c) \/ KargsMissing(c)
      PROVE  UNCHANGED fixed
  BY <1>1, RefusalsLeave DEF Leaves
<1>2. ASSUME NEW c \in Caller,
             \/ ReadTarget(c) \/ ReadLoaderText(c) \/ OpenLoaderFile(c) \/ OpenCmdline(c)
             \/ AcquireLock(c) \/ VerifyEtag(c) \/ CreateTmp(c) \/ WriteTmp(c) \/ RenameTmp(c)
             \/ WriteFails(c) \/ KargsRead(c) \/ KargsApply(c)
      PROVE  UNCHANGED fixed
  BY <1>2 DEF ReadTarget, ReadLoaderText, OpenLoaderFile, OpenCmdline, AcquireLock, VerifyEtag,
     CreateTmp, WriteTmp, RenameTmp, WriteFails, KargsRead, KargsApply
<1>3. CASE PackageReplace \/ PackageRemove \/ Crash
  BY <1>3 DEF PackageReplace, PackageRemove, Crash, fixed
<1>4. QED
  BY <1>1, <1>2, <1>3 DEF Next, Progress, fixed

LEMMA FollowedStep ==
  ASSUME LoaderInv, LoaderInv', Followed, [Next]_vars
  PROVE  Followed'
<1>1. CASE UNCHANGED vars
  BY <1>1 DEF vars, Followed, Follows
<1>2. CASE Next
  <2>1. target' = target /\ overlap' = overlap
    BY <1>2, TargetStays
  <2> SUFFICES ASSUME ~overlap, target \in Loader, NEW c \in Caller,
                      pc'[c] \notin Resting, request'[c].etag # NoEtag
               PROVE  Follows(c)'
    BY <2>1 DEF Followed
  <2>2. \/ changes' = changes /\ name' = name /\ (name # NoInode => data'[name] = data[name])
        \/ changes' = changes + 1
    BY <1>2, PathStep
  <2>3. changes \in Nat /\ changes' \in Nat /\ request'[c].seen \in Nat
    BY DEF LoaderInv, Types, Steps, Fits, Request
  <2>4. CASE Idles(c)
    <3>1. Follows(c)
      BY <2>4 DEF Idles, Followed
    <3>2. QED
      BY <2>2, <2>3, <2>4, <3>1 DEF Idles, Follows
  <2>5. CASE ReadTarget(c)
    <3>1. /\ UNCHANGED <<name, data, changes>> /\ pc'[c] = "read"
          /\ request'[c].seen = changes
          /\ request'[c].etag = IF name # NoInode THEN data[name] ELSE NoEtag
      BY <2>5 DEF ReadTarget, files, Exists, LoaderInv, Types
    <3>2. "read" \notin Working
      BY DEF Working
    <3>3. QED
      BY <2>3, <3>1, <3>2 DEF Follows
  <2>6. ASSUME pc[c] \notin Resting, request'[c] = request[c]
        PROVE  Follows(c)
    BY <2>6 DEF Followed
  <2>7. CASE ReadLoaderText(c)
    <3>1. /\ UNCHANGED <<name, data, changes, request>> /\ pc[c] = "read" /\ pc'[c] = "parsed"
          /\ name # NoInode => base'[c] = data[name]
      BY <2>7 DEF ReadLoaderText, Step, files, Exists, LoaderInv, Types
    <3>2. pc[c] \notin Resting
      BY <3>1 DEF Resting, Errors
    <3>3. QED
      BY <2>3, <2>6, <3>1, <3>2 DEF Follows
  <2>8. CASE OpenLoaderFile(c)
    <3>1. /\ UNCHANGED <<name, data, changes, request, base>> /\ pc[c] = "parsed"
          /\ name # NoInode => pc'[c] = "opened" /\ fd'[c] = name
      BY <2>8 DEF OpenLoaderFile, Step, files, Exists, LoaderInv, Types
    <3>2. pc[c] \notin Resting /\ pc[c] \in Working
      BY <3>1 DEF Resting, Errors, Working
    <3>3. QED
      BY <2>3, <2>6, <3>1, <3>2 DEF Follows
  <2>9. CASE AcquireLock(c)
    <3>1. UNCHANGED <<name, data, changes, request, base, fd>> /\ pc[c] = "opened" /\ pc'[c] = "locked"
      BY <2>9 DEF AcquireLock, Step, files, locals, LoaderInv, Types
    <3>2. pc[c] \notin Resting /\ pc[c] \in Working
      BY <3>1 DEF Resting, Errors, Working
    <3>3. QED
      BY <2>3, <2>6, <3>1, <3>2 DEF Follows
  <2>10. CASE VerifyEtag(c)
    <3>1. /\ UNCHANGED <<name, data, changes, request, base>> /\ pc[c] = "locked"
          /\ data[fd[c]] = request[c].etag \/ request[c].etag = NoEtag
      BY <2>10 DEF VerifyEtag, EtagHolds, AfterCompare, Step, files, Loader
    <3>2. pc[c] \notin Resting /\ pc[c] \in Working
      BY <3>1 DEF Resting, Errors, Working
    <3>3. QED
      BY <2>3, <2>6, <3>1, <3>2 DEF Follows
  <2>11. CASE CreateTmp(c) \/ WriteTmp(c)
    <3>1. UNCHANGED <<name, changes, request, base>> /\ pc[c] \in {"verified", "created"}
      BY <2>11 DEF CreateTmp, WriteTmp, Step, locals
    <3>2. pc[c] \notin Resting /\ pc[c] \in Working
      BY <3>1 DEF Resting, Errors, Working
    <3>3. Follows(c)
      BY <2>6, <3>1, <3>2
    <3>4. name # NoInode => data'[name] = data[name]
      BY <2>2, <2>3, <3>1
    <3>5. QED
      BY <2>3, <3>1, <3>2, <3>3, <3>4 DEF Follows
  <2>12. QED
    BY <1>2, <2>4, <2>5, <2>7, <2>8, <2>9, <2>10, <2>11, CallStep
<1>3. QED
  BY <1>1, <1>2

LEMMA FollowedInvariant == Spec => []Followed
<1>1. Init => Followed
  BY DEF Init, Followed, Resting
<1>2. QED
  BY <1>1, FollowedStep, LoaderInvariant, PTL DEF Spec

\* Calls one at a time, packages at any time: the file a successful call leaves is its own
\* edit of one text, whatever the text: the default is the one asked for and no other key's
\* lines have changed; the title is the one asked for, and of every other key the entry has
\* the lines it had, its comments included. That text is the one the client read, if there
\* was and is a file that has changed at most once since.
THEOREM UpdateWasExact == Spec => UpdateIsExact
<1> DEFINE Exact(c) ==
             /\ Finishes(c)
             /\ ~overlap
             /\ target # "kargs"
             => /\ Intended(request[c], base[c], data'[name'])
                /\ Exists /\ request[c].etag # NoEtag /\ changes <= request[c].seen + 1
                   => base[c] = request[c].etag
           A == \A c \in Caller : Exact(c)
<1>1. ASSUME LoaderInv, Followed, Next, NEW c \in Caller
      PROVE  Exact(c)
  <2> SUFFICES ASSUME pc[c] \in Working, pc'[c] = "ok", ~overlap, target # "kargs"
               PROVE  /\ Intended(request[c], base[c], data'[name'])
                      /\ name # NoInode /\ request[c].etag # NoEtag /\ changes <= request[c].seen + 1
                         => base[c] = request[c].etag
    BY DEF Finishes, Exists
  <2>1. pc[c] \notin Resting
    BY DEF Working, Resting, Errors
  <2>2. Fits(target, request[c]) /\ target \in {"loader.conf", "entry", "cmdline"}
    BY <1>1, <2>1, LoaderAssumption DEF LoaderInv, Types, Steps
  <2>3. RenameTmp(c)
    <3>1. ASSUME KargsApply(c)
          PROVE  FALSE
      BY <1>1, <3>1 DEF KargsApply, LoaderInv, Steps
    <3>2. QED
      BY <1>1, <3>1, WellEnded
  <2>4. pc[c] = "written" /\ data' = data
    BY <2>3 DEF RenameTmp
  <2>5. CASE target \in Loader
    <3>1. /\ base[c] \in Text /\ (target = "entry" => EntryParses(base[c]))
          /\ data[tmp] = Transformed(request[c], base[c])
      BY <1>1, <2>4, <2>5 DEF LoaderInv, Serial
    <3>2. name' = tmp /\ target \in {"loader.conf", "entry"}
      BY <2>3, <2>5 DEF RenameTmp, Loader
    <3>3. Intended(request[c], base[c], Transformed(request[c], base[c]))
      BY <2>2, <3>1, <3>2, TransformedIsExact
    <3>4. name # NoInode /\ request[c].etag # NoEtag /\ changes <= request[c].seen + 1
            => base[c] = request[c].etag
      BY <1>1, <2>1, <2>4, <2>5 DEF Followed, Follows
    <3>5. QED
      BY <2>4, <3>1, <3>2, <3>3, <3>4
  <2>6. CASE target = "cmdline"
    <3>1. /\ data[tfd[c]] = Transformed(request[c], base[c])
          /\ base[c] = request[c].etag /\ base[c] \in Text
      BY <1>1, <2>4, <2>6 DEF LoaderInv, Staged, Steps
    <3>2. name' = tfd[c]
      BY <2>3, <2>6 DEF RenameTmp
    <3>3. Intended(request[c], base[c], Transformed(request[c], base[c]))
      BY <2>2, <2>6, <3>1, TransformedIsExact
    <3>4. QED
      BY <2>4, <3>1, <3>2, <3>3
  <2>7. QED
    BY <2>2, <2>5, <2>6 DEF Loader
<1>2. ASSUME LoaderInv, Followed, Next
      PROVE  A
  BY <1>1, <1>2
<1>3. LoaderInv /\ Followed /\ [Next]_vars => [A]_vars
  BY <1>2
<1>4. QED
  BY <1>3, LoaderInvariant, FollowedInvariant, PTL DEF Spec, UpdateIsExact
=============================================================================
