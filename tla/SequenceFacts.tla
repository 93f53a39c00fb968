---------------------------- MODULE SequenceFacts ----------------------------
(***************************************************************************)
(* Where an element is in a sequence, and whether it is there only once:   *)
(* what the operations that move messages between channels do to it.       *)
(***************************************************************************)
EXTENDS SequenceTheorems, TLAPS

\* x is an element of s.
Has(s, x) == \E i \in 1 .. Len(s) : s[i] = x

\* x is not at two places of s.
Once(s, x) == \A i, j \in 1 .. Len(s) : s[i] = x /\ s[j] = x => i = j

-----------------------------------------------------------------------------
\* An element has its place's type.
LEMMA HasType ==
  ASSUME NEW S, NEW s \in Seq(S), NEW x, Has(s, x)
  PROVE  x \in S
BY ElementOfSeq DEF Has

\* Nothing is in the empty sequence.
LEMMA HasEmpty ==
  ASSUME NEW x
  PROVE  ~Has(<<>>, x) /\ Once(<<>>, x)
BY DEF Has, Once

\* A sequence of one element.
LEMMA HasSingle ==
  ASSUME NEW e, NEW x
  PROVE  (Has(<<e>>, x) <=> x = e) /\ Once(<<e>>, x)
BY DEF Has, Once

\* Append adds its element.
LEMMA HasAppend ==
  ASSUME NEW S, NEW s \in Seq(S), NEW e \in S, NEW x
  PROVE  /\ Append(s, e) \in Seq(S)
         /\ Len(Append(s, e)) = Len(s) + 1
         /\ Has(Append(s, e), x) <=> Has(s, x) \/ x = e
         /\ Once(s, x) /\ ~(Has(s, x) /\ x = e) => Once(Append(s, e), x)
<1>1. /\ Append(s, e) \in Seq(S)
      /\ Len(Append(s, e)) = Len(s) + 1
      /\ \A i \in 1 .. Len(s) : Append(s, e)[i] = s[i]
      /\ Append(s, e)[Len(s) + 1] = e
  BY AppendProperties
<1>2. Len(s) \in Nat
  BY LenProperties
<1> QED
  BY <1>1, <1>2 DEF Has, Once

\* Concatenation has the elements of both.
LEMMA HasConcat ==
  ASSUME NEW S, NEW s \in Seq(S), NEW t \in Seq(S), NEW x
  PROVE  /\ s \o t \in Seq(S)
         /\ Has(s \o t, x) <=> Has(s, x) \/ Has(t, x)
         /\ Once(s, x) /\ Once(t, x) /\ ~(Has(s, x) /\ Has(t, x)) => Once(s \o t, x)
<1>1. /\ s \o t \in Seq(S)
      /\ Len(s \o t) = Len(s) + Len(t)
      /\ \A i \in 1 .. Len(s) + Len(t) :
            (s \o t)[i] = IF i <= Len(s) THEN s[i] ELSE t[i - Len(s)]
  BY ConcatProperties
<1>2. Len(s) \in Nat /\ Len(t) \in Nat
  BY LenProperties
<1>3. ASSUME Has(s \o t, x) PROVE Has(s, x) \/ Has(t, x)
  <2>1. PICK i \in 1 .. Len(s) + Len(t) : (s \o t)[i] = x
    BY <1>1, <1>3 DEF Has
  <2>2. CASE i <= Len(s)
    BY <1>1, <1>2, <2>1, <2>2 DEF Has
  <2>3. CASE i > Len(s)
    <3>1. i - Len(s) \in 1 .. Len(t) /\ t[i - Len(s)] = x
      BY <1>1, <1>2, <2>1, <2>3
    <3> QED
      BY <3>1 DEF Has
  <2> QED
    BY <1>2, <2>2, <2>3
<1>4. ASSUME Has(s, x) PROVE Has(s \o t, x)
  BY <1>1, <1>2, <1>4 DEF Has
<1>5. ASSUME Has(t, x) PROVE Has(s \o t, x)
  <2>1. PICK i \in 1 .. Len(t) : t[i] = x
    BY <1>5 DEF Has
  <2>2. Len(s) + i \in 1 .. Len(s) + Len(t) /\ (Len(s) + i) - Len(s) = i
    BY <1>2
  <2>3. (s \o t)[Len(s) + i] = x
    BY <1>1, <1>2, <2>1, <2>2
  <2> QED
    BY <1>1, <2>2, <2>3 DEF Has
<1>6. ASSUME Once(s, x), Once(t, x), ~(Has(s, x) /\ Has(t, x)) PROVE Once(s \o t, x)
  <2> SUFFICES ASSUME NEW i \in 1 .. Len(s) + Len(t), NEW j \in 1 .. Len(s) + Len(t),
                      (s \o t)[i] = x, (s \o t)[j] = x
               PROVE  i = j
    BY <1>1 DEF Once
  <2>1. CASE i <= Len(s) /\ j <= Len(s)
    BY <1>1, <1>2, <1>6, <2>1 DEF Once
  <2>2. CASE i > Len(s) /\ j > Len(s)
    <3>1. /\ i - Len(s) \in 1 .. Len(t) /\ t[i - Len(s)] = x
          /\ j - Len(s) \in 1 .. Len(t) /\ t[j - Len(s)] = x
      BY <1>1, <1>2, <2>2
    <3>2. i - Len(s) = j - Len(s)
      BY <1>6, <3>1 DEF Once
    <3> QED
      BY <1>2, <3>2
  <2>3. ASSUME NEW k \in 1 .. Len(s) + Len(t), NEW l \in 1 .. Len(s) + Len(t),
               k <= Len(s), l > Len(s), (s \o t)[k] = x, (s \o t)[l] = x
        PROVE  FALSE
    <3>1. k \in 1 .. Len(s) /\ s[k] = x
      BY <1>1, <1>2, <2>3
    <3>2. l - Len(s) \in 1 .. Len(t) /\ t[l - Len(s)] = x
      BY <1>1, <1>2, <2>3
    <3> QED
      BY <1>6, <3>1, <3>2 DEF Has
  <2> QED
    BY <1>2, <2>1, <2>2, <2>3
<1> QED
  BY <1>1, <1>3, <1>4, <1>5, <1>6

\* The head is taken off.
LEMMA HasTail ==
  ASSUME NEW S, NEW s \in Seq(S), s # <<>>, NEW x
  PROVE  /\ Head(s) \in S /\ Tail(s) \in Seq(S)
         /\ Has(s, Head(s))
         /\ Has(s, x) <=> x = Head(s) \/ Has(Tail(s), x)
         /\ Once(s, x) => Once(Tail(s), x)
         /\ Once(s, Head(s)) => ~Has(Tail(s), Head(s))
<1>1. /\ Head(s) \in S /\ Tail(s) \in Seq(S)
      /\ Head(s) = s[1]
      /\ Len(Tail(s)) = Len(s) - 1
      /\ \A i \in 1 .. Len(Tail(s)) : Tail(s)[i] = s[i + 1]
  BY HeadTailProperties
<1>2. Len(s) \in Nat \ {0}
  BY LenProperties, EmptySeq
<1>3. Has(s, Head(s))
  BY <1>1, <1>2 DEF Has
<1>4. ASSUME Has(s, x), x # Head(s) PROVE Has(Tail(s), x)
  <2>1. PICK i \in 1 .. Len(s) : s[i] = x
    BY <1>4 DEF Has
  <2>2. i - 1 \in 1 .. Len(Tail(s)) /\ (i - 1) + 1 = i
    BY <1>1, <1>2, <1>4, <2>1
  <2> QED
    BY <1>1, <2>1, <2>2 DEF Has
<1>5. ASSUME NEW y, Has(Tail(s), y) PROVE \E i \in 2 .. Len(s) : s[i] = y
  BY <1>1, <1>2, <1>5 DEF Has
<1>6. ASSUME Once(s, x) PROVE Once(Tail(s), x)
  <2> SUFFICES ASSUME NEW i \in 1 .. Len(Tail(s)), NEW j \in 1 .. Len(Tail(s)),
                      Tail(s)[i] = x, Tail(s)[j] = x
               PROVE  i = j
    BY DEF Once
  <2>1. i + 1 \in 1 .. Len(s) /\ j + 1 \in 1 .. Len(s) /\ s[i + 1] = x /\ s[j + 1] = x
    BY <1>1, <1>2
  <2> QED
    BY <1>6, <2>1 DEF Once
<1>7. ASSUME Once(s, Head(s)), Has(Tail(s), Head(s)) PROVE FALSE
  <2>1. PICK i \in 2 .. Len(s) : s[i] = Head(s)
    BY <1>5, <1>7
  <2>2. 1 \in 1 .. Len(s) /\ i \in 1 .. Len(s) /\ i # 1
    BY <1>2
  <2> QED
    BY <1>1, <1>7, <2>1, <2>2 DEF Once
<1>8. ASSUME Has(Tail(s), x) PROVE Has(s, x)
  <2>1. PICK i \in 2 .. Len(s) : s[i] = x
    BY <1>5, <1>8
  <2> QED
    BY <1>2, <2>1 DEF Has
<1> QED
  BY <1>1, <1>3, <1>4, <1>6, <1>7, <1>8

\* A sequence is cut in two.
LEMMA HasCut ==
  ASSUME NEW S, NEW s \in Seq(S), NEW n \in 0 .. Len(s), NEW x
  PROVE  /\ SubSeq(s, 1, n) \in Seq(S) /\ Len(SubSeq(s, 1, n)) = n
         /\ SubSeq(s, n + 1, Len(s)) \in Seq(S)
         /\ Len(SubSeq(s, n + 1, Len(s))) = Len(s) - n
         /\ Has(s, x) <=> Has(SubSeq(s, 1, n), x) \/ Has(SubSeq(s, n + 1, Len(s)), x)
         /\ Once(s, x) => /\ Once(SubSeq(s, 1, n), x)
                          /\ Once(SubSeq(s, n + 1, Len(s)), x)
                          /\ ~(/\ Has(SubSeq(s, 1, n), x)
                               /\ Has(SubSeq(s, n + 1, Len(s)), x))
<1> DEFINE a == SubSeq(s, 1, n)
           b == SubSeq(s, n + 1, Len(s))
<1>1. Len(s) \in Nat /\ \A i \in 1 .. Len(s) : s[i] \in S
  BY LenProperties, ElementOfSeq
<1>2. a \in Seq(S) /\ Len(a) = n /\ \A i \in 1 .. n : a[i] = s[i]
  <2>1. \A i \in 1 .. n : s[i] \in S
    BY <1>1
  <2> QED
    BY <2>1, <1>1, SubSeqProperties
<1>3. b \in Seq(S) /\ Len(b) = Len(s) - n /\ \A i \in 1 .. Len(s) - n : b[i] = s[n + i]
  <2>1. \A i \in n + 1 .. Len(s) : s[i] \in S
    BY <1>1
  <2>2. n + 1 \in 1 .. Len(s) + 1
    BY <1>1
  <2>3. b \in Seq(S)
    BY <1>1, <2>1, <2>2, SubSeqProperties
  <2>4. Len(b) = Len(s) - n
    BY <1>1, <2>2, SubSeqProperties
  <2>5. ASSUME NEW i \in 1 .. Len(s) - n PROVE b[i] = s[n + i]
    BY <1>1, <2>2, SubSeqProperties
  <2> QED
    BY <2>3, <2>4, <2>5
<1> HIDE DEF a, b
<1>4. ASSUME Has(s, x) PROVE Has(a, x) \/ Has(b, x)
  <2>1. PICK i \in 1 .. Len(s) : s[i] = x
    BY <1>4 DEF Has
  <2>2. CASE i <= n
    BY <1>1, <1>2, <2>1, <2>2 DEF Has
  <2>3. CASE i > n
    <3>1. i - n \in 1 .. Len(s) - n /\ n + (i - n) = i
      BY <1>1, <2>3
    <3>2. b[i - n] = x
      BY <1>3, <2>1, <3>1
    <3> QED
      BY <1>3, <3>1, <3>2 DEF Has
  <2> QED
    BY <2>2, <2>3, <1>1
<1>5. ASSUME Has(a, x) PROVE \E i \in 1 .. n : s[i] = x
  BY <1>2, <1>5 DEF Has
<1>6. ASSUME Has(b, x) PROVE \E i \in n + 1 .. Len(s) : s[i] = x
  <2>1. PICK i \in 1 .. Len(s) - n : b[i] = x
    BY <1>3, <1>6 DEF Has
  <2>2. n + i \in n + 1 .. Len(s) /\ s[n + i] = x
    BY <1>1, <1>3, <2>1
  <2> QED
    BY <2>2
<1>7. ASSUME Has(a, x) \/ Has(b, x) PROVE Has(s, x)
  BY <1>1, <1>5, <1>6, <1>7 DEF Has
<1>8. ASSUME Once(s, x) PROVE Once(a, x)
  BY <1>1, <1>2, <1>8 DEF Once
<1>9. ASSUME Once(s, x) PROVE Once(b, x)
  <2> SUFFICES ASSUME NEW i \in 1 .. Len(s) - n, NEW j \in 1 .. Len(s) - n,
                      b[i] = x, b[j] = x
               PROVE  i = j
    BY <1>3 DEF Once
  <2>1. n + i \in 1 .. Len(s) /\ n + j \in 1 .. Len(s) /\ s[n + i] = x /\ s[n + j] = x
    BY <1>1, <1>3
  <2>2. n + i = n + j
    BY <1>9, <2>1 DEF Once
  <2> QED
    BY <2>2, <1>1
<1>10. ASSUME Once(s, x), Has(a, x), Has(b, x) PROVE FALSE
  <2>1. PICK i \in 1 .. n : s[i] = x
    BY <1>5, <1>10
  <2>2. PICK j \in n + 1 .. Len(s) : s[j] = x
    BY <1>6, <1>10
  <2>3. i \in 1 .. Len(s) /\ j \in 1 .. Len(s) /\ i # j
    BY <1>1
  <2> QED
    BY <1>10, <2>1, <2>2, <2>3 DEF Once
<1> QED
  BY <1>2, <1>3, <1>4, <1>7, <1>8, <1>9, <1>10 DEF a, b
\* What is cut off the front of a sequence can be put at the end of the one before it.
LEMMA HeadMoves ==
  ASSUME NEW S, NEW s \in Seq(S), NEW t \in Seq(S), t # <<>>
  PROVE  Append(s, Head(t)) \o Tail(t) = s \o t
<1>1. /\ Head(t) \in S /\ Tail(t) \in Seq(S) /\ Head(t) = t[1]
      /\ Len(Tail(t)) = Len(t) - 1
      /\ \A i \in 1 .. Len(Tail(t)) : Tail(t)[i] = t[i + 1]
  BY HeadTailProperties
<1>2. Len(s) \in Nat /\ Len(t) \in Nat \ {0}
  BY LenProperties, EmptySeq
<1> DEFINE u == Append(s, Head(t))
           v == Tail(t)
<1>3. /\ u \in Seq(S) /\ Len(u) = Len(s) + 1 /\ u[Len(s) + 1] = Head(t)
      /\ \A i \in 1 .. Len(s) : u[i] = s[i]
  BY <1>1, AppendProperties
<1>4. v \in Seq(S) /\ Len(v) = Len(t) - 1 /\ \A i \in 1 .. Len(t) - 1 : v[i] = t[i + 1]
  BY <1>1
<1> HIDE DEF u, v
<1>5. /\ u \o v \in Seq(S) /\ Len(u \o v) = Len(u) + Len(v)
      /\ \A i \in 1 .. Len(u) + Len(v) : (u \o v)[i] = IF i <= Len(u) THEN u[i] ELSE v[i - Len(u)]
  BY <1>3, <1>4, ConcatProperties
<1>6. /\ s \o t \in Seq(S) /\ Len(s \o t) = Len(s) + Len(t)
      /\ \A i \in 1 .. Len(s) + Len(t) : (s \o t)[i] = IF i <= Len(s) THEN s[i] ELSE t[i - Len(s)]
  BY ConcatProperties
<1>7. Len(u) + Len(v) = Len(s) + Len(t)
  BY <1>2, <1>3, <1>4
<1>8. ASSUME NEW i \in 1 .. Len(s) + Len(t) PROVE (u \o v)[i] = (s \o t)[i]
  <2>1. CASE i <= Len(s)
    BY <1>2, <1>3, <1>5, <1>6, <1>7, <2>1
  <2>2. CASE i = Len(s) + 1
    BY <1>1, <1>2, <1>3, <1>5, <1>6, <1>7, <2>2
  <2>3. CASE i > Len(s) + 1
    <3>1. (u \o v)[i] = v[i - Len(u)] /\ (s \o t)[i] = t[i - Len(s)]
      BY <1>2, <1>3, <1>5, <1>6, <1>7, <2>3
    <3>2. i - Len(u) \in 1 .. Len(t) - 1 /\ (i - Len(u)) + 1 = i - Len(s)
      BY <1>2, <1>3, <2>3
    <3> QED
      BY <1>4, <3>1, <3>2
  <2>4. i <= Len(s) \/ i = Len(s) + 1 \/ i > Len(s) + 1
    BY <1>2
  <2> QED
    BY <2>1, <2>2, <2>3, <2>4
<1>9. u \o v = s \o t
  BY <1>5, <1>6, <1>7, <1>8, SeqEqual
<1> QED
  BY <1>9 DEF u, v
==============================================================================
