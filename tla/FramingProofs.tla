---------------------------- MODULE FramingProofs ----------------------------
(***************************************************************************)
(* Whatever the codec, if it fits (CodecFits) then the framing is right:   *)
(* ReceivedIsSent and RequestsUnderstood for conversations of any length,  *)
(* cut anywhere.  Every buffer is a part of the one stream of frames, and  *)
(* the proof follows the places where the parts begin and end.             *)
(***************************************************************************)
EXTENDS Framing, SequenceFacts, WellFoundedInduction

-----------------------------------------------------------------------------
(* Parts of a sequence.                                                    *)

\* The elements of s after the first a, up to the b-th.
Cut(s, a, b) == SubSeq(s, a + 1, b)

\* A part has the elements between its ends.
LEMMA CutIs ==
  ASSUME NEW S, NEW s \in Seq(S), NEW a \in Nat, NEW b \in Nat, a <= b, b <= Len(s)
  PROVE  /\ Cut(s, a, b) \in Seq(S)
         /\ Len(Cut(s, a, b)) = b - a
         /\ \A i \in 1 .. b - a : Cut(s, a, b)[i] = s[a + i]
<1>1. Len(s) \in Nat /\ \A i \in 1 .. Len(s) : s[i] \in S
  BY LenProperties, ElementOfSeq
<1>2. \A i \in a + 1 .. b : s[i] \in S
  BY <1>1
<1>3. a + 1 \in 1 .. Len(s) + 1 /\ b \in a .. Len(s)
  BY <1>1
<1>4. Cut(s, a, b) \in Seq(S)
  BY <1>1, <1>2, <1>3, SubSeqProperties DEF Cut
<1>5. Len(Cut(s, a, b)) = b - a
  BY <1>1, <1>3, SubSeqProperties DEF Cut
<1>6. ASSUME NEW i \in 1 .. b - a PROVE Cut(s, a, b)[i] = s[a + i]
  BY <1>1, <1>3, SubSeqProperties DEF Cut
<1> QED
  BY <1>4, <1>5, <1>6

\* The same, one by one.
LEMMA CutType ==
  ASSUME NEW S, NEW s \in Seq(S), NEW a \in Nat, NEW b \in Nat, a <= b, b <= Len(s)
  PROVE  Cut(s, a, b) \in Seq(S)
BY CutIs

\* How long a part is.
LEMMA CutLen ==
  ASSUME NEW S, NEW s \in Seq(S), NEW a \in Nat, NEW b \in Nat, a <= b, b <= Len(s)
  PROVE  Len(Cut(s, a, b)) = b - a
BY CutIs

\* What is where in it.
LEMMA CutAt ==
  ASSUME NEW S, NEW s \in Seq(S), NEW a \in Nat, NEW b \in Nat, a <= b, b <= Len(s)
  PROVE  \A i \in 1 .. b - a : Cut(s, a, b)[i] = s[a + i]
BY CutIs

\* The same for the first k elements.
LEMMA CutFirst ==
  ASSUME NEW S, NEW s \in Seq(S), NEW k \in Nat, k <= Len(s)
  PROVE  /\ Cut(s, 0, k) \in Seq(S)
         /\ Len(Cut(s, 0, k)) = k
         /\ \A i \in 1 .. k : Cut(s, 0, k)[i] = s[i]
<1>1. 0 \in Nat /\ 0 <= k /\ k - 0 = k /\ \A i \in 1 .. k : 0 + i = i
  OBVIOUS
<1> DEFINE u == Cut(s, 0, k)
           d == k - 0
<1>2. u \in Seq(S)
  BY <1>1, CutIs
<1>3. Len(u) = d
  BY <1>1, CutIs
<1>4. \A i \in 1 .. d : u[i] = s[0 + i]
  BY <1>1, CutIs
<1> HIDE DEF u
<1> QED
  BY <1>1, <1>2, <1>3, <1>4 DEF u

\* Nothing lies between a place and itself.
LEMMA CutEmpty ==
  ASSUME NEW S, NEW s \in Seq(S), NEW a \in Nat, a <= Len(s)
  PROVE  Cut(s, a, a) = <<>>
<1>1. Cut(s, a, a) \in Seq(S) /\ Len(Cut(s, a, a)) = 0
  BY CutIs
<1> QED
  BY <1>1, EmptySeq

\* A part without elements ends where it begins.
LEMMA CutIsEmpty ==
  ASSUME NEW S, NEW s \in Seq(S), NEW a \in Nat, NEW b \in Nat, a <= b, b <= Len(s),
         Cut(s, a, b) = <<>>
  PROVE  a = b
<1>1. Len(Cut(s, a, b)) = b - a
  BY CutIs
<1>2. Len(Cut(s, a, b)) = 0
  BY EmptySeq
<1> QED
  BY <1>1, <1>2

\* Two parts, one where the other ends, are one part.
LEMMA CutJoin ==
  ASSUME NEW S, NEW s \in Seq(S), NEW a \in Nat, NEW b \in Nat, NEW c \in Nat,
         a <= b, b <= c, c <= Len(s)
  PROVE  Cut(s, a, b) \o Cut(s, b, c) = Cut(s, a, c)
<1> DEFINE u == Cut(s, a, b)
           v == Cut(s, b, c)
           w == Cut(s, a, c)
<1>0. Len(s) \in Nat /\ b <= Len(s) /\ a <= c
  BY LenProperties
<1>1. u \in Seq(S) /\ Len(u) = b - a /\ \A i \in 1 .. b - a : u[i] = s[a + i]
  BY <1>0, CutType, CutLen, CutAt
<1>2. v \in Seq(S) /\ Len(v) = c - b /\ \A i \in 1 .. c - b : v[i] = s[b + i]
  BY CutType, CutLen, CutAt
<1>3. w \in Seq(S) /\ Len(w) = c - a /\ \A i \in 1 .. c - a : w[i] = s[a + i]
  BY <1>0, CutType, CutLen, CutAt
<1> HIDE DEF u, v, w
<1>4. /\ u \o v \in Seq(S) /\ Len(u \o v) = Len(u) + Len(v)
      /\ \A i \in 1 .. Len(u) + Len(v) :
            (u \o v)[i] = IF i <= Len(u) THEN u[i] ELSE v[i - Len(u)]
  BY <1>1, <1>2, ConcatProperties
<1>5. Len(u) + Len(v) = c - a
  BY <1>1, <1>2
<1>6. ASSUME NEW i \in 1 .. c - a PROVE (u \o v)[i] = w[i]
  <2>1. CASE i <= b - a
    <3>1. (u \o v)[i] = u[i]
      BY <1>1, <1>4, <1>5, <2>1
    <3> QED
      BY <1>1, <1>3, <2>1, <3>1
  <2>2. CASE i > b - a
    <3>1. (u \o v)[i] = v[i - (b - a)]
      BY <1>1, <1>4, <1>5, <2>2
    <3>2. i - (b - a) \in 1 .. c - b /\ b + (i - (b - a)) = a + i
      BY <2>2
    <3> QED
      BY <1>2, <1>3, <3>1, <3>2
  <2>3. i <= b - a \/ i > b - a
    OBVIOUS
  <2> QED
    BY <2>1, <2>2, <2>3
<1>7. u \o v = w
  BY <1>3, <1>4, <1>5, <1>6, SeqEqual
<1> QED
  BY <1>7 DEF u, v, w

\* The first elements of a part, and the others, are parts.
LEMMA CutSplit ==
  ASSUME NEW S, NEW s \in Seq(S), NEW a \in Nat, NEW b \in Nat, a <= b, b <= Len(s),
         NEW n \in 0 .. b - a
  PROVE  /\ SubSeq(Cut(s, a, b), 1, n) = Cut(s, a, a + n)
         /\ SubSeq(Cut(s, a, b), n + 1, b - a) = Cut(s, a + n, b)
<1> DEFINE u == Cut(s, a, b)
           v == Cut(s, a, a + n)
           w == Cut(s, a + n, b)
<1>1. u \in Seq(S) /\ Len(u) = b - a /\ \A i \in 1 .. b - a : u[i] = s[a + i]
  BY CutType, CutLen, CutAt, LenProperties
<1>2. a + n \in Nat /\ a <= a + n /\ a + n <= b /\ a + n <= Len(s) /\ Len(s) \in Nat
  BY LenProperties
<1>3. v \in Seq(S) /\ Len(v) = (a + n) - a /\ \A i \in 1 .. (a + n) - a : v[i] = s[a + i]
  BY <1>2, CutType, CutLen, CutAt
<1>4. w \in Seq(S) /\ Len(w) = b - (a + n) /\ \A i \in 1 .. b - (a + n) : w[i] = s[(a + n) + i]
  BY <1>2, CutType, CutLen, CutAt
<1> HIDE DEF u, v, w
<1>5. 0 \in Nat /\ n \in Nat /\ 0 <= n /\ n <= Len(u) /\ b - a \in Nat /\ n <= b - a
  BY <1>1
<1>6. /\ Cut(u, 0, n) \in Seq(S) /\ Len(Cut(u, 0, n)) = n
      /\ \A i \in 1 .. n : Cut(u, 0, n)[i] = u[i]
  BY <1>1, <1>5, CutFirst
<1>7. /\ Cut(u, n, b - a) \in Seq(S) /\ Len(Cut(u, n, b - a)) = (b - a) - n
      /\ \A i \in 1 .. (b - a) - n : Cut(u, n, b - a)[i] = u[n + i]
  <2>1. PICK m \in Nat : m = b - a
    BY <1>5
  <2>0. n <= m /\ m <= Len(u)
    BY <1>1, <1>5, <2>1
  <2>2. /\ Cut(u, n, m) \in Seq(S) /\ Len(Cut(u, n, m)) = m - n
        /\ \A i \in 1 .. m - n : Cut(u, n, m)[i] = u[n + i]
    <3>1. u \in Seq(S) /\ n \in Nat
      BY <1>1, <1>5
    <3> QED
      BY <3>1, <2>0, CutType, CutLen, CutAt
  <2> QED
    BY <2>1, <2>2
<1>8. Cut(u, 0, n) = v
  <2>1. ASSUME NEW i \in 1 .. n PROVE Cut(u, 0, n)[i] = v[i]
    <3>1. Cut(u, 0, n)[i] = u[i]
      BY <1>5, <1>6
    <3>2. u[i] = s[a + i]
      BY <1>1, <1>5
    <3>3. v[i] = s[a + i]
      BY <1>3, <1>5
    <3> QED
      BY <3>1, <3>2, <3>3
  <2>2. Len(Cut(u, 0, n)) = n /\ Len(v) = n
    BY <1>3, <1>5, <1>6
  <2> QED
    BY <1>3, <1>6, <2>1, <2>2, SeqEqual
<1>9. Cut(u, n, b - a) = w
  <2>1. ASSUME NEW i \in 1 .. (b - a) - n PROVE Cut(u, n, b - a)[i] = w[i]
    <3>1. Cut(u, n, b - a)[i] = u[n + i]
      BY <1>7
    <3>2. n + i \in 1 .. b - a /\ a + (n + i) = (a + n) + i
      BY <1>5
    <3>3. u[n + i] = s[(a + n) + i]
      BY <1>1, <3>2
    <3>4. w[i] = s[(a + n) + i]
      BY <1>4
    <3> QED
      BY <3>1, <3>3, <3>4
  <2>2. Len(Cut(u, n, b - a)) = (b - a) - n /\ Len(w) = (b - a) - n
    BY <1>4, <1>7
  <2> QED
    BY <1>4, <1>7, <2>1, <2>2, SeqEqual
<1>10. SubSeq(u, 1, n) = Cut(u, 0, n) /\ SubSeq(u, n + 1, b - a) = Cut(u, n, b - a)
  BY DEF Cut
<1> QED
  BY <1>8, <1>9, <1>10 DEF u, v, w

\* The first elements of a part.
LEMMA CutHead ==
  ASSUME NEW S, NEW s \in Seq(S), NEW a \in Nat, NEW b \in Nat, a <= b, b <= Len(s),
         NEW n \in 0 .. b - a
  PROVE  SubSeq(Cut(s, a, b), 1, n) = Cut(s, a, a + n)
BY CutSplit

\* The others.
LEMMA CutRest ==
  ASSUME NEW S, NEW s \in Seq(S), NEW a \in Nat, NEW b \in Nat, a <= b, b <= Len(s),
         NEW n \in 0 .. b - a
  PROVE  SubSeq(Cut(s, a, b), n + 1, b - a) = Cut(s, a + n, b)
BY CutSplit, SMTT(60)

\* The first k elements, and the next one behind them.
LEMMA CutNext ==
  ASSUME NEW S, NEW s \in Seq(S), NEW k \in Nat, k < Len(s)
  PROVE  Append(Cut(s, 0, k), s[k + 1]) = Cut(s, 0, k + 1)
<1> DEFINE u == Cut(s, 0, k)
           w == Cut(s, 0, k + 1)
<1>1. Len(s) \in Nat /\ k + 1 \in Nat /\ k <= Len(s) /\ k + 1 <= Len(s) /\ s[k + 1] \in S
  BY LenProperties, ElementOfSeq
<1>2. u \in Seq(S) /\ Len(u) = k /\ \A i \in 1 .. k : u[i] = s[i]
  BY <1>1, CutFirst
<1>3. w \in Seq(S) /\ Len(w) = k + 1 /\ \A i \in 1 .. k + 1 : w[i] = s[i]
  BY <1>1, CutFirst
<1> HIDE DEF u, w
<1>4. /\ Append(u, s[k + 1]) \in Seq(S) /\ Len(Append(u, s[k + 1])) = Len(u) + 1
      /\ \A i \in 1 .. Len(u) : Append(u, s[k + 1])[i] = u[i]
      /\ Append(u, s[k + 1])[Len(u) + 1] = s[k + 1]
  BY <1>1, <1>2, AppendProperties
<1>5. ASSUME NEW i \in 1 .. k + 1 PROVE Append(u, s[k + 1])[i] = w[i]
  <2>1. CASE i = k + 1
    BY <1>2, <1>3, <1>4, <2>1
  <2>2. CASE i # k + 1
    BY <1>2, <1>3, <1>4, <2>2
  <2> QED
    BY <2>1, <2>2
<1>6. Append(u, s[k + 1]) = w
  <2>1. Len(Append(u, s[k + 1])) = k + 1 /\ Len(w) = k + 1
    BY <1>2, <1>3, <1>4
  <2> QED
    BY <1>3, <1>4, <1>5, <2>1, SeqEqual
<1> QED
  BY <1>6 DEF u, w

\* A sequence is the part from its beginning to its end; the first elements of a part are
\* its prefix.
LEMMA CutPrefix ==
  ASSUME NEW S, NEW s \in Seq(S), NEW k \in Nat, NEW m \in Nat, k <= m, m <= Len(s)
  PROVE  Prefix(Cut(s, 0, k), Cut(s, 0, m))
<1>1. k \in 0 .. m - 0 /\ 0 + k = k
  OBVIOUS
<1>2. SubSeq(Cut(s, 0, m), 1, k) = Cut(s, 0, k)
  BY <1>1, CutSplit
<1>3. Len(s) \in Nat /\ k <= Len(s)
  BY LenProperties
<1>4. Len(Cut(s, 0, k)) = k /\ Len(Cut(s, 0, m)) = m
  BY <1>3, CutFirst
<1> QED
  BY <1>2, <1>4 DEF Prefix
-----------------------------------------------------------------------------
(* The stream of the broker's frames.                                      *)

Responses(c) == Len(c.responses)
Down(c)      == Stream(Downlink(c))
DownEnd(c)   == Ends(Downlink(c))

\* A codec that fits lays the frames of the responses one behind the other.
LEMMA DownLaid ==
  ASSUME CodecFits, NEW c \in Conversations
  PROVE  /\ Responses(c) \in Nat
         /\ c.responses \in Seq({c.responses[i] : i \in 1 .. Responses(c)})
         /\ Down(c) \in Seq(0 .. 255)
         /\ Len(Down(c)) \in Nat
         /\ \A k \in 0 .. Responses(c) : DownEnd(c)[k] \in 0 .. Len(Down(c))
         /\ DownEnd(c)[0] = 0
         /\ \A j, k \in 0 .. Responses(c) : j < k => DownEnd(c)[j] < DownEnd(c)[k]
         /\ \A k \in 1 .. Responses(c) :
              Frame(c.responses[k]) = Cut(Down(c), DownEnd(c)[k - 1], DownEnd(c)[k])
<1>1. IsSequence(c.responses)
  BY FramingAssumption
<1>2. /\ c.responses \in Seq({c.responses[i] : i \in 1 .. Responses(c)})
      /\ Responses(c) \in Nat
  BY <1>1, LenProperties DEF IsSequence, Responses
<1> DEFINE F == Downlink(c)
<1>3. F = [i \in 1 .. Responses(c) |-> Frame(c.responses[i])]
  BY DEF Downlink, Responses
<1>4. Len(F) = Responses(c)
  BY <1>2, <1>3
<1>5. Laid(F)
  BY DEF CodecFits, Fits
<1> HIDE DEF F
<1>6. /\ Stream(F) \in Seq(0 .. 255) /\ Ends(F) \in [0 .. Len(F) -> 0 .. Len(Stream(F))]
      /\ Ends(F)[0] = 0
      /\ \A j, k \in 0 .. Len(F) : j < k => Ends(F)[j] < Ends(F)[k]
      /\ \A k \in 1 .. Len(F) : F[k] = SubSeq(Stream(F), Ends(F)[k - 1] + 1, Ends(F)[k])
  BY <1>5 DEF Laid
<1>7. Down(c) = Stream(F) /\ DownEnd(c) = Ends(F)
  BY DEF Down, DownEnd, F
<1>8. Len(Stream(F)) \in Nat
  BY <1>6, LenProperties
<1>9. \A k \in 1 .. Responses(c) : F[k] = Frame(c.responses[k])
  BY <1>3
<1> QED
  BY <1>2, <1>4, <1>6, <1>7, <1>8, <1>9 DEF Cut

\* Where frames end, in the order of the frames.
LEMMA DownOrder ==
  ASSUME CodecFits, NEW c \in Conversations,
         NEW j \in 0 .. Responses(c), NEW k \in 0 .. Responses(c), j <= k
  PROVE  DownEnd(c)[j] <= DownEnd(c)[k]
<1>1. /\ DownEnd(c)[j] \in 0 .. Len(Down(c)) /\ DownEnd(c)[k] \in 0 .. Len(Down(c))
      /\ j < k => DownEnd(c)[j] < DownEnd(c)[k]
      /\ Len(Down(c)) \in Nat /\ Responses(c) \in Nat
  BY DownLaid
<1>2. j < k \/ j = k
  BY <1>1
<1> QED
  BY <1>1, <1>2

\* What Response::decode makes of the stream, read from the end of the k-th response to b.
LEMMA DownDecodes ==
  ASSUME CodecFits, NEW c \in Conversations, NEW k \in 0 .. Responses(c), NEW b \in Nat,
         DownEnd(c)[k] <= b, b <= DownEnd(c)[Responses(c)],
         NEW d, d = Decoded(Cut(Down(c), DownEnd(c)[k], b))
  PROVE  \/ /\ k < Responses(c) /\ b >= DownEnd(c)[k + 1]
            /\ d.res = "ok" /\ d.value = c.responses[k + 1]
            /\ d.rest = Cut(Down(c), DownEnd(c)[k + 1], b)
         \/ /\ k = Responses(c) \/ b < DownEnd(c)[k + 1]
            /\ \/ d.res = "incomplete"
               \/ d.res \in {"error", "panic"} /\ DownEnd(c)[k] < b /\ Sliced(c.responses[k + 1])
<1>1. /\ Responses(c) \in Nat /\ Len(Down(c)) \in Nat
      /\ \A i \in 0 .. Responses(c) : DownEnd(c)[i] \in 0 .. Len(Down(c))
  BY DownLaid
<1>2. b \in DownEnd(c)[k] .. DownEnd(c)[Responses(c)]
  BY <1>1
<1>3. DecodesAnyCut(c)
  BY DEF CodecFits, Fits
<1>4. IF k < Responses(c) /\ b >= DownEnd(c)[k + 1]
      THEN /\ d.res = "ok" /\ d.value = c.responses[k + 1]
           /\ d.rest = Cut(Down(c), DownEnd(c)[k + 1], b)
      ELSE \/ d.res = "incomplete"
           \/ d.res \in {"error", "panic"} /\ DownEnd(c)[k] < b /\ Sliced(c.responses[k + 1])
  BY <1>2, <1>3, Zenon DEF DecodesAnyCut, Responses, Down, DownEnd, Cut
<1>5. CASE k < Responses(c) /\ b >= DownEnd(c)[k + 1]
  BY <1>4, <1>5
<1>6. CASE ~(k < Responses(c) /\ b >= DownEnd(c)[k + 1])
  <2>1. k = Responses(c) \/ k + 1 \in 0 .. Responses(c)
    BY <1>1
  <2>2. k = Responses(c) \/ b < DownEnd(c)[k + 1]
    BY <1>1, <1>6, <2>1
  <2> QED
    BY <1>4, <1>6, <2>2
<1> QED
  BY <1>5, <1>6

-----------------------------------------------------------------------------
(* From the broker to the client.                                          *)

\* N responses were written and R yielded; the buffer ends at b and the wire at e.  A
\* reader that waits has no whole response in the buffer, and one that failed with the
\* connection up had before it the beginning of a response with something to slice.
ReadAt(N, R, b, e) ==
    /\ N \in 0 .. Responses(talk) /\ R \in 0 .. N
    /\ DownEnd(talk)[R] <= b /\ b <= e /\ e <= DownEnd(talk)[N]
    /\ sent = Cut(talk.responses, 0, N) /\ received = Cut(talk.responses, 0, R)
    /\ buffer = Cut(Down(talk), DownEnd(talk)[R], b) /\ wire = Cut(Down(talk), b, e)
    /\ up => e = DownEnd(talk)[N]
    /\ reader = "read" => R = Responses(talk) \/ b < DownEnd(talk)[R + 1]
    /\ reader \in {"panicked", "failed"} /\ up => R < N /\ Sliced(talk.responses[R + 1])

\* The inductive invariant of the reading half.
ReadOK ==
    /\ talk \in Conversations
    /\ \E N, R, b, e \in Nat : ReadAt(N, R, b, e)

\* The beginning.
LEMMA ReadInit ==
  ASSUME CodecFits, Init
  PROVE  ReadOK
<1>1. talk \in Conversations
  BY DEF Init
<1>2. PICK c \in Conversations : c = talk
  BY <1>1
<1>3. /\ Responses(c) \in Nat /\ Down(c) \in Seq(0 .. 255) /\ Len(Down(c)) \in Nat
      /\ c.responses \in Seq({c.responses[i] : i \in 1 .. Responses(c)})
      /\ \A k \in 0 .. Responses(c) : DownEnd(c)[k] \in 0 .. Len(Down(c))
      /\ DownEnd(c)[0] = 0
      /\ \A j, k \in 0 .. Responses(c) : j < k => DownEnd(c)[j] < DownEnd(c)[k]
  BY DownLaid
<1>4. 0 \in Nat /\ 0 <= Len(c.responses) /\ 0 <= Len(Down(c))
  BY <1>3 DEF Responses
<1>5. Cut(c.responses, 0, 0) = <<>> /\ Cut(Down(c), 0, 0) = <<>>
  BY <1>3, <1>4, CutEmpty
<1>6. Responses(c) = 0 \/ 0 < DownEnd(c)[0 + 1]
  <2>1. Responses(c) = 0 \/ 1 \in 0 .. Responses(c)
    BY <1>3
  <2> QED
    BY <1>3, <2>1
<1>7. ReadAt(0, 0, 0, 0)
  BY <1>2, <1>3, <1>5, <1>6 DEF Init, ReadAt
<1> QED
  BY <1>1, <1>4, <1>7 DEF ReadOK
\* The places are in the stream, and in order.
Placed(c, N, R, b, e) ==
    /\ Responses(c) \in Nat /\ N <= Responses(c) /\ R <= N
    /\ DownEnd(c)[R] \in Nat /\ DownEnd(c)[N] \in Nat
    /\ DownEnd(c)[R] <= b /\ b <= e /\ e <= DownEnd(c)[N]
    /\ DownEnd(c)[N] <= DownEnd(c)[Responses(c)]
    /\ DownEnd(c)[Responses(c)] \in Nat /\ DownEnd(c)[Responses(c)] <= Len(Down(c))
    /\ Down(c) \in Seq(0 .. 255) /\ Len(Down(c)) \in Nat
    /\ c.responses \in Seq({c.responses[i] : i \in 1 .. Responses(c)})
    /\ Len(c.responses) = Responses(c)

\* The places of a state of the reading half are places of the stream.
LEMMA ReadPlaces ==
  ASSUME CodecFits, ReadOK
  PROVE  \E c \in Conversations, N, R, b, e \in Nat :
            talk = c /\ ReadAt(N, R, b, e) /\ Placed(c, N, R, b, e)
<1>1. PICK c \in Conversations : c = talk
  BY DEF ReadOK
<1>2. PICK N, R, b, e \in Nat : ReadAt(N, R, b, e)
  BY DEF ReadOK
<1>3. /\ Responses(c) \in Nat /\ Down(c) \in Seq(0 .. 255) /\ Len(Down(c)) \in Nat
      /\ c.responses \in Seq({c.responses[i] : i \in 1 .. Responses(c)})
      /\ \A k \in 0 .. Responses(c) : DownEnd(c)[k] \in 0 .. Len(Down(c))
  BY DownLaid
<1>4. /\ N \in 0 .. Responses(c) /\ R \in 0 .. N
      /\ DownEnd(c)[R] <= b /\ b <= e /\ e <= DownEnd(c)[N]
  BY <1>1, <1>2 DEF ReadAt
<1>5. R \in 0 .. Responses(c) /\ Responses(c) \in 0 .. Responses(c) /\ N <= Responses(c)
  BY <1>3, <1>4
<1>6. DownEnd(c)[N] <= DownEnd(c)[Responses(c)]
  BY <1>4, <1>5, DownOrder
<1>7. /\ DownEnd(c)[R] \in Nat /\ DownEnd(c)[N] \in Nat /\ DownEnd(c)[Responses(c)] \in Nat
      /\ DownEnd(c)[Responses(c)] <= Len(Down(c))
  BY <1>3, <1>4, <1>5
<1>8. Len(c.responses) = Responses(c)
  BY DEF Responses
<1>9. talk = c /\ R <= N /\ N <= Responses(c)
  BY <1>1, <1>4, <1>5
<1>10. Placed(c, N, R, b, e)
  BY <1>3, <1>4, <1>6, <1>7, <1>8, <1>9 DEF Placed
<1> QED
  BY <1>2, <1>9, <1>10

\* The broker writes the next frame at the end of the wire.
LEMMA ReadBrokerSend ==
  ASSUME CodecFits, ReadOK, BrokerSend
  PROVE  ReadOK'
<1>0. PICK c \in Conversations, N, R, b, e \in Nat :
            talk = c /\ ReadAt(N, R, b, e) /\ Placed(c, N, R, b, e)
  BY ReadPlaces
<1>1. /\ talk = c /\ ReadAt(N, R, b, e)
      /\ Responses(c) \in Nat /\ N <= Responses(c) /\ R <= N
      /\ DownEnd(c)[R] \in Nat /\ DownEnd(c)[N] \in Nat
      /\ DownEnd(c)[R] <= b /\ b <= e /\ e <= DownEnd(c)[N]
      /\ DownEnd(c)[N] <= DownEnd(c)[Responses(c)]
      /\ DownEnd(c)[Responses(c)] \in Nat /\ DownEnd(c)[Responses(c)] <= Len(Down(c))
      /\ Down(c) \in Seq(0 .. 255) /\ Len(Down(c)) \in Nat
      /\ c.responses \in Seq({c.responses[i] : i \in 1 .. Responses(c)})
      /\ Len(c.responses) = Responses(c)
  BY <1>0 DEF Placed
<1>2. /\ sent = Cut(c.responses, 0, N) /\ received = Cut(c.responses, 0, R)
      /\ buffer = Cut(Down(c), DownEnd(c)[R], b) /\ wire = Cut(Down(c), b, e)
      /\ up => e = DownEnd(c)[N]
      /\ reader = "read" => R = Responses(c) \/ b < DownEnd(c)[R + 1]
      /\ reader \in {"panicked", "failed"} /\ up => R < N /\ Sliced(c.responses[R + 1])
  BY <1>1 DEF ReadAt
<1>3. Len(sent) = N
  BY <1>1, <1>2, CutFirst
<1>4. /\ up /\ N < Responses(c) /\ e = DownEnd(c)[N]
      /\ sent' = SubSeq(c.responses, 1, N + 1)
      /\ wire' = wire \o Frame(c.responses[N + 1])
      /\ UNCHANGED <<buffer, reader, received, talk, up>>
  BY <1>1, <1>2, <1>3 DEF BrokerSend
<1>5. sent' = Cut(c.responses, 0, N + 1)
  BY <1>4 DEF Cut
<1>6. N + 1 \in 0 .. Responses(c) /\ N + 1 \in 1 .. Responses(c) /\ (N + 1) - 1 = N
  BY <1>1, <1>4
<1> DEFINE f == DownEnd(c)[N + 1]
<1>7. Frame(c.responses[N + 1]) = Cut(Down(c), e, f)
  BY <1>4, <1>6, DownLaid
<1>8. f \in Nat /\ f <= Len(Down(c))
  <2>1. f \in 0 .. Len(Down(c))
    BY <1>6, DownLaid
  <2> QED
    BY <1>1, <2>1
<1>9. e <= f
  BY <1>1, <1>4, <1>6, DownOrder
<1> HIDE DEF f
<1>10. wire' = Cut(Down(c), b, f)
  <2>1. Cut(Down(c), b, e) \o Cut(Down(c), e, f) = Cut(Down(c), b, f)
    <3>1. b <= e /\ Down(c) \in Seq(0 .. 255)
      BY <1>1
    <3> QED
      BY <3>1, <1>8, <1>9, CutJoin
  <2> QED
    BY <1>2, <1>4, <1>7, <2>1
<1>11. b <= f /\ R \in 0 .. N + 1 /\ N + 1 \in Nat
  BY <1>1, <1>8, <1>9
<1>12. ReadAt(N + 1, R, b, f)'
  <2>1. talk' = c /\ up' = up /\ reader' = reader /\ received' = received /\ buffer' = buffer
    BY <1>1, <1>4
  <2>2. /\ sent' = Cut(c.responses, 0, N + 1) /\ received' = Cut(c.responses, 0, R)
        /\ buffer' = Cut(Down(c), DownEnd(c)[R], b) /\ wire' = Cut(Down(c), b, f)
    BY <1>2, <1>5, <1>10, <2>1
  <2>3. f = DownEnd(c)[N + 1] /\ f <= DownEnd(c)[N + 1]
    BY <1>8 DEF f
  <2>4. /\ reader' = "read" => R = Responses(c) \/ b < DownEnd(c)[R + 1]
        /\ reader' \in {"panicked", "failed"} /\ up' => R < N + 1 /\ Sliced(c.responses[R + 1])
    BY <1>1, <1>2, <2>1
  <2> QED
    BY <1>1, <1>6, <1>11, <2>1, <2>2, <2>3, <2>4 DEF ReadAt
<1> QED
  BY <1>1, <1>4, <1>8, <1>11, <1>12 DEF ReadOK

\* A read moves bytes from the wire to the buffer, the place between the two.
LEMMA ReadRead ==
  ASSUME CodecFits, ReadOK, NEW n \in 1 .. Len(wire), Read(n)
  PROVE  ReadOK'
<1>0. PICK c \in Conversations, N, R, b, e \in Nat :
            talk = c /\ ReadAt(N, R, b, e) /\ Placed(c, N, R, b, e)
  BY ReadPlaces
<1>1. /\ talk = c /\ ReadAt(N, R, b, e)
      /\ Responses(c) \in Nat /\ N <= Responses(c) /\ R <= N
      /\ DownEnd(c)[R] \in Nat /\ DownEnd(c)[N] \in Nat
      /\ DownEnd(c)[R] <= b /\ b <= e /\ e <= DownEnd(c)[N]
      /\ DownEnd(c)[N] <= DownEnd(c)[Responses(c)]
      /\ DownEnd(c)[Responses(c)] \in Nat /\ DownEnd(c)[Responses(c)] <= Len(Down(c))
      /\ Down(c) \in Seq(0 .. 255) /\ Len(Down(c)) \in Nat
      /\ c.responses \in Seq({c.responses[i] : i \in 1 .. Responses(c)})
      /\ Len(c.responses) = Responses(c)
  BY <1>0 DEF Placed
<1>2. /\ sent = Cut(c.responses, 0, N) /\ received = Cut(c.responses, 0, R)
      /\ buffer = Cut(Down(c), DownEnd(c)[R], b) /\ wire = Cut(Down(c), b, e)
      /\ up => e = DownEnd(c)[N]
  BY <1>1 DEF ReadAt
<1>3. e <= Len(Down(c)) /\ b <= Len(Down(c))
  BY <1>1
<1>4. Len(wire) = e - b
  <2>1. b <= e /\ Down(c) \in Seq(0 .. 255)
    BY <1>1
  <2>2. Len(Cut(Down(c), b, e)) = e - b
    BY <1>3, <2>1, CutIs
  <2> QED
    BY <1>2, <2>2
<1>5. n \in 0 .. e - b /\ b + n \in Nat /\ b + n <= e /\ b <= b + n /\ b + n <= Len(Down(c))
  BY <1>1, <1>3, <1>4
<1>6. /\ SubSeq(wire, 1, n) = Cut(Down(c), b, b + n)
      /\ SubSeq(wire, n + 1, Len(wire)) = Cut(Down(c), b + n, e)
  <2>1. b <= e /\ Down(c) \in Seq(0 .. 255)
    BY <1>1
  <2>2. /\ SubSeq(Cut(Down(c), b, e), 1, n) = Cut(Down(c), b, b + n)
        /\ SubSeq(Cut(Down(c), b, e), n + 1, e - b) = Cut(Down(c), b + n, e)
    <3>1. e <= Len(Down(c)) /\ n \in 0 .. e - b
      BY <1>3, <1>5
    <3>2. SubSeq(Cut(Down(c), b, e), 1, n) = Cut(Down(c), b, b + n)
      BY <2>1, <3>1, CutHead
    <3>3. SubSeq(Cut(Down(c), b, e), n + 1, e - b) = Cut(Down(c), b + n, e)
      BY <2>1, <3>1, CutRest
    <3> QED
      BY <3>2, <3>3
  <2> QED
    BY <1>2, <1>4, <2>2
<1>8. Cut(Down(c), DownEnd(c)[R], b) \o Cut(Down(c), b, b + n) = Cut(Down(c), DownEnd(c)[R], b + n)
  <2>1. PICK a \in Nat, m \in Nat : a = DownEnd(c)[R] /\ m = b + n
    BY <1>1, <1>5
  <2>2. a <= b /\ b <= m /\ m <= Len(Down(c)) /\ Down(c) \in Seq(0 .. 255)
    BY <1>1, <1>5, <2>1
  <2>3. Cut(Down(c), a, b) \o Cut(Down(c), b, m) = Cut(Down(c), a, m)
    BY <2>2, CutJoin
  <2> QED
    BY <2>1, <2>3
<1>9. /\ talk' = c /\ up' = up /\ reader' = "decode" /\ received' = received /\ sent' = sent
      /\ buffer' = Cut(Down(c), DownEnd(c)[R], b + n) /\ wire' = Cut(Down(c), b + n, e)
  BY <1>1, <1>2, <1>6, <1>8 DEF Read
<1>10. DownEnd(c)[R] <= b + n /\ N \in 0 .. Responses(c) /\ R \in 0 .. N
  BY <1>1, <1>5
<1>11. ReadAt(N, R, b + n, e)'
  BY <1>1, <1>2, <1>5, <1>9, <1>10 DEF ReadAt
<1> QED
  BY <1>1, <1>5, <1>9, <1>11 DEF ReadOK

\* A decoded response ends where its frame does.
LEMMA ReadDecodeFrame ==
  ASSUME CodecFits, ReadOK, DecodeFrame
  PROVE  ReadOK'
<1>0. PICK c \in Conversations, N, R, b, e \in Nat :
            talk = c /\ ReadAt(N, R, b, e) /\ Placed(c, N, R, b, e)
  BY ReadPlaces
<1>1. /\ talk = c /\ ReadAt(N, R, b, e)
      /\ Responses(c) \in Nat /\ N <= Responses(c) /\ R <= N
      /\ DownEnd(c)[R] \in Nat /\ DownEnd(c)[N] \in Nat
      /\ DownEnd(c)[R] <= b /\ b <= e /\ e <= DownEnd(c)[N]
      /\ DownEnd(c)[N] <= DownEnd(c)[Responses(c)]
      /\ DownEnd(c)[Responses(c)] \in Nat /\ DownEnd(c)[Responses(c)] <= Len(Down(c))
      /\ Down(c) \in Seq(0 .. 255) /\ Len(Down(c)) \in Nat
      /\ c.responses \in Seq({c.responses[i] : i \in 1 .. Responses(c)})
      /\ Len(c.responses) = Responses(c)
  BY <1>0 DEF Placed
<1>2. /\ sent = Cut(c.responses, 0, N) /\ received = Cut(c.responses, 0, R)
      /\ buffer = Cut(Down(c), DownEnd(c)[R], b) /\ wire = Cut(Down(c), b, e)
      /\ up => e = DownEnd(c)[N]
  BY <1>1 DEF ReadAt
<1>3. R \in 0 .. Responses(c) /\ b <= DownEnd(c)[Responses(c)]
  BY <1>1
<1>4. PICK d : d = Decoded(Cut(Down(c), DownEnd(c)[R], b))
  OBVIOUS
<1>5. /\ d.res = "ok" /\ received' = Append(received, d.value) /\ buffer' = d.rest
      /\ reader = "decode" /\ UNCHANGED <<sent, wire, reader, talk, up>>
  BY <1>2, <1>4 DEF DecodeFrame
<1>6. \/ /\ R < Responses(c) /\ b >= DownEnd(c)[R + 1]
         /\ d.res = "ok" /\ d.value = c.responses[R + 1]
         /\ d.rest = Cut(Down(c), DownEnd(c)[R + 1], b)
      \/ d.res \in {"incomplete", "error", "panic"}
  BY <1>1, <1>3, <1>4, DownDecodes, ZenonT(60)
<1>7. /\ R < Responses(c) /\ b >= DownEnd(c)[R + 1]
      /\ d.value = c.responses[R + 1] /\ d.rest = Cut(Down(c), DownEnd(c)[R + 1], b)
  BY <1>5, <1>6
<1>8. received' = Cut(c.responses, 0, R + 1)
  BY <1>1, <1>2, <1>5, <1>7, CutNext
<1>9. R + 1 <= N
  <2>1. SUFFICES ASSUME R = N PROVE FALSE
    BY <1>1
  <2>2. N \in 0 .. Responses(c) /\ N + 1 \in 0 .. Responses(c) /\ N < N + 1
    BY <1>1, <1>7, <2>1
  <2>3. DownEnd(c)[N] < DownEnd(c)[N + 1] /\ DownEnd(c)[N + 1] \in 0 .. Len(Down(c))
    BY <2>2, DownLaid
  <2> QED
    BY <1>1, <1>7, <2>1, <2>3
<1>10. /\ talk' = c /\ up' = up /\ reader' = "decode" /\ sent' = sent /\ wire' = wire
       /\ buffer' = Cut(Down(c), DownEnd(c)[R + 1], b)
  BY <1>1, <1>5, <1>7
<1>11. N \in 0 .. Responses(c) /\ R + 1 \in 0 .. N /\ R + 1 \in 0 .. Responses(c) /\ R + 1 \in Nat
  BY <1>1, <1>9
<1>12. DownEnd(c)[R + 1] <= b
  <2>1. DownEnd(c)[R + 1] \in 0 .. Len(Down(c))
    BY <1>11, DownLaid
  <2> QED
    BY <1>7, <2>1
<1>13. ReadAt(N, R + 1, b, e)'
  BY <1>1, <1>2, <1>8, <1>10, <1>11, <1>12 DEF ReadAt
<1> QED
  BY <1>1, <1>10, <1>11, <1>13 DEF ReadOK
\* A reader that is told to wait has no whole response before it.
LEMMA ReadDecodeNone ==
  ASSUME CodecFits, ReadOK, DecodeNone
  PROVE  ReadOK'
<1>0. PICK c \in Conversations, N, R, b, e \in Nat :
            talk = c /\ ReadAt(N, R, b, e) /\ Placed(c, N, R, b, e)
  BY ReadPlaces
<1>1. /\ Responses(c) \in Nat /\ N <= Responses(c) /\ R <= N
      /\ DownEnd(c)[R] \in Nat /\ DownEnd(c)[N] \in Nat
      /\ DownEnd(c)[R] <= b /\ b <= e /\ e <= DownEnd(c)[N]
      /\ DownEnd(c)[N] <= DownEnd(c)[Responses(c)]
      /\ DownEnd(c)[Responses(c)] \in Nat
  BY <1>0 DEF Placed
<1>2. buffer = Cut(Down(c), DownEnd(c)[R], b)
  BY <1>0 DEF ReadAt
<1>3. R \in 0 .. Responses(c) /\ b <= DownEnd(c)[Responses(c)]
  BY <1>1
<1>4. PICK d : d = Decoded(Cut(Down(c), DownEnd(c)[R], b))
  OBVIOUS
<1>5. d.res = "incomplete" /\ reader' = "read" /\ UNCHANGED <<sent, wire, buffer, received, talk, up>>
  BY <1>2, <1>4 DEF DecodeNone
<1>6. d.res = "ok" \/ R = Responses(c) \/ b < DownEnd(c)[R + 1]
  BY <1>1, <1>3, <1>4, DownDecodes
<1>7. R = Responses(c) \/ b < DownEnd(c)[R + 1]
  BY <1>5, <1>6
<1>8. ReadAt(N, R, b, e)'
  BY <1>0, <1>5, <1>7 DEF ReadAt
<1> QED
  BY <1>0, <1>5, <1>8 DEF ReadOK

\* A reader that fails has the beginning of a response before it, and that one is sliced.
LEMMA ReadDecodeFails ==
  ASSUME CodecFits, ReadOK, DecodeFails
  PROVE  ReadOK'
<1>0. PICK c \in Conversations, N, R, b, e \in Nat :
            talk = c /\ ReadAt(N, R, b, e) /\ Placed(c, N, R, b, e)
  BY ReadPlaces
<1>1. /\ Responses(c) \in Nat /\ N <= Responses(c) /\ R <= N
      /\ DownEnd(c)[R] \in Nat /\ DownEnd(c)[N] \in Nat
      /\ DownEnd(c)[R] <= b /\ b <= e /\ e <= DownEnd(c)[N]
      /\ DownEnd(c)[N] <= DownEnd(c)[Responses(c)]
      /\ DownEnd(c)[Responses(c)] \in Nat
  BY <1>0 DEF Placed
<1>2. buffer = Cut(Down(c), DownEnd(c)[R], b)
  BY <1>0 DEF ReadAt
<1>3. R \in 0 .. Responses(c) /\ b <= DownEnd(c)[Responses(c)]
  BY <1>1
<1>4. PICK d : d = Decoded(Cut(Down(c), DownEnd(c)[R], b))
  OBVIOUS
<1>5. /\ d.res \in {"error", "panic"} /\ reader' \in {"panicked", "failed"}
      /\ UNCHANGED <<sent, wire, buffer, received, talk, up>>
  BY <1>2, <1>4 DEF DecodeFails
<1>6. d.res \in {"ok", "incomplete"} \/ (DownEnd(c)[R] < b /\ Sliced(c.responses[R + 1]))
  BY <1>1, <1>3, <1>4, DownDecodes
<1>7. DownEnd(c)[R] < b /\ Sliced(c.responses[R + 1])
  BY <1>5, <1>6
<1>8. R < N
  BY <1>1, <1>7
<1>9. ReadAt(N, R, b, e)'
  BY <1>0, <1>5, <1>7, <1>8 DEF ReadAt
<1> QED
  BY <1>0, <1>5, <1>9 DEF ReadOK

\* A connection that breaks takes the end of the wire with it.
LEMMA ReadDisconnect ==
  ASSUME CodecFits, ReadOK, Disconnect
  PROVE  ReadOK'
<1>0. PICK c \in Conversations, N, R, b, e \in Nat :
            talk = c /\ ReadAt(N, R, b, e) /\ Placed(c, N, R, b, e)
  BY ReadPlaces
<1>1. /\ DownEnd(c)[N] \in Nat /\ b <= e /\ e <= DownEnd(c)[N] /\ Len(Down(c)) \in Nat
      /\ DownEnd(c)[N] <= DownEnd(c)[Responses(c)]
      /\ DownEnd(c)[Responses(c)] \in Nat /\ DownEnd(c)[Responses(c)] <= Len(Down(c))
      /\ Down(c) \in Seq(0 .. 255)
  BY <1>0 DEF Placed
<1>2. wire = Cut(Down(c), b, e) /\ e <= Len(Down(c))
  BY <1>0, <1>1 DEF ReadAt
<1>3. Len(Cut(Down(c), b, e)) = e - b
  <2>1. b <= e /\ e <= Len(Down(c)) /\ Down(c) \in Seq(0 .. 255)
    BY <1>1, <1>2
  <2> QED
    BY <2>1, CutIs
<1>4. PICK n \in 0 .. e - b : wire' = SubSeq(Cut(Down(c), b, e), 1, n)
  BY <1>2, <1>3 DEF Disconnect
<1>5. SubSeq(Cut(Down(c), b, e), 1, n) = Cut(Down(c), b, b + n)
  <2>1. b <= e /\ e <= Len(Down(c)) /\ Down(c) \in Seq(0 .. 255)
    BY <1>1, <1>2
  <2> QED
    BY <2>1, CutHead
<1>6. /\ up' = FALSE /\ UNCHANGED <<sent, buffer, reader, received, talk>>
      /\ wire' = Cut(Down(c), b, b + n)
  BY <1>4, <1>5 DEF Disconnect
<1>7. b + n \in Nat /\ b <= b + n /\ b + n <= DownEnd(c)[N]
  BY <1>1
<1>8. ReadAt(N, R, b, b + n)'
  BY <1>0, <1>6, <1>7 DEF ReadAt
<1> QED
  BY <1>0, <1>6, <1>7, <1>8 DEF ReadOK

\* Every step keeps the invariant of the reading half.
LEMMA ReadNext ==
  ASSUME CodecFits, ReadOK, [Next]_vars
  PROVE  ReadOK'
<1>1. CASE BrokerSend
  BY <1>1, ReadBrokerSend
<1>2. ASSUME NEW n \in 1 .. Len(wire), Read(n) PROVE ReadOK'
  BY <1>2, ReadRead
<1>3. CASE DecodeFrame
  BY <1>3, ReadDecodeFrame
<1>4. CASE DecodeNone
  BY <1>4, ReadDecodeNone
<1>5. CASE DecodeFails
  BY <1>5, ReadDecodeFails
<1>6. CASE Disconnect
  BY <1>6, ReadDisconnect
<1>7. CASE ReadEof
  <2>1. PICK N, R, b, e \in Nat : ReadAt(N, R, b, e)
    BY DEF ReadOK
  <2>2. /\ ~up /\ reader' \in {"ended", "failed"}
        /\ UNCHANGED <<sent, wire, buffer, received, talk, up>>
    BY <1>7 DEF ReadEof
  <2>3. ReadAt(N, R, b, e)'
    BY <2>1, <2>2 DEF ReadAt
  <2> QED
    BY <2>1, <2>2, <2>3 DEF ReadOK
<1>8. CASE ClientSend \/ BrokerTake \/ UNCHANGED vars
  <2>1. UNCHANGED <<reading, talk, up>>
    BY <1>8 DEF ClientSend, BrokerTake, vars, reading
  <2>2. UNCHANGED <<sent, wire, buffer, reader, received, talk, up>>
    BY <2>1 DEF reading
  <2>3. PICK N, R, b, e \in Nat : ReadAt(N, R, b, e)
    BY DEF ReadOK
  <2>4. ReadAt(N, R, b, e)'
    BY <2>2, <2>3 DEF ReadAt
  <2> QED
    BY <2>2, <2>3, <2>4 DEF ReadOK
<1> QED
  BY <1>1, <1>2, <1>3, <1>4, <1>5, <1>6, <1>7, <1>8 DEF Next

\* What the invariant says of the responses received.
LEMMA ReadMeans ==
  ASSUME CodecFits, ReadOK
  PROVE  ReceivedIsSent
<1>0. PICK c \in Conversations, N, R, b, e \in Nat :
            talk = c /\ ReadAt(N, R, b, e) /\ Placed(c, N, R, b, e)
  BY ReadPlaces
<1>1. /\ Responses(c) \in Nat /\ N <= Responses(c) /\ R <= N
      /\ DownEnd(c)[R] \in Nat /\ DownEnd(c)[N] \in Nat
      /\ DownEnd(c)[R] <= b /\ b <= e /\ e <= DownEnd(c)[N]
      /\ DownEnd(c)[N] <= DownEnd(c)[Responses(c)]
      /\ DownEnd(c)[Responses(c)] \in Nat /\ DownEnd(c)[Responses(c)] <= Len(Down(c))
      /\ Down(c) \in Seq(0 .. 255) /\ Len(Down(c)) \in Nat
      /\ c.responses \in Seq({c.responses[i] : i \in 1 .. Responses(c)})
      /\ Len(c.responses) = Responses(c)
  BY <1>0 DEF Placed
<1>2. /\ sent = Cut(c.responses, 0, N) /\ received = Cut(c.responses, 0, R)
      /\ buffer = Cut(Down(c), DownEnd(c)[R], b) /\ wire = Cut(Down(c), b, e)
      /\ up => e = DownEnd(c)[N]
      /\ reader = "read" => R = Responses(c) \/ b < DownEnd(c)[R + 1]
      /\ reader \in {"panicked", "failed"} /\ up => R < N /\ Sliced(c.responses[R + 1])
  BY <1>0 DEF ReadAt
<1>3. Prefix(received, sent)
  BY <1>1, <1>2, CutPrefix
<1>4. ASSUME reader = "read", up, wire = <<>> PROVE received = sent /\ buffer = <<>>
  <2>1. e <= Len(Down(c))
    BY <1>1
  <2>2. b = e
    <3>1. Cut(Down(c), b, e) = <<>> /\ b <= e /\ Down(c) \in Seq(0 .. 255)
      BY <1>1, <1>2, <1>4
    <3> QED
      BY <2>1, <3>1, CutIsEmpty
  <2>3. b = DownEnd(c)[N]
    BY <1>2, <1>4, <2>2
  <2>4. R = N
    <3>1. SUFFICES ASSUME R < N PROVE FALSE
      BY <1>1
    <3>2. R + 1 \in 0 .. Responses(c) /\ N \in 0 .. Responses(c) /\ R + 1 <= N /\ R # Responses(c)
      BY <1>1, <3>1
    <3>3. DownEnd(c)[R + 1] <= DownEnd(c)[N]
      BY <3>2, DownOrder
    <3>4. b < DownEnd(c)[R + 1] /\ DownEnd(c)[R + 1] \in 0 .. Len(Down(c))
      BY <1>2, <1>4, <3>2, DownLaid
    <3> QED
      BY <1>1, <2>3, <3>3, <3>4
  <2>5. Cut(Down(c), b, b) = <<>>
    <3>1. b <= Len(Down(c)) /\ Down(c) \in Seq(0 .. 255)
      BY <1>1
    <3> QED
      BY <3>1, CutEmpty
  <2> QED
    BY <1>2, <2>3, <2>4, <2>5
<1>5. ASSUME reader \in {"panicked", "failed"}, up PROVE Sliced(sent[Len(received) + 1])
  <2>1. R < N /\ Sliced(c.responses[R + 1])
    BY <1>2, <1>5
  <2>2. R <= Len(c.responses) /\ N <= Len(c.responses)
    BY <1>1
  <2>3. Len(received) = R
    BY <1>1, <1>2, <2>2, CutFirst
  <2>4. \A i \in 1 .. N : sent[i] = c.responses[i]
    BY <1>1, <1>2, <2>2, CutFirst, ZenonT(60)
  <2>5. R + 1 \in 1 .. N
    BY <2>1
  <2> QED
    BY <2>1, <2>3, <2>4, <2>5
<1> QED
  BY <1>3, <1>4, <1>5 DEF ReceivedIsSent

\* With a codec that fits, RabbitMqStreamCodec::decode in Framed yields the broker's
\* responses, whatever they are and wherever the socket cuts the stream: in their order,
\* each once and unchanged; a reader that waits holds nothing back; and none fails with the
\* connection up but in a string or a byte array.
THEOREM ResponsesArrive ==
  ASSUME CodecFits
  PROVE  Spec => []ReceivedIsSent
<1>1. Init => ReadOK
  BY ReadInit
<1>2. ReadOK /\ [Next]_vars => ReadOK'
  BY ReadNext
<1>3. ReadOK => ReceivedIsSent
  BY ReadMeans
<1> QED
  BY <1>1, <1>2, <1>3, PTL DEF Spec
-----------------------------------------------------------------------------
(* The stream of the client's frames.                                      *)

Up(c)    == Stream(Uplink(c))
UpEnd(c) == Ends(Uplink(c))

\* A set of numbers that is not empty has a least one.
LEMMA Least ==
  ASSUME NEW T, T \subseteq Nat, T # {}
  PROVE  \E m \in T : \A k \in T : m <= k
<1> DEFINE R == {p \in Nat \X Nat : p[1] < p[2]}
<1>1. IsWellFoundedOn(R, Nat)
  BY NatLessThanWellFounded, Zenon DEF OpToRel
<1> HIDE DEF R
<1>2. PICK m \in T : \A k \in T : ~(<<k, m>> \in R)
  BY <1>1, WFMin
<1>3. ASSUME NEW k \in T PROVE m <= k
  <2>1. <<k, m>> \in Nat \X Nat
    OBVIOUS
  <2>2. ~(k < m)
    BY <1>2, <2>1 DEF R
  <2> QED
    BY <2>2
<1> QED
  BY <1>3

\* All requests before the first refused one are encoded.
LEMMA UpAccepted ==
  ASSUME NEW c \in Conversations
  PROVE  /\ Len(c.requests) \in Nat /\ Accepted(c) \in Nat /\ Accepted(c) <= Len(c.requests)
         /\ c.requests \in Seq({c.requests[i] : i \in 1 .. Len(c.requests)})
         /\ \A k \in 1 .. Accepted(c) : Encoded(c.requests[k]).ok
         /\ Accepted(c) < Len(c.requests) => ~Encoded(c.requests[Accepted(c) + 1]).ok
<1>1. IsSequence(c.requests)
  BY FramingAssumption
<1>2. c.requests \in Seq({c.requests[i] : i \in 1 .. Len(c.requests)}) /\ Len(c.requests) \in Nat
  BY <1>1, LenProperties DEF IsSequence
<1> DEFINE P(n) == /\ \A k \in 1 .. n : Encoded(c.requests[k]).ok
                   /\ n < Len(c.requests) => ~Encoded(c.requests[n + 1]).ok
           T == {k \in 1 .. Len(c.requests) : ~Encoded(c.requests[k]).ok}
<1>3. \E n \in 0 .. Len(c.requests) : P(n)
  <2>1. CASE T = {}
    <3>1. P(Len(c.requests))
      BY <1>2, <2>1
    <3>2. Len(c.requests) \in 0 .. Len(c.requests)
      BY <1>2
    <3> HIDE DEF P, T
    <3> QED
      BY <3>1, <3>2, Zenon
  <2>2. CASE T # {}
    <3>1. T \subseteq Nat
      BY <1>2
    <3>2. PICK m \in T : \A k \in T : m <= k
      <4> HIDE DEF T
      <4> QED
        BY <2>2, <3>1, Least
    <3>3. m \in 1 .. Len(c.requests) /\ m - 1 \in 0 .. Len(c.requests) /\ (m - 1) + 1 = m
      BY <1>2
    <3>4. P(m - 1)
      BY <1>2, <3>2, <3>3, SMTT(30)
    <3> HIDE DEF P, T
    <3> QED
      BY <3>3, <3>4, Zenon
  <2> QED
    BY <2>1, <2>2, Zenon
<1>4. Accepted(c) = CHOOSE n \in 0 .. Len(c.requests) : P(n)
  BY DEF Accepted
<1> HIDE DEF P, T
<1>5. Accepted(c) \in 0 .. Len(c.requests) /\ P(Accepted(c))
  BY <1>3, <1>4
<1> QED
  BY <1>2, <1>5, SMTT(30) DEF P

\* A codec that fits lays the bytes of the requests one behind the other.
LEMMA UpLaid ==
  ASSUME CodecFits, NEW c \in Conversations
  PROVE  /\ Up(c) \in Seq(0 .. 255)
         /\ Len(Up(c)) \in Nat
         /\ \A k \in 0 .. Len(c.requests) : UpEnd(c)[k] \in 0 .. Len(Up(c))
         /\ UpEnd(c)[0] = 0
         /\ \A j, k \in 0 .. Len(c.requests) : j < k => UpEnd(c)[j] < UpEnd(c)[k]
         /\ \A k \in 1 .. Len(c.requests) :
              Encoded(c.requests[k]).bytes = Cut(Up(c), UpEnd(c)[k - 1], UpEnd(c)[k])
<1> DEFINE F == Uplink(c)
<1>1. Len(c.requests) \in Nat
  BY UpAccepted
<1>2. F = [i \in 1 .. Len(c.requests) |-> Encoded(c.requests[i]).bytes]
  BY DEF Uplink
<1>3. Len(F) = Len(c.requests)
  BY <1>1, <1>2
<1>4. Laid(F)
  BY DEF CodecFits, Fits
<1> HIDE DEF F
<1>5. /\ Stream(F) \in Seq(0 .. 255) /\ Ends(F) \in [0 .. Len(F) -> 0 .. Len(Stream(F))]
      /\ Ends(F)[0] = 0
      /\ \A j, k \in 0 .. Len(F) : j < k => Ends(F)[j] < Ends(F)[k]
      /\ \A k \in 1 .. Len(F) : F[k] = SubSeq(Stream(F), Ends(F)[k - 1] + 1, Ends(F)[k])
  BY <1>4 DEF Laid
<1>6. Up(c) = Stream(F) /\ UpEnd(c) = Ends(F)
  BY DEF Up, UpEnd, F
<1>7. Len(Stream(F)) \in Nat
  BY <1>5, LenProperties
<1>8. \A k \in 1 .. Len(c.requests) : F[k] = Encoded(c.requests[k]).bytes
  BY <1>2
<1> QED
  BY <1>3, <1>5, <1>6, <1>7, <1>8 DEF Cut

\* Where the bytes of requests end, in the order of the requests.
LEMMA UpOrder ==
  ASSUME CodecFits, NEW c \in Conversations,
         NEW j \in 0 .. Len(c.requests), NEW k \in 0 .. Len(c.requests), j <= k
  PROVE  /\ UpEnd(c)[j] \in Nat /\ UpEnd(c)[k] \in Nat
         /\ UpEnd(c)[j] <= UpEnd(c)[k] /\ UpEnd(c)[k] <= Len(Up(c))
<1>1. /\ UpEnd(c)[j] \in 0 .. Len(Up(c)) /\ UpEnd(c)[k] \in 0 .. Len(Up(c))
      /\ j < k => UpEnd(c)[j] < UpEnd(c)[k]
      /\ Len(Up(c)) \in Nat
  BY UpLaid
<1>2. Len(c.requests) \in Nat
  BY UpAccepted
<1>3. j < k \/ j = k
  BY <1>2
<1> QED
  BY <1>1, <1>3

\* The broker finds the first frame by its length, and the request in it.
LEMMA UpMeans ==
  ASSUME CodecFits, NEW c \in Conversations
  PROVE  /\ FirstFrame(<<>>) = 0
         /\ \A j \in 0 .. Accepted(c) - 1 :
              /\ \A k \in j + 1 .. Len(c.requests) :
                    FirstFrame(Cut(Up(c), UpEnd(c)[j], UpEnd(c)[k])) = UpEnd(c)[j + 1] - UpEnd(c)[j]
              /\ Understood(Cut(Up(c), UpEnd(c)[j], UpEnd(c)[j + 1])) = c.requests[j + 1]
<1>1. UnderstoodAnywhere(c)
  BY DEF CodecFits, Fits
<1> QED
  BY <1>1, Zenon DEF UnderstoodAnywhere, Up, UpEnd, Cut

\* What is appended does not disturb the first elements.
LEMMA AppendKeeps ==
  ASSUME NEW S, NEW s \in Seq(S), NEW x \in S, NEW k \in Nat, k <= Len(s)
  PROVE  /\ Append(s, x) \in Seq(S) /\ Len(Append(s, x)) = Len(s) + 1
         /\ Cut(Append(s, x), 0, k) = Cut(s, 0, k)
<1> DEFINE t == Append(s, x)
           u == Cut(s, 0, k)
           w == Cut(t, 0, k)
<1>1. /\ t \in Seq(S) /\ Len(t) = Len(s) + 1 /\ \A i \in 1 .. Len(s) : t[i] = s[i]
      /\ Len(s) \in Nat
  BY AppendProperties, LenProperties
<1>2. u \in Seq(S) /\ Len(u) = k /\ \A i \in 1 .. k : u[i] = s[i]
  BY CutFirst
<1> HIDE DEF t
<1>3. k <= Len(t)
  BY <1>1
<1>4. w \in Seq(S) /\ Len(w) = k /\ \A i \in 1 .. k : w[i] = t[i]
  BY <1>1, <1>3, CutFirst
<1> HIDE DEF u, w
<1>5. \A i \in 1 .. k : w[i] = u[i]
  BY <1>1, <1>2, <1>4, SMTT(30)
<1>6. w = u
  BY <1>2, <1>4, <1>5, SeqEqual
<1> QED
  BY <1>1, <1>6 DEF t, u, w

-----------------------------------------------------------------------------
(* From the client to the broker.                                          *)

\* The requests of the conversation are elements of this set.
Asked(c) == {c.requests[i] : i \in 1 .. Len(c.requests)}

\* The bytes of the first F requests were flushed and those of the others that were sent
\* are in the write buffer: none as long as nothing is refused.
FlushedTo(c, F) ==
    /\ calls \in 0 .. Len(c.requests) /\ F \in 0 .. calls
    /\ IF calls <= Accepted(c) THEN F = calls ELSE F >= Accepted(c)
    /\ outbox = Cut(Up(c), UpEnd(c)[F], UpEnd(c)[calls])

\* The requests sent with Ok: the first F, or more than were sent before the refused one.
RequestedTo(c, F) ==
    /\ requested \in Seq(Asked(c))
    /\ IF F <= Accepted(c)
       THEN requested = Cut(c.requests, 0, F)
       ELSE /\ Len(requested) > Accepted(c)
            /\ Cut(requested, 0, Accepted(c)) = Cut(c.requests, 0, Accepted(c))

\* U requests were understood and the bytes behind them are on their way.
Aligned(c, F, U) ==
    /\ U \in 0 .. F /\ U <= Accepted(c)
    /\ understood = Cut(c.requests, 0, U)
    /\ uplink = Cut(Up(c), UpEnd(c)[U], UpEnd(c)[F])

\* The broker has come to the bytes of the refused request.
Lost(c, F) ==
    /\ F > Accepted(c)
    /\ \E S : understood \in Seq(S)
    /\ Len(understood) >= Accepted(c)
    /\ Cut(understood, 0, Accepted(c)) = Cut(c.requests, 0, Accepted(c))

WriteAt(c, F) ==
    /\ FlushedTo(c, F) /\ RequestedTo(c, F)
    /\ Lost(c, F) \/ \E U \in Nat : Aligned(c, F, U)

\* The inductive invariant of the writing half.
WriteOK == \E c \in Conversations, F \in Nat : talk = c /\ WriteAt(c, F)

\* What is known of a conversation and its stream.
LEMMA UpFacts ==
  ASSUME CodecFits, NEW c \in Conversations
  PROVE  /\ Len(c.requests) \in Nat /\ Accepted(c) \in Nat /\ Accepted(c) <= Len(c.requests)
         /\ c.requests \in Seq(Asked(c))
         /\ Up(c) \in Seq(0 .. 255) /\ Len(Up(c)) \in Nat
BY UpAccepted, UpLaid DEF Asked

\* Bytes between two places of the stream, and then those up to a third.
LEMMA UpJoin ==
  ASSUME CodecFits, NEW c \in Conversations,
         NEW i \in 0 .. Len(c.requests), NEW j \in 0 .. Len(c.requests),
         NEW k \in 0 .. Len(c.requests), i <= j, j <= k
  PROVE  Cut(Up(c), UpEnd(c)[i], UpEnd(c)[j]) \o Cut(Up(c), UpEnd(c)[j], UpEnd(c)[k])
            = Cut(Up(c), UpEnd(c)[i], UpEnd(c)[k])
<1>1. /\ UpEnd(c)[i] \in Nat /\ UpEnd(c)[j] \in Nat /\ UpEnd(c)[k] \in Nat
      /\ UpEnd(c)[i] <= UpEnd(c)[j]
      /\ UpEnd(c)[j] <= UpEnd(c)[k] /\ UpEnd(c)[k] <= Len(Up(c))
  BY UpOrder
<1>2. PICK x, y, z \in Nat : x = UpEnd(c)[i] /\ y = UpEnd(c)[j] /\ z = UpEnd(c)[k]
  BY <1>1
<1>3. x <= y /\ y <= z /\ z <= Len(Up(c)) /\ Up(c) \in Seq(0 .. 255)
  BY <1>1, <1>2, UpFacts
<1>4. Cut(Up(c), x, y) \o Cut(Up(c), y, z) = Cut(Up(c), x, z)
  BY <1>3, CutJoin
<1> QED
  BY <1>2, <1>4

\* No bytes lie between a place and itself.
LEMMA UpNothing ==
  ASSUME CodecFits, NEW c \in Conversations, NEW i \in 0 .. Len(c.requests)
  PROVE  Cut(Up(c), UpEnd(c)[i], UpEnd(c)[i]) = <<>>
<1>1. UpEnd(c)[i] \in Nat /\ UpEnd(c)[i] <= Len(Up(c)) /\ Up(c) \in Seq(0 .. 255)
  BY UpOrder, UpFacts
<1> QED
  BY <1>1, CutEmpty

\* The beginning.
LEMMA WriteInit ==
  ASSUME CodecFits, Init
  PROVE  WriteOK
<1>1. PICK c \in Conversations : talk = c
  BY DEF Init
<1>2. /\ Len(c.requests) \in Nat /\ Accepted(c) \in Nat
      /\ c.requests \in Seq(Asked(c)) /\ 0 \in 0 .. Len(c.requests)
  BY UpFacts
<1>3. Cut(c.requests, 0, 0) = <<>> /\ Cut(Up(c), UpEnd(c)[0], UpEnd(c)[0]) = <<>>
  BY <1>2, CutEmpty, UpNothing
<1>4. FlushedTo(c, 0)
  BY <1>2, <1>3 DEF Init, FlushedTo
<1>5. RequestedTo(c, 0)
  BY <1>2, <1>3 DEF Init, RequestedTo
<1>6. Aligned(c, 0, 0)
  BY <1>2, <1>3 DEF Init, Aligned
<1> QED
  BY <1>1, <1>4, <1>5, <1>6 DEF WriteOK, WriteAt

\* ChannelSender::send puts the bytes of the request behind the others, flushes them all
\* if the encoder accepts it, and keeps them in the write buffer if not.
LEMMA WriteClientSend ==
  ASSUME CodecFits, WriteOK, ClientSend
  PROVE  WriteOK'
<1>0. PICK c \in Conversations, F \in Nat : talk = c /\ WriteAt(c, F)
  BY DEF WriteOK
<1>1. /\ Len(c.requests) \in Nat /\ Accepted(c) \in Nat /\ Accepted(c) <= Len(c.requests)
      /\ c.requests \in Seq(Asked(c))
  BY UpFacts
<1>2. /\ calls \in 0 .. Len(c.requests) /\ F \in 0 .. calls
      /\ IF calls <= Accepted(c) THEN F = calls ELSE F >= Accepted(c)
      /\ outbox = Cut(Up(c), UpEnd(c)[F], UpEnd(c)[calls])
  BY <1>0 DEF WriteAt, FlushedTo
<1>3. PICK q, e : q = c.requests[calls + 1] /\ e = Encoded(q)
  OBVIOUS
<1>4. /\ calls < Len(c.requests) /\ calls' = calls + 1 /\ talk' = c /\ understood' = understood
      /\ \/ /\ e.ok
            /\ uplink' = uplink \o outbox \o e.bytes
            /\ outbox' = <<>>
            /\ requested' = Append(requested, q)
         \/ /\ ~e.ok
            /\ outbox' = outbox \o e.bytes
            /\ UNCHANGED <<uplink, requested>>
  BY <1>0, <1>3 DEF ClientSend
<1>5. PICK n \in 1 .. Len(c.requests) : n = calls + 1 /\ calls = n - 1
  BY <1>1, <1>2, <1>4
<1>6. /\ n \in 0 .. Len(c.requests) /\ calls \in 0 .. Len(c.requests)
      /\ F \in 0 .. Len(c.requests) /\ F <= calls /\ calls <= n
  BY <1>1, <1>2, <1>5
<1>7. e.bytes = Cut(Up(c), UpEnd(c)[calls], UpEnd(c)[n])
  BY <1>3, <1>5, UpLaid
<1>8. outbox \o e.bytes = Cut(Up(c), UpEnd(c)[F], UpEnd(c)[n])
  BY <1>2, <1>6, <1>7, UpJoin
<1>9. q \in Asked(c)
  BY <1>3, <1>5 DEF Asked
<1>10. CASE e.ok
  <2>1. Accepted(c) # calls
    BY <1>1, <1>3, <1>4, <1>10, UpAccepted
  <2>2. /\ uplink' = uplink \o outbox \o e.bytes
        /\ outbox' = <<>> /\ requested' = Append(requested, q)
    BY <1>4, <1>10
  <2>3. FlushedTo(c, n)'
    <3>1. Cut(Up(c), UpEnd(c)[n], UpEnd(c)[n]) = <<>>
      BY <1>6, UpNothing
    <3>2. calls' = n /\ n \in 0 .. n /\ (IF n <= Accepted(c) THEN n = n ELSE n >= Accepted(c))
      BY <1>1, <1>4, <1>5
    <3> QED
      BY <1>6, <2>2, <3>1, <3>2 DEF FlushedTo
  <2>4. RequestedTo(c, n)'
    <3>1. requested \in Seq(Asked(c))
      BY <1>0 DEF WriteAt, RequestedTo
    <3>2. CASE n <= Accepted(c)
      <4>1. F = calls /\ F <= Accepted(c) /\ F < Len(c.requests) /\ F + 1 = n
        BY <1>1, <1>2, <1>4, <1>5, <3>2
      <4>2. requested = Cut(c.requests, 0, F)
        BY <1>0, <4>1 DEF WriteAt, RequestedTo
      <4>3. Append(Cut(c.requests, 0, F), c.requests[F + 1]) = Cut(c.requests, 0, F + 1)
        BY <1>1, <4>1, CutNext
      <4>4. requested' = Cut(c.requests, 0, n)
        BY <1>3, <1>5, <2>2, <4>1, <4>2, <4>3
      <4>5. n \in Nat /\ n <= Len(c.requests)
        BY <1>1
      <4>6. Cut(c.requests, 0, n) \in Seq(Asked(c))
        BY <1>1, <4>5, CutFirst
      <4> QED
        BY <3>2, <4>4, <4>6 DEF RequestedTo
    <3>3. CASE n > Accepted(c)
      <4>1. calls > Accepted(c) /\ F >= Accepted(c)
        BY <1>1, <1>2, <1>5, <2>1, <3>3
      <4>2. Len(requested) >= Accepted(c) /\ Cut(requested, 0, Accepted(c)) = Cut(c.requests, 0, Accepted(c))
        <5>1. CASE F = Accepted(c)
          <6>1. requested = Cut(c.requests, 0, Accepted(c))
            BY <1>0, <1>1, <5>1 DEF WriteAt, RequestedTo
          <6>2. Len(requested) = Accepted(c)
            BY <1>1, <6>1, CutFirst
          <6>3. Prefix(Cut(c.requests, 0, Accepted(c)), Cut(c.requests, 0, Accepted(c)))
            BY <1>1, CutPrefix
          <6> QED
            BY <1>1, <6>1, <6>2, <6>3 DEF Prefix, Cut
        <5>2. CASE F > Accepted(c)
          <6>1. Len(requested) > Accepted(c) /\ Cut(requested, 0, Accepted(c)) = Cut(c.requests, 0, Accepted(c))
            BY <1>0, <1>1, <5>2 DEF WriteAt, RequestedTo
          <6>2. Len(requested) \in Nat
            BY <3>1, LenProperties
          <6> QED
            BY <1>1, <6>1, <6>2
        <5> QED
          BY <1>1, <4>1, <5>1, <5>2
      <4>3. /\ requested' \in Seq(Asked(c)) /\ Len(requested') = Len(requested) + 1
            /\ Cut(requested', 0, Accepted(c)) = Cut(requested, 0, Accepted(c))
        BY <1>1, <1>9, <2>2, <3>1, <4>2, AppendKeeps
      <4>4. Len(requested') > Accepted(c)
        <5>1. Len(requested) \in Nat
          BY <3>1, LenProperties
        <5> QED
          BY <1>1, <4>2, <4>3, <5>1
      <4> QED
        BY <1>1, <3>3, <4>2, <4>3, <4>4 DEF RequestedTo
    <3> QED
      BY <1>1, <3>2, <3>3
  <2>5. CASE Lost(c, F)
    <3>1. n > Accepted(c)
      BY <1>1, <1>2, <1>5, <2>5 DEF Lost
    <3>2. Lost(c, n)'
      BY <1>4, <2>5, <3>1 DEF Lost
    <3> QED
      BY <1>4, <1>6, <2>3, <2>4, <3>2 DEF WriteOK, WriteAt
  <2>6. ASSUME NEW U \in Nat, Aligned(c, F, U) PROVE WriteOK'
    <3>1. /\ U \in 0 .. F /\ U <= Accepted(c) /\ understood = Cut(c.requests, 0, U)
          /\ uplink = Cut(Up(c), UpEnd(c)[U], UpEnd(c)[F])
      BY <2>6 DEF Aligned
    <3>2. U \in 0 .. Len(c.requests) /\ U <= F /\ U <= calls /\ U \in 0 .. n
      BY <1>1, <1>6, <3>1
    <3>3. uplink \o outbox = Cut(Up(c), UpEnd(c)[U], UpEnd(c)[calls])
      BY <1>2, <1>6, <3>1, <3>2, UpJoin
    <3>4. uplink' = Cut(Up(c), UpEnd(c)[U], UpEnd(c)[n])
      BY <1>6, <1>7, <2>2, <3>2, <3>3, UpJoin, ZenonT(60)
    <3>5. Aligned(c, n, U)'
      BY <1>4, <3>1, <3>2, <3>4 DEF Aligned
    <3> QED
      BY <1>4, <1>6, <2>3, <2>4, <3>5 DEF WriteOK, WriteAt
  <2> QED
    BY <1>0, <2>5, <2>6 DEF WriteAt
<1>11. CASE ~e.ok
  <2>1. calls >= Accepted(c)
    <3>1. SUFFICES ASSUME calls < Accepted(c) PROVE FALSE
      BY <1>1, <1>2
    <3>2. n \in 1 .. Accepted(c)
      BY <1>1, <1>2, <1>5, <3>1
    <3> QED
      BY <1>3, <1>5, <1>11, <3>2, UpAccepted
  <2>2. F >= Accepted(c) /\ F \in 0 .. n /\ ~(n <= Accepted(c))
    BY <1>1, <1>2, <1>5, <2>1
  <2>3. outbox' = outbox \o e.bytes /\ uplink' = uplink /\ requested' = requested
    BY <1>4, <1>11
  <2>4. FlushedTo(c, F)'
    BY <1>4, <1>5, <1>6, <1>8, <2>2, <2>3 DEF FlushedTo
  <2>5. RequestedTo(c, F)'
    BY <1>0, <2>3 DEF WriteAt, RequestedTo
  <2>6. Lost(c, F)' <=> Lost(c, F)
    BY <1>4 DEF Lost
  <2>7. ASSUME NEW U \in Nat, Aligned(c, F, U) PROVE Aligned(c, F, U)'
    BY <1>4, <2>3, <2>7 DEF Aligned
  <2> QED
    BY <1>0, <1>4, <2>4, <2>5, <2>6, <2>7 DEF WriteOK, WriteAt
<1> QED
  BY <1>10, <1>11
\* The frame the broker takes is the next request's, until it comes to a refused one.
LEMMA WriteBrokerTake ==
  ASSUME CodecFits, WriteOK, BrokerTake
  PROVE  WriteOK'
<1>0. PICK c \in Conversations, F \in Nat : talk = c /\ WriteAt(c, F)
  BY DEF WriteOK
<1>1. /\ Len(c.requests) \in Nat /\ Accepted(c) \in Nat /\ Accepted(c) <= Len(c.requests)
      /\ c.requests \in Seq(Asked(c)) /\ Up(c) \in Seq(0 .. 255) /\ Len(Up(c)) \in Nat
  BY UpFacts
<1>2. F \in 0 .. Len(c.requests)
  BY <1>0, <1>1 DEF WriteAt, FlushedTo
<1>3. PICK n, x : n = FirstFrame(uplink) /\ x = Understood(SubSeq(uplink, 1, n))
  OBVIOUS
<1>4. /\ n > 0
      /\ understood' = Append(understood, x)
      /\ uplink' = SubSeq(uplink, n + 1, Len(uplink))
      /\ UNCHANGED <<calls, requested, outbox, talk>>
  BY <1>3 DEF BrokerTake
<1>5. FlushedTo(c, F)' /\ RequestedTo(c, F)'
  BY <1>0, <1>4 DEF WriteAt, FlushedTo, RequestedTo
<1>6. SUFFICES Lost(c, F)' \/ \E U \in Nat : Aligned(c, F, U)'
  BY <1>0, <1>4, <1>5 DEF WriteOK, WriteAt
<1>7. ASSUME NEW S, understood \in Seq(S), F > Accepted(c), Len(understood) >= Accepted(c),
             Cut(understood, 0, Accepted(c)) = Cut(c.requests, 0, Accepted(c))
      PROVE  Lost(c, F)'
  <2>1. PICK T : T = S \cup {x}
    OBVIOUS
  <2>2. understood \in Seq(T) /\ x \in T /\ Len(understood) \in Nat
    <3>1. Len(understood) \in Nat /\ \A i \in 1 .. Len(understood) : understood[i] \in T
      BY <1>7, <2>1, LenProperties, ElementOfSeq
    <3> QED
      BY <1>7, <2>1, <3>1
  <2>3. /\ Append(understood, x) \in Seq(T) /\ Len(Append(understood, x)) = Len(understood) + 1
        /\ Cut(Append(understood, x), 0, Accepted(c)) = Cut(understood, 0, Accepted(c))
    BY <1>1, <1>7, <2>2, AppendKeeps
  <2>4. Len(understood') >= Accepted(c)
    BY <1>1, <1>4, <1>7, <2>2, <2>3
  <2> QED
    BY <1>4, <1>7, <2>3, <2>4 DEF Lost
<1>8. CASE Lost(c, F)
  BY <1>7, <1>8 DEF Lost
<1>9. ASSUME NEW U \in Nat, Aligned(c, F, U)
      PROVE  Lost(c, F)' \/ Aligned(c, F, U + 1)'
  <2>1. /\ U \in 0 .. F /\ U <= Accepted(c) /\ understood = Cut(c.requests, 0, U)
        /\ uplink = Cut(Up(c), UpEnd(c)[U], UpEnd(c)[F])
    BY <1>9 DEF Aligned
  <2>2. U < F
    <3>1. SUFFICES ASSUME U = F PROVE FALSE
      BY <1>2, <2>1
    <3>2. FirstFrame(uplink) = 0
      BY <1>2, <2>1, <3>1, UpNothing, UpMeans
    <3> QED
      BY <1>3, <1>4, <3>2
  <2>3. CASE U = Accepted(c)
    <3>1. F > Accepted(c)
      BY <1>2, <2>2, <2>3
    <3>2. understood \in Seq(Asked(c)) /\ Len(understood) = Accepted(c)
      BY <1>1, <2>1, <2>3, CutFirst
    <3>3. Prefix(Cut(c.requests, 0, Accepted(c)), Cut(c.requests, 0, Accepted(c)))
      BY <1>1, CutPrefix
    <3>4. Cut(understood, 0, Accepted(c)) = Cut(c.requests, 0, Accepted(c))
      BY <1>1, <2>1, <2>3, <3>2, <3>3 DEF Prefix, Cut
    <3>5. Len(understood) >= Accepted(c)
      BY <1>1, <3>2
    <3> QED
      BY <1>7, <3>1, <3>2, <3>4, <3>5
  <2>4. CASE U < Accepted(c)
    <3>1. /\ U \in 0 .. Accepted(c) - 1 /\ F \in U + 1 .. Len(c.requests)
          /\ U \in 0 .. Len(c.requests) /\ U + 1 \in 0 .. Len(c.requests) /\ U < U + 1
      BY <1>1, <1>2, <2>2, <2>4
    <3> DEFINE a == UpEnd(c)[U]
               f == UpEnd(c)[U + 1]
               g == UpEnd(c)[F]
    <3>2. n = f - a /\ Understood(Cut(Up(c), a, f)) = c.requests[U + 1]
      BY <1>3, <2>1, <3>1, UpMeans
    <3>3. a \in Nat /\ f \in Nat /\ g \in Nat /\ a < f /\ f <= g /\ g <= Len(Up(c))
      <4>1. a < f
        BY <3>1, UpLaid
      <4>2. F \in 0 .. Len(c.requests) /\ U + 1 <= F
        BY <1>1, <3>1
      <4>3. a \in Nat /\ f \in Nat
        BY <3>1, UpOrder
      <4>4. f <= g /\ g \in Nat /\ g <= Len(Up(c))
        BY <3>1, <4>2, UpOrder
      <4> QED
        BY <4>1, <4>3, <4>4
    <3>4. uplink = Cut(Up(c), a, g)
      BY <2>1
    <3> HIDE DEF a, f, g
    <3>5. n \in 0 .. g - a /\ a + n = f /\ a <= g
      BY <3>2, <3>3
    <3>6. SubSeq(Cut(Up(c), a, g), 1, n) = Cut(Up(c), a, a + n)
      BY <1>1, <3>3, <3>5, CutHead, ZenonT(60)
    <3>7. SubSeq(Cut(Up(c), a, g), n + 1, g - a) = Cut(Up(c), a + n, g)
      BY <1>1, <3>3, <3>5, CutRest, ZenonT(60)
    <3>8. Len(Cut(Up(c), a, g)) = g - a
      BY <1>1, <3>3, <3>5, CutLen
    <3>9. uplink' = Cut(Up(c), f, g)
      BY <1>4, <3>4, <3>5, <3>7, <3>8
    <3>10. x = c.requests[U + 1]
      BY <1>3, <3>2, <3>4, <3>5, <3>6
    <3>11. understood' = Cut(c.requests, 0, U + 1)
      <4>1. U < Len(c.requests)
        BY <1>1, <2>4
      <4>2. Append(Cut(c.requests, 0, U), c.requests[U + 1]) = Cut(c.requests, 0, U + 1)
        BY <1>1, <4>1, CutNext
      <4> QED
        BY <1>4, <2>1, <3>10, <4>2
    <3>12. U + 1 \in 0 .. F /\ U + 1 <= Accepted(c)
      BY <1>1, <1>2, <2>2, <2>4
    <3> QED
      BY <3>9, <3>11, <3>12 DEF Aligned, f, g
  <2> QED
    BY <1>1, <2>1, <2>3, <2>4
<1> QED
  <2>1. ASSUME NEW U \in Nat, Aligned(c, F, U)
        PROVE  Lost(c, F)' \/ \E V \in Nat : Aligned(c, F, V)'
    <3>1. U + 1 \in Nat
      OBVIOUS
    <3> QED
      BY <1>9, <2>1, <3>1
  <2> QED
    BY <1>0, <1>8, <2>1 DEF WriteAt

\* Every step keeps the invariant of the writing half.
LEMMA WriteNext ==
  ASSUME CodecFits, WriteOK, [Next]_vars
  PROVE  WriteOK'
<1>1. CASE ClientSend
  BY <1>1, WriteClientSend
<1>2. CASE BrokerTake
  BY <1>2, WriteBrokerTake
<1>3. CASE UNCHANGED <<writing, talk>>
  <2>1. UNCHANGED <<calls, requested, outbox, uplink, understood, talk>>
    BY <1>3 DEF writing
  <2>2. PICK c \in Conversations, F \in Nat : talk = c /\ WriteAt(c, F)
    BY DEF WriteOK
  <2>3. FlushedTo(c, F)' /\ RequestedTo(c, F)'
    BY <2>1, <2>2 DEF WriteAt, FlushedTo, RequestedTo
  <2>4. Lost(c, F)' <=> Lost(c, F)
    BY <2>1 DEF Lost
  <2>5. \A U \in Nat : Aligned(c, F, U)' <=> Aligned(c, F, U)
    BY <2>1 DEF Aligned
  <2> QED
    BY <2>1, <2>2, <2>3, <2>4, <2>5 DEF WriteOK, WriteAt
<1>4. ASSUME NEW n \in 1 .. Len(wire), Read(n) PROVE UNCHANGED <<writing, talk>>
  BY <1>4 DEF Read
<1>5. CASE BrokerSend \/ DecodeFrame \/ DecodeNone \/ DecodeFails \/ Disconnect \/ ReadEof
  <2>1. UNCHANGED <<writing, talk>>
    BY <1>5, Zenon DEF BrokerSend, DecodeFrame, DecodeNone, DecodeFails, Disconnect, ReadEof
  <2> QED
    BY <1>3, <2>1
<1>6. CASE UNCHANGED vars
  BY <1>3, <1>6 DEF vars, writing
<1> QED
  BY <1>1, <1>2, <1>3, <1>4, <1>5, <1>6 DEF Next

\* What the invariant says of the requests understood.
LEMMA WriteMeans ==
  ASSUME CodecFits, WriteOK
  PROVE  RequestsUnderstood
<1>0. PICK c \in Conversations, F \in Nat : talk = c /\ WriteAt(c, F)
  BY DEF WriteOK
<1>1. /\ Len(c.requests) \in Nat /\ Accepted(c) \in Nat /\ Accepted(c) <= Len(c.requests)
      /\ c.requests \in Seq(Asked(c))
  BY UpFacts
<1>2. F \in 0 .. Len(c.requests)
  BY <1>0, <1>1 DEF WriteAt, FlushedTo
<1>3. PICK m \in Nat : m = IF F <= Accepted(c) THEN F ELSE Accepted(c)
  BY <1>1
<1>4. m <= Len(c.requests) /\ m <= Accepted(c) /\ m <= F
  BY <1>1, <1>2, <1>3
<1>5. /\ Spoiled <=> F > Accepted(c)
      /\ Intact = Cut(c.requests, 0, m)
  <2>1. CASE F <= Accepted(c)
    <3>1. requested = Cut(c.requests, 0, F)
      BY <1>0, <2>1 DEF WriteAt, RequestedTo
    <3>2. Len(requested) = F
      BY <1>1, <1>2, <3>1, CutFirst
    <3>3. ~Spoiled
      BY <1>0, <1>1, <2>1, <3>2 DEF Spoiled
    <3> QED
      BY <1>1, <1>3, <2>1, <3>1, <3>3 DEF Intact
  <2>2. CASE F > Accepted(c)
    <3>1. Len(requested) > Accepted(c) /\ Cut(requested, 0, Accepted(c)) = Cut(c.requests, 0, Accepted(c))
      BY <1>0, <1>1, <2>2 DEF WriteAt, RequestedTo
    <3>2. Spoiled
      BY <1>0, <3>1 DEF Spoiled
    <3>3. m = Accepted(c)
      BY <1>1, <1>3, <2>2
    <3>4. Intact = Cut(requested, 0, Accepted(c))
      <4>1. Intact = SubSeq(requested, 1, Accepted(c))
        BY <1>0, <3>2, Zenon DEF Intact
      <4> QED
        BY <4>1 DEF Cut
    <3> QED
      BY <2>2, <3>1, <3>2, <3>3, <3>4
  <2> QED
    BY <1>1, <2>1, <2>2
<1>6. CASE Lost(c, F)
  <2>1. Spoiled /\ m = Accepted(c)
    BY <1>1, <1>3, <1>5, <1>6 DEF Lost
  <2>2. Prefix(Intact, understood)
    <3>1. Len(Cut(c.requests, 0, m)) = m
      BY <1>1, <1>4, CutFirst
    <3>2. Len(understood) >= m /\ Cut(understood, 0, m) = Cut(c.requests, 0, m)
      BY <1>6, <2>1 DEF Lost
    <3>3. m <= Len(understood)
      <4>1. PICK S : understood \in Seq(S)
        BY <1>6 DEF Lost
      <4>2. Len(understood) \in Nat
        BY <4>1, LenProperties
      <4> QED
        BY <3>2, <4>2
    <3> QED
      BY <1>5, <3>1, <3>2, <3>3 DEF Prefix, Cut
  <2> QED
    BY <2>1, <2>2 DEF RequestsUnderstood
<1>7. ASSUME NEW U \in Nat, Aligned(c, F, U) PROVE RequestsUnderstood
  <2>1. /\ U \in 0 .. F /\ U <= Accepted(c) /\ understood = Cut(c.requests, 0, U)
        /\ uplink = Cut(Up(c), UpEnd(c)[U], UpEnd(c)[F])
    BY <1>7 DEF Aligned
  <2>2. U <= m
    BY <1>1, <1>3, <2>1
  <2>3. Prefix(understood, Intact)
    BY <1>1, <1>4, <1>5, <2>1, <2>2, CutPrefix
  <2>4. ASSUME FirstFrame(uplink) = 0
        PROVE  Prefix(Intact, understood) /\ (Spoiled \/ uplink = <<>>)
    <3>1. U = m
      <4>1. SUFFICES ASSUME U < m PROVE FALSE
        BY <2>2
      <4>2. /\ U \in 0 .. Accepted(c) - 1 /\ F \in U + 1 .. Len(c.requests)
            /\ U \in 0 .. Len(c.requests) /\ U + 1 \in 0 .. Len(c.requests) /\ U < U + 1
        BY <1>1, <1>2, <1>4, <4>1
      <4>3. UpEnd(c)[U + 1] - UpEnd(c)[U] = 0
        BY <2>1, <2>4, <4>2, UpMeans
      <4>4. UpEnd(c)[U] < UpEnd(c)[U + 1]
        BY <4>2, UpLaid
      <4>5. UpEnd(c)[U] \in Nat /\ UpEnd(c)[U + 1] \in Nat
        BY <4>2, UpOrder
      <4> QED
        BY <4>3, <4>4, <4>5
    <3>2. Prefix(Intact, understood)
      BY <1>1, <1>4, <1>5, <2>1, <3>1, CutPrefix
    <3>3. Spoiled \/ U = F
      BY <1>1, <1>2, <1>3, <1>5, <3>1
    <3>4. U = F => uplink = <<>>
      BY <1>2, <2>1, UpNothing
    <3> QED
      BY <3>2, <3>3, <3>4
  <2> QED
    BY <2>3, <2>4 DEF RequestsUnderstood
<1> QED
  BY <1>0, <1>6, <1>7 DEF WriteAt

\* With a codec that fits, the broker understands the requests whose ChannelSender::send
\* returned Ok, as what they were and in the order they were sent, however many there are,
\* and is left with no bytes; wherever a request is refused, all before it arrive.
THEOREM RequestsArrive ==
  ASSUME CodecFits
  PROVE  Spec => []RequestsUnderstood
<1>1. Init => WriteOK
  BY WriteInit
<1>2. WriteOK /\ [Next]_vars => WriteOK'
  BY WriteNext
<1>3. WriteOK => RequestsUnderstood
  BY WriteMeans
<1> QED
  BY <1>1, <1>2, <1>3, PTL DEF Spec
==============================================================================
