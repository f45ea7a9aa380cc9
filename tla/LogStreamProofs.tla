-------------------------- MODULE LogStreamProofs --------------------------
(***************************************************************************)
(* Proofs about LogStream, for every output, chunk and buffer size: each   *)
(* byte is accounted for and in order, a chunk ends a line unless the line *)
(* is longer, and no UTF-8 sequence that is whole, and what is gone leaves *)
(* a trace.                                                                *)
(***************************************************************************)
EXTENDS LogStream, SequenceTheorems, WellFoundedInduction, TLAPS

Sorted(s) == \A i, j \in DOMAIN s : i < j => s[i] < s[j]
Below(s, t) == \A x \in Elements(s), y \in Elements(t) : x < y

\* Received, in flight, buffered: one after the other, nothing twice.
Ordered == /\ Sorted(received) /\ Sorted(chunk) /\ Sorted(buf)
           /\ Below(received, chunk) /\ Below(received, buf) /\ Below(chunk, buf)

Complete ==
  1..written = Elements(received) \cup Elements(chunk) \cup Elements(buf) \cup lost

\* A sequence of positions does not end inside a UTF-8 sequence it starts.
Closed(s) == \A i \in DOMAIN s :
               output[s[i]] \in Len(s) - i + 2..UTFMax =>
                 \E j \in i + 1..Len(s) : output[s[j]] # 0

\* Nor does the chunk, if more may be written right after it.
Runes == /\ WholeRunes
         /\ buf = <<>> /\ ~stop => Closed(chunk)
         /\ final => stop

IInv == TypeOK /\ Ordered /\ Complete /\ WholeLines /\ GapMarked /\ Runes
          /\ (at # "posting" => chunk = <<>>)

-----------------------------------------------------------------------------
(* Sequences.                                                              *)

\* The elements of a concatenation.
LEMMA ConcatElements ==
  ASSUME NEW s \in Seq(Int), NEW t \in Seq(Int)
  PROVE  Elements(s \o t) = Elements(s) \cup Elements(t)
<1>1. /\ DOMAIN (s \o t) = 1..(Len(s) + Len(t)) /\ DOMAIN s = 1..Len(s) /\ DOMAIN t = 1..Len(t)
      /\ Len(s) \in Nat /\ Len(t) \in Nat
      /\ \A i \in 1..(Len(s) + Len(t)) :
           (s \o t)[i] = IF i <= Len(s) THEN s[i] ELSE t[i - Len(s)]
  OBVIOUS
<1>2. ASSUME NEW i \in DOMAIN (s \o t) PROVE (s \o t)[i] \in Elements(s) \cup Elements(t)
  <2>1. CASE i <= Len(s) BY <1>1, <2>1 DEF Elements
  <2>2. CASE i > Len(s)
    <3>1. i - Len(s) \in DOMAIN t
      BY <1>1, <2>2
    <3>. QED
      BY <1>1, <2>2, <3>1 DEF Elements
  <2>. QED
    BY <1>1, <2>1, <2>2
<1>3. ASSUME NEW i \in DOMAIN s PROVE s[i] \in Elements(s \o t)
  BY <1>1 DEF Elements
<1>4. ASSUME NEW i \in DOMAIN t PROVE t[i] \in Elements(s \o t)
  <2>1. i + Len(s) \in DOMAIN (s \o t) /\ (s \o t)[i + Len(s)] = t[i]
    BY <1>1
  <2>. QED
    BY <2>1 DEF Elements
<1>. QED
  BY <1>2, <1>3, <1>4 DEF Elements

\* A sorted sequence may be followed by one that is above it.
LEMMA ConcatSorted ==
  ASSUME NEW s \in Seq(Int), NEW t \in Seq(Int), Sorted(s), Sorted(t), Below(s, t)
  PROVE  Sorted(s \o t)
<1>1. /\ DOMAIN (s \o t) = 1..(Len(s) + Len(t)) /\ DOMAIN s = 1..Len(s) /\ DOMAIN t = 1..Len(t)
      /\ Len(s) \in Nat /\ Len(t) \in Nat
      /\ \A i \in 1..(Len(s) + Len(t)) :
           (s \o t)[i] = IF i <= Len(s) THEN s[i] ELSE t[i - Len(s)]
  OBVIOUS
<1> SUFFICES ASSUME NEW i \in DOMAIN (s \o t), NEW j \in DOMAIN (s \o t), i < j
             PROVE  (s \o t)[i] < (s \o t)[j]
  BY DEF Sorted
<1>2. CASE j <= Len(s)
  BY <1>1, <1>2 DEF Sorted
<1>3. CASE i > Len(s)
  <2>1. i - Len(s) \in DOMAIN t /\ j - Len(s) \in DOMAIN t /\ i - Len(s) < j - Len(s)
    BY <1>1, <1>3
  <2>. QED
    BY <1>1, <1>3, <2>1 DEF Sorted
<1>4. CASE i <= Len(s) /\ j > Len(s)
  <2>1. i \in DOMAIN s /\ j - Len(s) \in DOMAIN t
    BY <1>1, <1>4
  <2>2. s[i] \in Elements(s) /\ t[j - Len(s)] \in Elements(t)
    BY <2>1 DEF Elements
  <2>. QED
    BY <1>1, <1>4, <2>2 DEF Below
<1>. QED
  BY <1>1, <1>2, <1>3, <1>4

\* What SubSeq gives for the two parts of a sequence.
LEMMA Parts ==
  ASSUME NEW S, NEW s \in Seq(S), NEW k \in 0..Len(s)
  PROVE  /\ SubSeq(s, 1, k) \in Seq(S) /\ Len(SubSeq(s, 1, k)) = k
         /\ \A i \in 1..k : SubSeq(s, 1, k)[i] = s[i]
         /\ SubSeq(s, k + 1, Len(s)) \in Seq(S)
         /\ Len(SubSeq(s, k + 1, Len(s))) = Len(s) - k
         /\ \A i \in 1..(Len(s) - k) : SubSeq(s, k + 1, Len(s))[i] = s[i + k]
<1>1. Len(s) \in Nat /\ k \in Nat /\ k <= Len(s)
  OBVIOUS
<1>2. /\ SubSeq(s, 1, k) \in Seq(S) /\ Len(SubSeq(s, 1, k)) = k
      /\ \A i \in 1..k : SubSeq(s, 1, k)[i] = s[i]
  BY <1>1
<1>3. SubSeq(s, k + 1, Len(s)) \in Seq(S)
  BY <1>1
<1>4. Len(SubSeq(s, k + 1, Len(s))) = Len(s) - k
  BY <1>1
<1>5. ASSUME NEW i \in 1..(Len(s) - k) PROVE SubSeq(s, k + 1, Len(s))[i] = s[i + k]
  BY <1>1
<1>. QED
  BY <1>2, <1>3, <1>4, <1>5

\* A sequence cut in two.
LEMMA Split ==
  ASSUME NEW S, S \subseteq Int, NEW s \in Seq(S), Sorted(s), NEW k \in 0..Len(s)
  PROVE  /\ Sorted(SubSeq(s, 1, k)) /\ Sorted(SubSeq(s, k + 1, Len(s)))
         /\ Below(SubSeq(s, 1, k), SubSeq(s, k + 1, Len(s)))
         /\ Elements(SubSeq(s, 1, k)) \cup Elements(SubSeq(s, k + 1, Len(s))) = Elements(s)
<1> DEFINE a == SubSeq(s, 1, k)
           b == SubSeq(s, k + 1, Len(s))
<1>0. /\ a \in Seq(S) /\ Len(a) = k /\ \A i \in 1..k : a[i] = s[i]
      /\ b \in Seq(S) /\ Len(b) = Len(s) - k /\ \A i \in 1..(Len(s) - k) : b[i] = s[i + k]
  BY Parts
<1> HIDE DEF a, b
<1>1. Len(s) \in Nat /\ DOMAIN s = 1..Len(s) /\ k \in Nat /\ k <= Len(s)
  OBVIOUS
<1>2. DOMAIN a = 1..k /\ \A i \in DOMAIN s : s[i] \in Int
  <2>1. DOMAIN a = 1..Len(a) /\ DOMAIN s = 1..Len(s)
    BY <1>0, LenProperties
  <2>2. ASSUME NEW i \in 1..Len(s) PROVE s[i] \in Int
    BY ElementOfSeq
  <2>. QED
    BY <1>0, <2>1, <2>2
<1>3. DOMAIN b = 1..(Len(s) - k)
  <2>1. DOMAIN b = 1..Len(b)
    BY <1>0, LenProperties
  <2>. QED
    BY <1>0, <2>1
<1>4. Sorted(a)
  <2> SUFFICES ASSUME NEW i \in DOMAIN a, NEW j \in DOMAIN a, i < j PROVE a[i] < a[j]
    BY DEF Sorted
  <2>1. i \in DOMAIN s /\ j \in DOMAIN s
    BY <1>0, <1>1, <1>2
  <2>. QED
    BY <1>0, <1>2, <2>1 DEF Sorted
<1>5. Sorted(b)
  <2> SUFFICES ASSUME NEW i \in DOMAIN b, NEW j \in DOMAIN b, i < j PROVE b[i] < b[j]
    BY DEF Sorted
  <2>1. i + k \in DOMAIN s /\ j + k \in DOMAIN s /\ i + k < j + k
    BY <1>0, <1>1, <1>3
  <2>. QED
    BY <1>0, <1>3, <2>1 DEF Sorted
<1>6. Below(a, b)
  <2> SUFFICES ASSUME NEW i \in DOMAIN a, NEW j \in DOMAIN b PROVE a[i] < b[j]
    BY DEF Below, Elements
  <2>1. i \in DOMAIN s /\ j + k \in DOMAIN s /\ i < j + k
    BY <1>0, <1>1, <1>2, <1>3
  <2>. QED
    BY <1>0, <1>2, <1>3, <2>1 DEF Sorted
<1>7. Elements(a) \cup Elements(b) = Elements(s)
  <2>1. ASSUME NEW i \in DOMAIN s PROVE s[i] \in Elements(a) \cup Elements(b)
    <3>1. CASE i <= k BY <1>0, <1>1, <1>2, <3>1 DEF Elements
    <3>2. CASE i > k
      <4>1. i - k \in DOMAIN b /\ b[i - k] = s[i]
        BY <1>0, <1>1, <1>3, <3>2
      <4>. QED
        BY <4>1 DEF Elements
    <3>. QED
      BY <1>0, <1>1, <3>1, <3>2
  <2>2. ASSUME NEW i \in DOMAIN a PROVE a[i] \in Elements(s)
    BY <1>0, <1>1, <1>2 DEF Elements
  <2>3. ASSUME NEW i \in DOMAIN b PROVE b[i] \in Elements(s)
    <3>1. i + k \in DOMAIN s /\ b[i] = s[i + k]
      BY <1>0, <1>1, <1>3
    <3>. QED
      BY <3>1 DEF Elements
  <2>. QED
    BY <2>1, <2>2, <2>3 DEF Elements
<1>. QED
  BY <1>4, <1>5, <1>6, <1>7 DEF a, b

\* The elements of a sequence are in the set it is over.
LEMMA ElementsOfSeq ==
  ASSUME NEW S, NEW s \in Seq(S)
  PROVE  Elements(s) \subseteq S
  BY ElementOfSeq, LenProperties DEF Elements

\* Nothing is in the empty sequence, and nothing in it is out of order.
LEMMA EmptyIsSorted == Elements(<<>>) = {} /\ Sorted(<<>>)
  BY DEF Elements, Sorted

\* What is closed is not continued by anything that follows it.
LEMMA ClosedRunes ==
  ASSUME NEW c \in Seq(Int), NEW b \in Seq(Int), Sorted(c), Closed(c), Below(c, b),
         NEW i \in DOMAIN c, b # <<>>, output[c[i]] \in Len(c) - i + 2..UTFMax
  PROVE  \E j \in c[i] + 1..b[1] : output[j] # 0
<1> DEFINE x == b[1]
<1>0. x \in Int /\ \A y \in Elements(c) : y < x
  <2>1. 1 \in 1..Len(b) /\ DOMAIN b = 1..Len(b)
    BY EmptySeq, LenProperties
  <2>2. b[1] \in Int /\ b[1] \in Elements(b)
    BY <2>1, ElementOfSeq DEF Elements
  <2>. QED
    BY <2>2 DEF Below
<1> HIDE DEF x
<1>1. PICK j \in i + 1..Len(c) : output[c[j]] # 0
  BY DEF Closed
<1>2. /\ DOMAIN c = 1..Len(c) /\ Len(c) \in Nat /\ j \in DOMAIN c /\ i < j
      /\ c[i] \in Int /\ c[j] \in Int
  <2>1. DOMAIN c = 1..Len(c) /\ Len(c) \in Nat
    BY LenProperties
  <2>2. j \in DOMAIN c /\ i < j
    BY <2>1
  <2>. QED
    BY <2>1, <2>2, ElementOfSeq
<1>3. c[i] < c[j]
  BY <1>2 DEF Sorted
<1>4. c[j] < x
  <2>1. c[j] \in Elements(c)
    BY <1>2 DEF Elements
  <2>. QED
    BY <1>0, <2>1
<1>5. c[j] \in c[i] + 1..x
  <2>1. \A u, v, w \in Int : u < v /\ v < w => v \in u + 1..w
    OBVIOUS
  <2>. QED
    BY <1>0, <1>2, <1>3, <1>4, <2>1
<1>. QED
  BY <1>1, <1>5 DEF x

-----------------------------------------------------------------------------
(* What next takes from the buffer.                                        *)

\* A set of numbers that are not too large has a largest one, which Max is.
LEMMA Largest ==
  ASSUME NEW n \in Nat, NEW S, S \subseteq 1..n, S # {}
  PROVE  Max(S) \in S /\ \A y \in S : Max(S) >= y
<1> DEFINE T == {n - x : x \in S}
<1>1. T # {} /\ \A x \in S : n - x \in Nat
  <2>1. \A x \in S : x \in 1..n
    OBVIOUS
  <2>2. \A x \in 1..n : n - x \in Nat
    OBVIOUS
  <2>. QED
    BY <2>1, <2>2
<1>2. T \subseteq Nat
  BY <1>1
<1>3. PICK t \in T : \A y \in T : ~ (<<y, t>> \in OpToRel(<, Nat))
  BY <1>1, <1>2, WFMin, NatLessThanWellFounded
<1>4. PICK x \in S : t = n - x
  BY <1>3
<1>5. ASSUME NEW y \in S PROVE x >= y
  <2>1. n - y \in T /\ n - y \in Nat /\ n - x \in Nat /\ y \in Nat /\ x \in Nat
    BY <1>1, <1>4
  <2>2. ~ (n - y < n - x)
    BY <1>3, <1>4, <2>1 DEF OpToRel
  <2>. QED
    BY <2>1, <2>2
<1>. QED
  BY <1>5 DEF Max

\* The lesser of two numbers.
LEMMA MinOfTwo == \A a, b \in Nat : Min({a, b}) = IF a <= b THEN a ELSE b
  BY DEF Min

\* The greater of two numbers.
LEMMA MaxOfTwo == \A a, b \in Int : Max({a, b}) = IF a >= b THEN a ELSE b
  BY DEF Max

\* The bytes of the buffer are bytes of the output.
LEMMA Bytes ==
  ASSUME TypeOK, NEW i \in 1..Len(buf)
  PROVE  Byte(i) \in 0..UTFMax \cup {Newline}
<1>1. buf[i] \in 1..written
  BY ElementOfSeq DEF TypeOK
<1>2. output \in Seq(0..UTFMax \cup {Newline}) /\ written \in 0..Len(output)
  BY LogStreamAssumption DEF TypeOK
<1>3. buf[i] \in 1..Len(output)
  BY <1>1, <1>2, LenProperties
<1>. QED
  BY <1>2, <1>3, ElementOfSeq DEF Byte

\* Backing off stays within a sequence of its end.
LEMMA BoundaryNear ==
  ASSUME TypeOK, NEW n \in 1..Len(buf)
  PROVE  RuneBoundary(n) \in 0..n /\ RuneBoundary(n) > n - UTFMax
<1> DEFINE from == Max({1, n - UTFMax + 1})
           starts == {i \in from..n : Byte(i) # 0}
<1>1. Len(buf) \in Nat /\ n \in Nat /\ n >= 1 /\ n <= Len(buf)
  BY LenProperties DEF TypeOK
<1>2. from \in Nat /\ from >= 1 /\ from >= n - UTFMax + 1
  BY <1>1, MaxOfTwo DEF UTFMax
<1>3. CASE starts = {} \/ FullRune(Max(starts), n)
  <2>1. RuneBoundary(n) = n
    BY <1>3 DEF RuneBoundary
  <2>. QED
    BY <1>1, <2>1 DEF UTFMax
<1>4. CASE ~ (starts = {} \/ FullRune(Max(starts), n))
  <2> DEFINE m == Max(starts)
  <2>1. starts \subseteq 1..n
    BY <1>1, <1>2
  <2>2. m \in starts
    BY <1>1, <1>4, <2>1, Largest
  <2>3. m \in 1..n /\ m \in 1..Len(buf)
    BY <1>1, <2>1, <2>2
  <2>4. Byte(m) \in 0..UTFMax \cup {Newline}
    BY <2>3, Bytes
  <2>5. Byte(m) # Newline /\ ~ (Byte(m) <= n - m + 1)
    BY <1>4 DEF FullRune
  <2>6. m - 1 > n - UTFMax
    <3> HIDE DEF m
    <3>. QED
      BY <1>1, <2>3, <2>4, <2>5 DEF UTFMax, Newline
  <2>7. RuneBoundary(n) = m - 1
    BY <1>4 DEF RuneBoundary
  <2> HIDE DEF m
  <2>. QED
    BY <1>1, <2>3, <2>6, <2>7
<1>. QED
  BY <1>3, <1>4

\* What is cut at a rune boundary is closed, or ends before the start of a sequence.
LEMMA BoundaryCloses ==
  ASSUME TypeOK, NEW n \in UTFMax..Len(buf)
  PROVE  \/ RuneBoundary(n) < n /\ Byte(RuneBoundary(n) + 1) # 0
         \/ \A i \in 1..RuneBoundary(n) :
              Byte(i) \in RuneBoundary(n) - i + 2..UTFMax =>
                \E j \in i + 1..RuneBoundary(n) : Byte(j) # 0
<1> DEFINE from == Max({1, n - UTFMax + 1})
           starts == {i \in from..n : Byte(i) # 0}
           m == Max(starts)
<1>1. Len(buf) \in Nat /\ n \in Nat /\ n >= 4 /\ n <= Len(buf)
  BY LenProperties DEF TypeOK, UTFMax
<1>2. from = n - 3
  BY <1>1, MaxOfTwo DEF UTFMax
<1>3. starts # {} => m \in starts /\ \A i \in starts : m >= i
  <2>1. starts \subseteq 1..n
    BY <1>1, <1>2
  <2>. QED
    BY <1>1, <2>1, Largest
<1>4. RuneBoundary(n) = IF starts = {} \/ FullRune(m, n) THEN n ELSE m - 1
  BY DEF RuneBoundary
<1>5. \A i \in n - 3..n : Byte(i) # 0 => starts # {} /\ i <= m
  <2>1. ASSUME NEW i \in n - 3..n, Byte(i) # 0 PROVE i \in starts
    BY <1>2, <2>1
  <2>2. starts # {} => m \in Int
    <3>1. starts \subseteq Int
      BY <1>1, <1>2
    <3>. QED
      BY <1>3, <3>1
  <2>. QED
    BY <1>1, <1>3, <2>1, <2>2
<1>6. starts # {} => m \in n - 3..n /\ Byte(m) # 0
  BY <1>2, <1>3
<1> HIDE DEF starts, m, from
<1>7. CASE starts # {} /\ ~FullRune(m, n)
  BY <1>1, <1>4, <1>6, <1>7
<1>8. CASE starts = {} \/ FullRune(m, n)
  <2>1. RuneBoundary(n) = n
    BY <1>4, <1>8
  <2>2. ASSUME NEW i \in 1..n, Byte(i) \in n - i + 2..UTFMax
        PROVE  \E j \in i + 1..n : Byte(j) # 0
    <3>1. i \in n - 3..n /\ Byte(i) # 0
      BY <1>1, <2>2 DEF UTFMax
    <3>2. starts # {} /\ i <= m /\ FullRune(m, n)
      BY <1>5, <1>8, <3>1
    <3>3. m \in n - 3..n /\ Byte(m) # 0
      BY <1>6, <3>2
    <3>4. CASE i < m
      <4>1. m \in i + 1..n
        BY <1>1, <3>1, <3>3, <3>4
      <4>. QED
        BY <3>3, <4>1
    <3>5. CASE i = m
      <4>1. Byte(m) # Newline /\ ~ (Byte(m) <= n - m + 1)
        BY <1>1, <2>2, <3>5 DEF UTFMax, Newline
      <4>. QED
        BY <3>2, <3>5, <4>1 DEF FullRune
    <3>. QED
      BY <1>1, <3>1, <3>2, <3>3, <3>4, <3>5
  <2>. QED
    BY <2>1, <2>2
<1>. QED
  BY <1>7, <1>8

CutCloses == \/ final /\ Cut = Len(buf)
             \/ Cut < Len(buf) /\ Byte(Cut + 1) # 0
             \/ \A i \in 1..Cut : Byte(i) \in Cut - i + 2..UTFMax =>
                                  \E j \in i + 1..Cut : Byte(j) # 0

\* What next takes when it takes something: at most a chunk, and a line of it unless
\* there is none, or everything in the end.
LEMMA CutFits ==
  ASSUME TypeOK, buf # <<>>
  PROVE  /\ Cut \in 0..Len(buf) /\ Cut <= ChunkMax
         /\ HasChunk => Cut > 0 /\ CutCloses
         /\ HasChunk /\ ~final => \/ Byte(Cut) = Newline
                                  \/ /\ Cut > ChunkMax - UTFMax
                                     /\ \A i \in 1..Cut : Byte(i) # Newline
<1> DEFINE n == Min({Len(buf), ChunkMax})
           newlines == {i \in 1..n : Byte(i) = Newline}
<1>1. Len(buf) \in Nat \ {0} /\ ChunkMax \in Nat /\ ChunkMax >= 4
  BY LogStreamAssumption, EmptySeq DEF TypeOK, UTFMax
<1>2. n = IF Len(buf) <= ChunkMax THEN Len(buf) ELSE ChunkMax
  BY <1>1, MinOfTwo
<1>3. n \in 1..Len(buf) /\ n <= ChunkMax /\ (n < ChunkMax => Len(buf) < ChunkMax)
  <2> HIDE DEF n
  <2>. QED
    BY <1>1, <1>2
<1>4. Cut = IF final /\ n = Len(buf) THEN n
            ELSE IF newlines # {} THEN Max(newlines)
            ELSE IF n < ChunkMax THEN 0
            ELSE RuneBoundary(n)
  BY DEF Cut
<1>5. newlines \subseteq 1..n
  OBVIOUS
<1>6. newlines # {} => Max(newlines) \in newlines
  <2>1. n \in Nat
    BY <1>3
  <2>. QED
    BY <2>1, <1>5, Largest
<1>7. newlines # {} => Max(newlines) \in 1..n /\ Byte(Max(newlines)) = Newline
  BY <1>6
<1>8. newlines = {} => \A i \in 1..n : Byte(i) # Newline
  OBVIOUS
<1>9. RuneBoundary(n) \in 0..n /\ RuneBoundary(n) > n - UTFMax
  BY <1>3, BoundaryNear
<1> HIDE DEF n, newlines
<1>10. CASE final /\ n = Len(buf)
  BY <1>1, <1>3, <1>4, <1>10 DEF CutCloses
<1>11. CASE ~ (final /\ n = Len(buf)) /\ newlines # {}
  <2>1. Cut \in 1..n /\ Byte(Cut) = Newline
    BY <1>4, <1>7, <1>11
  <2>2. ASSUME NEW i \in 1..Cut, Byte(i) \in Cut - i + 2..UTFMax
        PROVE  Cut \in i + 1..Cut /\ Byte(Cut) # 0
    <3>1. i # Cut
      BY <2>1, <2>2 DEF UTFMax, Newline
    <3>. QED
      BY <1>3, <2>1, <3>1 DEF Newline
  <2>3. CutCloses
    BY <2>2 DEF CutCloses
  <2>. QED
    BY <1>1, <1>3, <2>1, <2>3
<1>12. CASE ~ (final /\ n = Len(buf)) /\ newlines = {} /\ n < ChunkMax
  BY <1>1, <1>3, <1>4, <1>12 DEF HasChunk
<1>13. CASE ~ (final /\ n = Len(buf)) /\ newlines = {} /\ ~ (n < ChunkMax)
  <2>1. n = ChunkMax /\ Cut = RuneBoundary(n)
    BY <1>1, <1>3, <1>4, <1>13
  <2>2. Cut \in 0..n /\ Cut > n - 4
    BY <1>9, <2>1 DEF UTFMax
  <2>3. CutCloses
    <3>1. n \in UTFMax..Len(buf)
      BY <1>1, <1>3, <2>1 DEF UTFMax
    <3>. QED
      BY <1>1, <1>3, <2>1, <2>2, <3>1, BoundaryCloses DEF CutCloses
  <2>. QED
    BY <1>1, <1>3, <1>8, <1>13, <2>1, <2>2, <2>3 DEF UTFMax
<1>. QED
  BY <1>10, <1>11, <1>12, <1>13

-----------------------------------------------------------------------------
(* The steps.                                                              *)

\* A new streamer holds nothing.
LEMMA InitInv == Init => IInv
<1> SUFFICES ASSUME Init PROVE IInv
  OBVIOUS
<1>1. output \in Outputs /\ written = 0 /\ Len(output) \in Nat
  BY LogStreamAssumption, LenProperties DEF Init
<1>2. \A S : <<>> \in Seq(S) /\ Len(<<>>) = 0
  BY EmptySeq
<1>3. TypeOK
  <2>1. truncated \in BOOLEAN /\ final \in BOOLEAN /\ stop \in BOOLEAN /\ marked \in BOOLEAN
    BY DEF Init
  <2>2. Len(buf) <= BufferMax /\ Len(chunk) <= ChunkMax
    BY <1>2, LogStreamAssumption DEF Init, UTFMax
  <2>3. lost \subseteq 1..written /\ written \in 0..Len(output)
    BY <1>1 DEF Init
  <2>. QED
    BY <1>1, <1>2, <2>1, <2>2, <2>3 DEF Init, TypeOK
<1>5. Ordered /\ Complete
  BY <1>1, EmptyIsSorted DEF Init, Ordered, Complete, Below
<1>6. WholeLines /\ GapMarked /\ Runes
  <2>1. DOMAIN <<>> = {}
    OBVIOUS
  <2>. QED
    BY <2>1 DEF Init, WholeLines, GapMarked, Runes, WholeRunes, Closed
<1>. QED
  BY <1>3, <1>5, <1>6 DEF Init, IInv

\* The positions that Write adds.
LEMMA Added ==
  ASSUME NEW m \in Nat, NEW n \in Nat \ {0}, NEW p, p = [i \in 1..n |-> m + i]
  PROVE  /\ p \in Seq(1..m + n) /\ Len(p) = n /\ Sorted(p)
         /\ Elements(p) = m + 1..m + n
<1>1. \A i \in 1..n : m + i \in 1..m + n
  OBVIOUS
<1>2. p \in [1..n -> 1..m + n]
  BY <1>1
<1>3. p \in Seq(1..m + n) /\ Len(p) = n /\ DOMAIN p = 1..n
  BY <1>2
<1>4. Sorted(p)
  BY <1>3 DEF Sorted
<1>5. ASSUME NEW x \in m + 1..m + n PROVE x \in Elements(p)
  <2>1. x - m \in DOMAIN p /\ p[x - m] = x
    BY <1>3
  <2>. QED
    BY <2>1 DEF Elements
<1>6. ASSUME NEW i \in DOMAIN p PROVE p[i] \in m + 1..m + n
  BY <1>3
<1>. QED
  BY <1>3, <1>4, <1>5, <1>6 DEF Elements

\* A chunk that is closed is whole, whatever is written next.
LEMMA Followed ==
  ASSUME chunk' \in Seq(Int), buf' \in Seq(Int), output' = output,
         Sorted(chunk'), Closed(chunk'), Below(chunk', buf')
  PROVE  WholeRunes'
<1> DEFINE c == chunk'
           b == buf'
<1>1. c \in Seq(Int) /\ b \in Seq(Int) /\ Sorted(c) /\ Closed(c) /\ Below(c, b)
  OBVIOUS
<1> SUFFICES ASSUME NEW i \in DOMAIN c, b # <<>>,
                    output[c[i]] \in (Len(c) - i + 1) + 1..UTFMax
             PROVE  \E j \in c[i] + 1..b[1] : output[j] # 0
  BY DEF WholeRunes
<1> HIDE DEF c, b
<1>2. i \in Int /\ Len(c) \in Int
  BY <1>1, LenProperties
<1>3. output[c[i]] \in Len(c) - i + 2..UTFMax
  BY <1>2
<1>. QED
  BY <1>1, <1>3, ClosedRunes

\* A write that fits goes to the end of the buffer, one that does not is counted as lost.
LEMMA WriteInv ==
  ASSUME IInv, NEW n \in 1..MaxWrite, Write(n)
  PROVE  IInv'
<1> DEFINE p == [i \in 1..n |-> written + i]
           S == 1..written + n
<1>1. /\ n \in Nat \ {0} /\ written \in Nat /\ Len(output) \in Nat
      /\ written' = written + n /\ written + n <= Len(output)
  BY LogStreamAssumption, LenProperties DEF IInv, TypeOK, Write
<1>2. p \in Seq(S) /\ Len(p) = n /\ Sorted(p) /\ Elements(p) = written + 1..written + n
  BY <1>1, Added
<1>3. /\ UNCHANGED <<output, at, final, stop, chunk, received, marked>>
      /\ Fits(n) => buf' = buf \o p /\ UNCHANGED <<truncated, lost>>
      /\ ~Fits(n) => truncated' = TRUE /\ lost' = lost \cup Elements(p) /\ UNCHANGED buf
  BY DEF Write
<1>4. /\ buf \in Seq(1..written) /\ chunk \in Seq(1..written) /\ received \in Seq(1..written)
      /\ lost \subseteq 1..written /\ Len(buf) \in Nat
  BY LenProperties DEF IInv, TypeOK
<1>5. 1..written \subseteq S /\ S \subseteq Int
  BY <1>1
<1>6. buf \in Seq(S) /\ chunk \in Seq(S) /\ received \in Seq(S)
  BY <1>4, <1>5, SeqMonotonic
<1>7. /\ Elements(buf) \subseteq 1..written /\ Elements(chunk) \subseteq 1..written
      /\ Elements(received) \subseteq 1..written
  BY <1>4, ElementsOfSeq
<1>8. 1..written + n = 1..written \cup Elements(p)
  BY <1>1, <1>2
<1>9. Below(received, p) /\ Below(chunk, p) /\ Below(buf, p)
  <2>1. \A x \in 1..written, y \in written + 1..written + n : x < y
    BY <1>1
  <2>. QED
    BY <1>2, <1>7, <2>1 DEF Below
<1> HIDE DEF p, S
<1>10. CASE Fits(n)
  <2>1. buf' = buf \o p /\ truncated' = truncated /\ lost' = lost
    BY <1>3, <1>10
  <2>2. buf' \in Seq(S) /\ Len(buf') = Len(buf) + n
    BY <1>2, <1>6, <2>1, ConcatProperties
  <2>3. buf \in Seq(Int) /\ p \in Seq(Int)
    BY <1>2, <1>5, <1>6, SeqMonotonic
  <2>4. Elements(buf') = Elements(buf) \cup Elements(p)
    BY <2>1, <2>3, ConcatElements
  <2>5. Sorted(buf')
    BY <1>2, <1>9, <2>1, <2>3, ConcatSorted DEF IInv, Ordered
  <2>6. Ordered'
    BY <1>3, <1>9, <2>4, <2>5 DEF IInv, Ordered, Below
  <2>7. Complete'
    BY <1>1, <1>3, <1>8, <2>1, <2>4 DEF IInv, Complete
  <2>8. lost \subseteq S /\ Len(buf) + n <= BufferMax
    BY <1>4, <1>5, <1>10 DEF Fits
  <2>9. TypeOK'
    BY <1>1, <1>3, <1>6, <2>1, <2>2, <2>8 DEF IInv, TypeOK, S
  <2>10. Runes'
    <3>1. ~stop /\ ~final
      BY DEF Write, IInv, Runes
    <3>2. CASE buf = <<>>
      <4>1. Closed(chunk) /\ chunk \in Seq(Int) /\ buf' \in Seq(Int)
        BY <1>5, <1>6, <2>2, <3>1, <3>2, SeqMonotonic DEF IInv, Runes
      <4>2. Sorted(chunk) /\ Below(chunk, buf')
        BY <1>9, <2>4 DEF IInv, Ordered, Below
      <4>3. WholeRunes'
        BY <1>3, <4>1, <4>2, Followed
      <4>4. Closed(chunk)'
        BY <1>3, <4>1 DEF Closed
      <4>. QED
        BY <1>3, <3>1, <4>3, <4>4 DEF Runes
    <3>3. CASE buf # <<>>
      <4>1. buf'[1] = buf[1] /\ buf' # <<>>
        BY <1>1, <1>2, <2>1, <2>2, <2>3, <3>3, EmptySeq, ConcatProperties
      <4>. QED
        BY <1>3, <3>1, <3>3, <4>1 DEF IInv, Runes, WholeRunes
    <3>. QED
      BY <3>2, <3>3
  <2>. QED
    BY <1>3, <2>1, <2>6, <2>7, <2>9, <2>10 DEF IInv, WholeLines, GapMarked
<1>11. CASE ~Fits(n)
  <2>1. buf' = buf /\ truncated' = TRUE /\ lost' = lost \cup Elements(p)
    BY <1>3, <1>11
  <2>2. Ordered'
    BY <1>3, <2>1 DEF IInv, Ordered, Below
  <2>3. Complete'
    BY <1>1, <1>3, <1>8, <2>1 DEF IInv, Complete
  <2>4. lost' \subseteq S
    BY <1>4, <1>8, <2>1 DEF S
  <2>5. TypeOK'
    BY <1>1, <1>3, <1>6, <2>1, <2>4 DEF IInv, TypeOK, S
  <2>6. Runes'
    BY <1>3, <2>1 DEF IInv, Runes, WholeRunes, Closed
  <2>. QED
    BY <1>3, <2>1, <2>2, <2>3, <2>5, <2>6 DEF IInv, WholeLines, GapMarked
<1>. QED
  BY <1>10, <1>11

\* What next takes is cut off the front of the buffer, where a line or a rune ends.
LEMMA NextChunkInv == IInv /\ NextChunk => IInv'
<1> SUFFICES ASSUME IInv, NextChunk PROVE IInv'
  OBVIOUS
<1> DEFINE S == 1..written
<1>1. /\ at = "looping" /\ chunk = <<>> /\ HasChunk /\ buf # <<>> /\ at' = "posting"
      /\ chunk' = SubSeq(buf, 1, Cut) /\ buf' = SubSeq(buf, Cut + 1, Len(buf))
      /\ UNCHANGED <<output, written, truncated, final, stop, received, lost, marked>>
  BY DEF IInv, NextChunk, HasChunk, Rest, netVars
<1>2. /\ Cut \in 0..Len(buf) /\ Cut <= ChunkMax /\ Cut > 0 /\ CutCloses
      /\ ~final => \/ Byte(Cut) = Newline
                   \/ Cut > ChunkMax - UTFMax /\ \A i \in 1..Cut : Byte(i) # Newline
  <2>1. TypeOK /\ buf # <<>> /\ HasChunk
    BY <1>1 DEF IInv
  <2>. QED
    BY <2>1, CutFits
<1>3. buf \in Seq(S) /\ Len(buf) \in Nat /\ S \subseteq Int
  BY LenProperties DEF IInv, TypeOK
<1> HIDE DEF S
<1>4. /\ chunk' \in Seq(S) /\ Len(chunk') = Cut /\ \A i \in 1..Cut : chunk'[i] = buf[i]
      /\ buf' \in Seq(S) /\ Len(buf') = Len(buf) - Cut
      /\ \A i \in 1..(Len(buf) - Cut) : buf'[i] = buf[i + Cut]
  BY <1>1, <1>2, <1>3, Parts
<1>5. /\ Sorted(chunk') /\ Sorted(buf') /\ Below(chunk', buf')
      /\ Elements(chunk') \cup Elements(buf') = Elements(buf)
  <2>1. Sorted(buf) /\ Cut \in 0..Len(buf)
    BY <1>2 DEF IInv, Ordered
  <2>. QED
    BY <1>1, <1>3, <2>1, Split
<1>6. Ordered'
  <2>1. /\ \A x \in Elements(received), y \in Elements(buf) : x < y
        /\ Sorted(received)
    BY DEF IInv, Ordered, Below
  <2>2. Below(received, chunk') /\ Below(received, buf')
    BY <1>5, <2>1 DEF Below
  <2>. QED
    BY <1>1, <1>5, <2>1, <2>2 DEF Ordered
<1>7. Complete'
  BY <1>1, <1>5, EmptyIsSorted DEF IInv, Complete
<1>8. TypeOK'
  <2>1. Len(buf') <= BufferMax /\ Len(chunk') <= ChunkMax
    BY <1>2, <1>3, <1>4, LogStreamAssumption DEF IInv, TypeOK
  <2>. QED
    BY <1>1, <1>4, <2>1 DEF IInv, TypeOK, S
<1>9. WholeLines'
  <2> SUFFICES ASSUME ~final
               PROVE  \/ output[chunk'[Len(chunk')]] = Newline
                      \/ /\ Len(chunk') > ChunkMax - UTFMax
                         /\ \A i \in DOMAIN chunk' : output[chunk'[i]] # Newline
    BY <1>1 DEF WholeLines
  <2>1. Cut \in 1..Cut /\ DOMAIN chunk' = 1..Cut
    BY <1>2, <1>4, LenProperties
  <2>2. \A i \in 1..Cut : output[chunk'[i]] = Byte(i)
    BY <1>4 DEF Byte
  <2>. QED
    BY <1>2, <1>4, <2>1, <2>2
<1>10. GapMarked'
  BY <1>1 DEF IInv, GapMarked
<1>11. Runes'
  <2>1. /\ DOMAIN chunk' = 1..Cut /\ Len(chunk') = Cut
        /\ \A i \in 1..Cut : output'[chunk'[i]] = Byte(i)
    BY <1>1, <1>4, LenProperties DEF Byte
  <2>2. final' => stop'
    BY <1>1 DEF IInv, Runes
  <2>3. buf' # <<>> => Len(buf') # 0 /\ 1 \in DOMAIN buf' /\ Len(buf) - Cut \in Nat
    BY <1>2, <1>3, <1>4, LenProperties, EmptySeq
  <2>4. CASE final /\ Cut = Len(buf)
    <3>1. buf' = <<>>
      BY <1>3, <1>4, <2>3, <2>4
    <3>. QED
      BY <1>1, <2>2, <2>4, <3>1 DEF Runes, WholeRunes
  <2>5. CASE Cut < Len(buf) /\ Byte(Cut + 1) # 0
    <3>1. buf' # <<>> /\ buf'[1] = buf[1 + Cut]
      BY <1>2, <1>3, <1>4, <2>5, EmptySeq
    <3>2. output'[buf'[1]] # 0
      BY <1>1, <1>2, <2>5, <3>1 DEF Byte
    <3>3. ASSUME NEW i \in DOMAIN chunk' PROVE buf'[1] \in chunk'[i] + 1..buf'[1]
      <4>1. chunk'[i] \in Elements(chunk') /\ buf'[1] \in Elements(buf')
        BY <2>3, <3>1 DEF Elements
      <4>2. chunk'[i] < buf'[1] /\ chunk'[i] \in Int /\ buf'[1] \in Int
        BY <1>3, <1>4, <1>5, <4>1, ElementsOfSeq DEF Below
      <4>. QED
        BY <4>2
    <3>. QED
      BY <2>2, <3>1, <3>2, <3>3 DEF Runes, WholeRunes
  <2>6. CASE \A i \in 1..Cut : Byte(i) \in Cut - i + 2..UTFMax =>
                                 \E j \in i + 1..Cut : Byte(j) # 0
    <3>1. Closed(chunk')
      <4> SUFFICES ASSUME NEW i \in DOMAIN chunk',
                          output[chunk'[i]] \in Len(chunk') - i + 2..UTFMax
                   PROVE  \E j \in i + 1..Len(chunk') : output[chunk'[j]] # 0
        BY DEF Closed
      <4>1. i \in 1..Cut /\ Byte(i) \in Cut - i + 2..UTFMax
        BY <1>1, <2>1
      <4>2. PICK j \in i + 1..Cut : Byte(j) # 0
        BY <2>6, <4>1
      <4>3. j \in 1..Cut
        BY <1>2, <4>1
      <4>. QED
        BY <1>1, <2>1, <4>2, <4>3
    <3>2. Closed(chunk)'
      BY <1>1, <3>1 DEF Closed
    <3>3. chunk' \in Seq(Int) /\ buf' \in Seq(Int)
      BY <1>3, <1>4, SeqMonotonic
    <3>4. WholeRunes'
      BY <1>1, <1>5, <3>1, <3>3, Followed
    <3>. QED
      BY <2>2, <3>2, <3>4 DEF Runes
  <2>. QED
    BY <1>2, <2>4, <2>5, <2>6 DEF CutCloses
<1>. QED
  BY <1>1, <1>6, <1>7, <1>8, <1>9, <1>10, <1>11 DEF IInv

\* No chunk, no sequence that it breaks.
LEMMA EmptyIsClosed ==
  ASSUME chunk' = <<>>
  PROVE  WholeRunes' /\ Closed(chunk)'
<1>1. DOMAIN <<>> = {}
  OBVIOUS
<1>. QED
  BY <1>1 DEF WholeRunes, Closed

\* The chunk is received: it follows what was received before it.
LEMMA ReceivedInv ==
  ASSUME IInv, at = "posting", Received, at' \in {"looping", Over}, chunk' = <<>>,
         truncated' \in {truncated, TRUE}, UNCHANGED <<output, written, buf, final, stop>>
  PROVE  IInv'
<1> DEFINE S == 1..written
<1>1. received' = received \o chunk /\ marked' = (marked \/ chunk = <<>>) /\ lost' = lost
  BY DEF Received
<1>2. received \in Seq(S) /\ chunk \in Seq(S) /\ S \subseteq Int
  BY DEF IInv, TypeOK
<1>3. received' \in Seq(S)
  BY <1>1, <1>2, ConcatProperties
<1>4. received \in Seq(Int) /\ chunk \in Seq(Int)
  BY <1>2, SeqMonotonic
<1> HIDE DEF S
<1>5. Elements(received') = Elements(received) \cup Elements(chunk)
  BY <1>1, <1>4, ConcatElements
<1>6. Sorted(received')
  BY <1>1, <1>4, ConcatSorted DEF IInv, Ordered
<1>7. Ordered'
  BY <1>5, <1>6, EmptyIsSorted DEF IInv, Ordered, Below
<1>8. Complete'
  BY <1>1, <1>5, EmptyIsSorted DEF IInv, Complete
<1>9. TypeOK'
  <2>1. <<>> \in Seq(S) /\ Len(<<>>) <= ChunkMax
    BY EmptySeq, LogStreamAssumption DEF UTFMax
  <2>2. truncated' \in BOOLEAN /\ marked' \in BOOLEAN
    BY <1>1 DEF IInv, TypeOK
  <2>3. at' \in {"select", "looping", "closed"}
    BY DEF Over
  <2>. QED
    BY <1>1, <1>3, <2>1, <2>2, <2>3 DEF IInv, TypeOK, S
<1>10. at' # "posting"
  BY DEF Over
<1>11. WholeLines'
  BY <1>10 DEF WholeLines
<1>12. GapMarked'
  BY <1>1 DEF IInv, GapMarked
<1>13. Runes'
  BY EmptyIsClosed DEF IInv, Runes
<1>. QED
  BY <1>7, <1>8, <1>9, <1>10, <1>11, <1>12, <1>13 DEF IInv

\* The chunk is lost: it is counted, and the log is due a mark.
LEMMA LostInv ==
  ASSUME IInv, at = "posting", at' = Over, chunk' = <<>>, truncated' = TRUE,
         lost' = lost \cup Elements(chunk),
         UNCHANGED <<output, written, buf, final, stop, received, marked>>
  PROVE  IInv'
<1>1. Elements(chunk) \subseteq 1..written
  BY ElementsOfSeq DEF IInv, TypeOK
<1>2. Ordered'
  BY EmptyIsSorted DEF IInv, Ordered, Below
<1>3. Complete'
  BY EmptyIsSorted DEF IInv, Complete
<1>4. TypeOK'
  <2>1. <<>> \in Seq(1..written) /\ Len(<<>>) <= ChunkMax
    BY EmptySeq, LogStreamAssumption DEF UTFMax
  <2>2. at' \in {"select", "looping", "closed"}
    BY DEF Over
  <2>. QED
    BY <1>1, <2>1, <2>2 DEF IInv, TypeOK
<1>5. at' # "posting"
  BY DEF Over
<1>6. WholeLines' /\ GapMarked'
  BY <1>5 DEF WholeLines, GapMarked
<1>7. Runes'
  BY EmptyIsClosed DEF IInv, Runes
<1>. QED
  BY <1>2, <1>3, <1>4, <1>5, <1>6, <1>7 DEF IInv

\* The steps that leave every byte where it is.
LEMMA QuietInv ==
  ASSUME IInv, NextMarker \/ FlushEnds \/ RunReturns \/ Tick \/ Close \/ UNCHANGED vars
  PROVE  IInv'
<1>1. UNCHANGED <<output, written, buf, chunk, received, lost, marked>>
  BY DEF IInv, NextMarker, FlushEnds, RunReturns, Tick, Close, vars, netVars
<1>2. Ordered' /\ Complete'
  BY <1>1 DEF IInv, Ordered, Complete, Below, Sorted, Elements
<1>3. TypeOK'
  <2>1. truncated' \in BOOLEAN /\ final' \in BOOLEAN /\ stop' \in BOOLEAN
    BY DEF IInv, TypeOK, NextMarker, FlushEnds, RunReturns, Tick, Close, vars
  <2>2. at' \in {"select", "looping", "posting", "closed"}
    BY DEF IInv, TypeOK, NextMarker, FlushEnds, RunReturns, Tick, Close, vars, Over
  <2>. QED
    BY <1>1, <2>1, <2>2 DEF IInv, TypeOK
<1>4. at' # "posting" => chunk' = <<>>
  BY <1>1 DEF IInv, NextMarker, FlushEnds, RunReturns, Tick, Close, vars
<1>5. WholeLines'
  <2>1. CASE NextMarker
    BY <2>1 DEF NextMarker, WholeLines
  <2>2. CASE FlushEnds \/ RunReturns \/ Tick
    BY <2>2 DEF FlushEnds, RunReturns, Tick, Over, WholeLines
  <2>3. CASE Close \/ UNCHANGED vars
    BY <2>3 DEF IInv, Close, vars, netVars, WholeLines
  <2>. QED
    BY <2>1, <2>2, <2>3
<1>6. GapMarked'
  <2>1. CASE NextMarker
    BY <2>1 DEF NextMarker, GapMarked
  <2>2. CASE ~NextMarker
    BY <2>2 DEF IInv, FlushEnds, RunReturns, Tick, Close, vars, netVars, GapMarked
  <2>. QED
    BY <2>1, <2>2
<1>7. Runes'
  <2>1. stop => stop'
    BY DEF NextMarker, FlushEnds, RunReturns, Tick, Close, vars
  <2>2. final' => stop'
    BY <2>1 DEF IInv, Runes, NextMarker, FlushEnds, RunReturns, Tick, Close, vars
  <2>. QED
    BY <1>1, <2>1, <2>2 DEF IInv, Runes, WholeRunes, Closed
<1>. QED
  BY <1>2, <1>3, <1>4, <1>5, <1>6, <1>7 DEF IInv

\* The invariant every theorem of this module rests on.
THEOREM Invariance == Spec => []IInv
<1>1. IInv /\ [Next]_vars => IInv'
  <2> SUFFICES ASSUME IInv, [Next]_vars PROVE IInv'
    OBVIOUS
  <2>1. ASSUME NEW n \in 1..MaxWrite, Write(n) PROVE IInv'
    BY <2>1, WriteInv
  <2>2. CASE NextChunk
    BY <2>2, NextChunkInv
  <2>3. CASE Posted
    BY <2>3, ReceivedInv DEF Posted
  <2>4. CASE PostFails
    <3>1. CASE Received
      BY <2>4, <3>1, ReceivedInv DEF PostFails, AfterFailure, Truncated
    <3>2. CASE lost' = lost \cup Elements(chunk) /\ UNCHANGED <<received, marked>>
      BY <2>4, <3>2, LostInv DEF PostFails, AfterFailure, Truncated
    <3>. QED
      BY <2>4, <3>1, <3>2 DEF PostFails
  <2>5. CASE NextMarker \/ FlushEnds \/ RunReturns \/ Tick \/ Close \/ UNCHANGED vars
    BY <2>5, QuietInv
  <2>. QED
    BY <2>1, <2>2, <2>3, <2>4, <2>5 DEF Next, FlushStep, Terminated
<1>. QED
  BY InitInv, <1>1, PTL DEF Spec

-----------------------------------------------------------------------------

\* Every variable keeps its type, and the buffer its bound.
THEOREM LogTypeCorrect == Spec => []TypeOK
<1>1. IInv => TypeOK
  BY DEF IInv
<1>. QED
  BY Invariance, <1>1, PTL

\* No byte of the output is unaccounted for, and none is repeated or overtaken,
\* whatever is lost and whoever flushes (logstream.go:97-141).
THEOREM OutputIsAccountedFor == Spec => []Accounted
<1>1. IInv => Accounted
  <2> SUFFICES ASSUME IInv PROVE Accounted
    OBVIOUS
  <2>1. received \in Seq(Int) /\ chunk \in Seq(Int) /\ buf \in Seq(Int)
    <3>1. 1..written \subseteq Int
      OBVIOUS
    <3>. QED
      BY <3>1, SeqMonotonic DEF IInv, TypeOK
  <2> DEFINE some == received \o chunk
             all == some \o buf
  <2>2. some \in Seq(Int) /\ Sorted(some)
    BY <2>1, ConcatProperties, ConcatSorted DEF IInv, Ordered
  <2>3. Below(some, buf)
    <3>1. Elements(some) = Elements(received) \cup Elements(chunk)
      BY <2>1, ConcatElements
    <3>. QED
      BY <3>1 DEF IInv, Ordered, Below
  <2> HIDE DEF some
  <2>4. all \in Seq(Int) /\ Sorted(all)
    BY <2>1, <2>2, <2>3, ConcatProperties, ConcatSorted DEF IInv, Ordered
  <2> HIDE DEF all
  <2>5. ASSUME NEW i \in 1..Len(all) - 1 PROVE all[i] < all[i + 1]
    <3>1. Len(all) \in Nat /\ DOMAIN all = 1..Len(all)
      BY <2>4, LenProperties
    <3>2. i \in DOMAIN all /\ i + 1 \in DOMAIN all /\ i < i + 1
      BY <3>1
    <3>. QED
      BY <2>4, <3>2 DEF Sorted
  <2>. QED
    BY <2>5 DEF Accounted, IInv, Complete, all, some
<1>. QED
  BY Invariance, <1>1, PTL

\* Until Close, a chunk ends a line, or is nearly full of one (logstream.go:114-141).
THEOREM ChunksEndLines == Spec => []WholeLines
<1>1. IInv => WholeLines
  BY DEF IInv
<1>. QED
  BY Invariance, <1>1, PTL

\* Output that is gone is marked, or will be once more is sent
\* (logstream.go:61-63, 104-106).
THEOREM GapsAreMarked == Spec => []GapMarked
<1>1. IInv => GapMarked
  BY DEF IInv
<1>. QED
  BY Invariance, <1>1, PTL

\* No chunk ends inside a UTF-8 sequence that goes on in what is left
\* (logstream.go:94-96, 144), however malformed the output.
THEOREM ChunksKeepRunes == Spec => []WholeRunes
<1>1. IInv => WholeRunes
  BY DEF IInv, Runes
<1>. QED
  BY Invariance, <1>1, PTL

-----------------------------------------------------------------------------
(* Refinement.                                                             *)

\* The mark that is on its way is the last of the log.
MarkIsLast == at = "posting" /\ chunk = <<>> => final /\ buf = <<>>

\* The parts of the pending output are those of its chunk and of its buffer.
LEMMA FrontAndBack ==
  ASSUME NEW s \in Seq(Int), NEW t \in Seq(Int)
  PROVE  /\ SubSeq(s \o t, 1, Len(s)) = s
         /\ SubSeq(s \o t, Len(s) + 1, Len(s \o t)) = t
         /\ Elements(s) = {(s \o t)[i] : i \in 1..Len(s)}
<1> DEFINE u == s \o t
<1>1. /\ u \in Seq(Int) /\ Len(u) = Len(s) + Len(t) /\ Len(s) \in Nat /\ Len(t) \in Nat
      /\ \A i \in 1..Len(s) + Len(t) : u[i] = IF i <= Len(s) THEN s[i] ELSE t[i - Len(s)]
  BY ConcatProperties, LenProperties
<1> HIDE DEF u
<1>2. Len(s) \in 0..Len(u)
  BY <1>1
<1>3. /\ SubSeq(u, 1, Len(s)) \in Seq(Int) /\ Len(SubSeq(u, 1, Len(s))) = Len(s)
      /\ \A i \in 1..Len(s) : SubSeq(u, 1, Len(s))[i] = u[i]
      /\ SubSeq(u, Len(s) + 1, Len(u)) \in Seq(Int)
      /\ Len(SubSeq(u, Len(s) + 1, Len(u))) = Len(u) - Len(s)
      /\ \A i \in 1..Len(u) - Len(s) : SubSeq(u, Len(s) + 1, Len(u))[i] = u[i + Len(s)]
  BY <1>1, <1>2, Parts
<1>4. \A i \in 1..Len(s) : u[i] = s[i]
  BY <1>1
<1>5. SubSeq(u, 1, Len(s)) = s
  BY <1>3, <1>4, SeqEqual
<1>6. SubSeq(u, Len(s) + 1, Len(u)) = t
  <2>1. Len(u) - Len(s) = Len(t)
    BY <1>1
  <2>2. ASSUME NEW i \in 1..Len(t) PROVE u[i + Len(s)] = t[i]
    <3> DEFINE j == i + Len(s)
    <3>1. i \in Nat /\ i >= 1 /\ i <= Len(t) /\ Len(s) \in Nat /\ Len(t) \in Nat
      BY <1>1
    <3>2. j \in 1..Len(s) + Len(t) /\ ~(j <= Len(s)) /\ j - Len(s) = i
      BY <3>1
    <3> HIDE DEF j
    <3>3. u[j] = t[i]
      BY <1>1, <3>2
    <3>. QED
      BY <3>3 DEF j
  <2>3. \A i \in 1..Len(t) : SubSeq(u, Len(s) + 1, Len(u))[i] = t[i]
    BY <1>3, <2>1, <2>2
  <2>. QED
    BY <1>3, <2>1, <2>3, SeqEqual
<1>7. Elements(s) = {u[i] : i \in 1..Len(s)}
  BY <1>4, LenProperties DEF Elements
<1>. QED
  BY <1>5, <1>6, <1>7 DEF u

\* What next takes is the front of the buffer, and is something.
LEMMA NextChunkMoves ==
  ASSUME IInv, NextChunk
  PROVE  chunk' # <<>> /\ chunk' \o buf' = buf /\ Len(buf') < Len(buf)
<1>1. /\ buf # <<>> /\ HasChunk
      /\ chunk' = SubSeq(buf, 1, Cut) /\ buf' = SubSeq(buf, Cut + 1, Len(buf))
  BY DEF NextChunk, HasChunk, Rest
<1>2. Cut \in 0..Len(buf) /\ Cut > 0
  BY <1>1, CutFits DEF IInv
<1>3. buf \in Seq(Int) /\ Len(buf) \in Nat
  <2>1. 1..written \subseteq Int
    OBVIOUS
  <2>. QED
    BY <2>1, SeqMonotonic, LenProperties DEF IInv, TypeOK
<1>4. PICK k \in 0..Len(buf) : k = Cut /\ k > 0
  BY <1>2
<1>5. chunk' \in Seq(Int) /\ Len(chunk') = k
  BY <1>1, <1>3, <1>4, Parts
<1>6. SubSeq(buf, 1, k) \o SubSeq(buf, k + 1, Len(buf)) = SubSeq(buf, 1, Len(buf))
  <2>1. 1 \in 1..Len(buf) + 1 /\ k \in 1 - 1..Len(buf) /\ Len(buf) \in k..Len(buf)
    BY <1>3, <1>4
  <2>. QED
    BY <1>3, <2>1, ConcatAdjacentSubSeq
<1>7. SubSeq(buf, 1, Len(buf)) = buf
  BY <1>3, SubSeqFull
<1>8. chunk' # <<>>
  BY <1>4, <1>5, EmptySeq
<1>9. chunk' = SubSeq(buf, 1, k) /\ buf' = SubSeq(buf, k + 1, Len(buf))
  BY <1>1, <1>4
<1>10. Len(buf') < Len(buf)
  <2>1. Len(buf') = Len(buf) - k
    BY <1>1, <1>3, <1>4, Parts
  <2>. QED
    BY <1>3, <1>4, <2>1
<1>. QED
  BY <1>6, <1>7, <1>8, <1>9, <1>10

\* Only Close's flush posts the mark, and nothing is written then.
LEMMA MarkStaysLast == IInv /\ MarkIsLast /\ [Next]_vars => MarkIsLast'
<1> SUFFICES ASSUME IInv, MarkIsLast, [Next]_vars PROVE MarkIsLast'
  OBVIOUS
<1>1. ASSUME NEW n \in 1..MaxWrite, Write(n) PROVE MarkIsLast'
  BY <1>1 DEF Write, MarkIsLast, IInv, Runes
<1>2. CASE NextChunk
  BY <1>2, NextChunkMoves DEF MarkIsLast
<1>3. CASE NextMarker
  BY <1>3 DEF NextMarker, MarkIsLast
<1>4. CASE FlushEnds \/ RunReturns \/ Tick \/ Posted \/ PostFails
  BY <1>4 DEF FlushEnds, RunReturns, Tick, Posted, PostFails, AfterFailure, Over,
     MarkIsLast
<1>5. CASE Close \/ UNCHANGED vars
  BY <1>5 DEF Close, vars, MarkIsLast
<1>. QED
  BY <1>1, <1>2, <1>3, <1>4, <1>5 DEF Next, FlushStep, Terminated

\* A write is kept at the end of what is pending, or refused.
LEMMA WriteMaps ==
  ASSUME IInv, MarkIsLast, NEW n \in 1..MaxWrite, Write(n)
  PROVE  LL!Keep \/ LL!Refuse
<1> DEFINE p == [i \in 1..n |-> written + i]
<1>1. n \in Nat \ {0} /\ written \in Nat /\ written' = written + n /\ written' - written = n
  BY LogStreamAssumption DEF IInv, TypeOK, Write
<1>2. p \in Seq(1..written + n) /\ Elements(p) = written + 1..written + n
  BY <1>1, Added
<1>3. p = [i \in 1..written' - written |-> written + i]
  BY <1>1
<1>4. buf \in Seq(Int) /\ chunk \in Seq(Int) /\ p \in Seq(Int)
  <2>1. 1..written \subseteq Int /\ 1..written + n \subseteq Int
    OBVIOUS
  <2>. QED
    BY <1>2, <2>1, SeqMonotonic DEF IInv, TypeOK
<1>5. /\ UNCHANGED <<chunk, received, marked, at>>
      /\ ~(at = "posting" /\ chunk = <<>>)
      /\ Fits(n) => buf' = buf \o p /\ UNCHANGED <<truncated, lost>>
      /\ ~Fits(n) => truncated' = TRUE /\ lost' = lost \cup Elements(p) /\ UNCHANGED buf
  BY DEF Write, MarkIsLast, IInv, Runes
<1> HIDE DEF p
<1>6. CASE Fits(n)
  <2>1. chunk' \o buf' = (chunk \o buf) \o p
    <3>1. (chunk \o buf) \o p = chunk \o (buf \o p)
      BY <1>4, ConcatAssociative
    <3>. QED
      BY <1>5, <1>6, <3>1
  <2>. QED
    BY <1>1, <1>3, <1>5, <1>6, <2>1 DEF LL!Keep
<1>7. CASE ~Fits(n)
  BY <1>1, <1>2, <1>5, <1>7 DEF LL!Refuse
<1>. QED
  BY <1>6, <1>7

\* What leaves is the front of what is pending.
LEMMA ChunkLeaves ==
  ASSUME IInv, at = "posting", chunk # <<>>, chunk' = <<>>, UNCHANGED buf
  PROVE  \E k \in 1..Len(chunk \o buf) :
           /\ LL!First(k) = chunk /\ LL!Drop(k)
           /\ Elements(chunk) = {(chunk \o buf)[i] : i \in 1..k}
<1>1. buf \in Seq(Int) /\ chunk \in Seq(Int)
  <2>1. 1..written \subseteq Int
    OBVIOUS
  <2>. QED
    BY <2>1, SeqMonotonic DEF IInv, TypeOK
<1>2. Len(chunk) \in 1..Len(chunk \o buf)
  BY <1>1, ConcatProperties, LenProperties, EmptySeq
<1>3. chunk' \o buf' = buf
  BY <1>1, ConcatEmptySeq
<1>. QED
  BY <1>1, <1>2, <1>3, FrontAndBack DEF LL!First, LL!Drop

\* A post ends in the loss or the reception of the front, or of the mark.
LEMMA PostMaps ==
  ASSUME IInv, MarkIsLast, Posted \/ PostFails
  PROVE  LL!Next \/ UNCHANGED LL!vars
<1>1. /\ at = "posting" /\ at' # "posting" /\ chunk' = <<>> /\ UNCHANGED <<written, buf>>
      /\ \/ Received /\ truncated' \in {truncated, TRUE}
         \/ /\ truncated' = TRUE /\ lost' = lost \cup Elements(chunk)
            /\ UNCHANGED <<received, marked>>
  BY DEF Posted, PostFails, AfterFailure, Over, Truncated
<1>2. truncated \in BOOLEAN /\ truncated' \in BOOLEAN
  BY <1>1 DEF IInv, TypeOK
<1>3. CASE chunk = <<>>
  <2>1. chunk \o buf = <<>> /\ chunk' \o buf' = <<>>
    BY <1>1, <1>3, ConcatProperties DEF MarkIsLast
  <2>2. CASE Received /\ truncated' \in {truncated, TRUE}
    <3>1. marked' = TRUE /\ UNCHANGED lost
      BY <1>3, <2>2 DEF Received
    <3>2. received' = received
      <4>1. received \in Seq(1..written)
        BY DEF IInv, TypeOK
      <4>. QED
        BY <1>3, <2>2, <4>1, ConcatEmptySeq DEF Received
    <3>. QED
      BY <1>1, <1>2, <1>3, <2>1, <3>1, <3>2 DEF LL!Next, LL!Mark
  <2>3. CASE /\ truncated' = TRUE /\ lost' = lost \cup Elements(chunk)
             /\ UNCHANGED <<received, marked>>
    BY <1>1, <1>3, <2>1, <2>3, EmptyIsSorted DEF LL!vars
  <2>. QED
    BY <1>1, <2>2, <2>3
<1>4. CASE chunk # <<>>
  <2>1. PICK k \in 1..Len(chunk \o buf) :
          /\ LL!First(k) = chunk /\ LL!Drop(k)
          /\ Elements(chunk) = {(chunk \o buf)[i] : i \in 1..k}
    BY <1>1, <1>4, ChunkLeaves
  <2>2. CASE Received /\ truncated' \in {truncated, TRUE}
    <3>1. received' = received \o LL!First(k) /\ UNCHANGED <<lost, marked>>
      BY <1>4, <2>1, <2>2 DEF Received, IInv, TypeOK
    <3>2. LL!Send(k)
      <4>1. (truncated' \/ (at' = "posting" /\ chunk' = <<>>))
              \in {truncated \/ (at = "posting" /\ chunk = <<>>), TRUE}
        BY <1>1, <1>2, <1>4, <2>2
      <4>. QED
        BY <1>1, <2>1, <3>1, <4>1 DEF LL!Send
    <3>. QED
      BY <2>1, <3>2 DEF LL!Next
  <2>3. CASE /\ truncated' = TRUE /\ lost' = lost \cup Elements(chunk)
             /\ UNCHANGED <<received, marked>>
    <3>1. LL!Lose(k)
      BY <1>1, <2>1, <2>3 DEF LL!Lose
    <3>. QED
      BY <2>1, <3>1 DEF LL!Next
  <2>. QED
    BY <1>1, <2>2, <2>3
<1>. QED
  BY <1>3, <1>4

\* What next takes is in flight instead of buffered; the rest moves no byte.
LEMMA QuietMaps ==
  ASSUME IInv,
         NextChunk \/ NextMarker \/ FlushEnds \/ RunReturns \/ Tick \/ Close \/ UNCHANGED vars
  PROVE  UNCHANGED LL!vars
<1>1. CASE NextChunk
  <2>1. chunk = <<>> /\ buf \in Seq(1..written) /\ chunk' # <<>> /\ chunk' \o buf' = buf
    BY <1>1, NextChunkMoves DEF IInv, TypeOK, NextChunk
  <2>2. chunk \o buf = buf
    BY <2>1, ConcatEmptySeq
  <2>. QED
    BY <1>1, <2>1, <2>2 DEF NextChunk, netVars, LL!vars
<1>2. CASE NextMarker
  BY <1>2 DEF IInv, NextMarker, netVars, LL!vars
<1>3. CASE FlushEnds \/ RunReturns \/ Tick
  BY <1>3 DEF FlushEnds, RunReturns, Tick, Over, netVars, LL!vars
<1>4. CASE Close \/ UNCHANGED vars
  BY <1>4 DEF Close, vars, netVars, LL!vars
<1>. QED
  BY <1>1, <1>2, <1>3, <1>4

\* The log is a queue that may lose but never reorders, repeats or invents output, and
\* that owes a mark for what it lost, whatever is written and whichever posts fail
\* (logstream.go:25-27, 56-67, 97-141).
THEOREM LogRefines == Spec => ImplementsLossyLog
<1>1. Init => LL!Init /\ MarkIsLast
  <2>1. <<>> \o <<>> = <<>>
    OBVIOUS
  <2>. QED
    BY <2>1 DEF Init, LL!Init, MarkIsLast
<1>2. IInv /\ MarkIsLast /\ [Next]_vars => [LL!Next]_(LL!vars)
  <2> SUFFICES ASSUME IInv, MarkIsLast, [Next]_vars PROVE LL!Next \/ UNCHANGED LL!vars
    OBVIOUS
  <2>1. ASSUME NEW n \in 1..MaxWrite, Write(n) PROVE LL!Next
    BY <2>1, WriteMaps DEF LL!Next
  <2>2. CASE Posted \/ PostFails
    BY <2>2, PostMaps
  <2>3. CASE NextChunk \/ NextMarker \/ FlushEnds \/ RunReturns \/ Tick \/ Close
             \/ UNCHANGED vars
    BY <2>3, QuietMaps
  <2>. QED
    BY <2>1, <2>2, <2>3 DEF Next, FlushStep, Terminated
<1>. QED
  BY <1>1, <1>2, MarkStaysLast, Invariance, PTL DEF Spec, ImplementsLossyLog, LL!Spec

\* Why Close returns: each chunk leaves less in the buffer, however malformed the
\* output, and once Close is called nothing is added to it (logstream.go:86-112,
\* 138-154). That its flush is over when the buffer is empty takes fairness.
THEOREM FlushesShrink ==
  Spec => [][/\ NextChunk => Len(buf') < Len(buf)
             /\ stop => stop' /\ Len(buf') <= Len(buf)]_vars
<1>1. ASSUME IInv, [Next]_vars
      PROVE  [/\ NextChunk => Len(buf') < Len(buf)
              /\ stop => stop' /\ Len(buf') <= Len(buf)]_vars
  <2>1. NextChunk => Len(buf') < Len(buf)
    BY <1>1, NextChunkMoves
  <2>2. Len(buf) \in Nat
    BY <1>1, LenProperties DEF IInv, TypeOK
  <2>3. ASSUME stop, NEW n \in 1..MaxWrite, Write(n) PROVE FALSE
    BY <2>3 DEF Write
  <2>4. CASE NextChunk
    <3>1. stop' = stop /\ Len(buf') < Len(buf)
      BY <1>1, <2>4, NextChunkMoves DEF NextChunk
    <3>2. Len(buf') \in Nat
      BY <1>1, <2>4, NextChunkInv, LenProperties DEF IInv, TypeOK
    <3>. QED
      BY <2>1, <2>2, <3>1, <3>2
  <2>5. CASE ~NextChunk
    <3>1. stop => stop' /\ buf' = buf
      BY <1>1, <2>3, <2>5
      DEF Next, FlushStep, NextMarker, FlushEnds, RunReturns, Posted, PostFails, Tick,
          Close, Terminated, vars
    <3>. QED
      BY <2>2, <2>5, <3>1
  <2>. QED
    BY <2>4, <2>5
<1>. QED
  BY <1>1, Invariance, PTL DEF Spec
=============================================================================
