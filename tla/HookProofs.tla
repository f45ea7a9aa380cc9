----------------------------- MODULE HookProofs -----------------------------
(***************************************************************************)
(* What a hook promises, for every name, scripts directory, buffer size,   *)
(* limit of the error and output: a valid name is one component, so what   *)
(* is joined stays in the directory; and the buffer is always an end of    *)
(* the output, all of it or enough of it, so trimming and cutting the      *)
(* buffer shows what trimming and cutting the output would.                *)
(*                                                                         *)
(* Hook walks names with recursive functions. What they compute is shown   *)
(* by least counterexample: were there a position where the function is    *)
(* not the closed form, there would be a first one.                        *)
(***************************************************************************)
EXTENDS Hook, SequenceTheorems, WellFoundedInduction, TLAPS

\* A set of numbers has a least one.
LEMMA LeastNumber ==
  ASSUME NEW T, T \subseteq Nat, T # {}
  PROVE  \E t \in T : \A y \in T : t <= y
<1>1. PICK t \in T : \A y \in T : ~ (<<y, t>> \in OpToRel(<, Nat))
  BY WFMin, NatLessThanWellFounded
<1>2. ASSUME NEW y \in T PROVE t <= y
  <2>1. y \in Nat /\ t \in Nat /\ ~ (y < t)
    BY <1>1 DEF OpToRel
  <2>. QED
    BY <2>1
<1>. QED
  BY <1>2

\* A name without a slash is one component.
LEMMA OneComponent ==
  ASSUME NEW n \in Seq(STRING), "/" \notin ToSet(n)
  PROVE  Components(n) = <<n>>
<1> DEFINE N == Len(n)
           Def(g, i) == IF i = 0 THEN << <<>> >>
                        ELSE LET cs == g[i - 1]
                             IN IF n[i] = "/" THEN Append(cs, <<>>)
                                ELSE [cs EXCEPT ![Len(cs)] = Append(@, n[i])]
           whole == [i \in 0..N |-> <<SubSeq(n, 1, i)>>]
<1>0. N \in Nat /\ DOMAIN n = 1..N /\ \A i \in 1..N : n[i] \in STRING /\ n[i] # "/"
  BY DEF ToSet
<1>1. ASSUME NEW i \in 0..N PROVE whole[i] = Def(whole, i)
  <2>1. CASE i = 0
    BY <2>1, SubSeqEmpty
  <2>2. CASE i # 0
    <3>1. i \in 1..N /\ i - 1 \in 0..N /\ n[i] # "/"
      BY <1>0, <2>2
    <3>2. whole[i - 1] = <<SubSeq(n, 1, i - 1)>>
      BY <3>1
    <3>3. SubSeq(n, 1, i) = Append(SubSeq(n, 1, i - 1), n[i])
      BY <1>0, <3>1
    <3> DEFINE pre == SubSeq(n, 1, i - 1)
    <3>4. [<<pre>> EXCEPT ![Len(<<pre>>)] = Append(@, n[i])] = <<Append(pre, n[i])>>
      <4> HIDE DEF pre
      <4>1. Len(<<pre>>) = 1 /\ <<pre>>[1] = pre
        OBVIOUS
      <4>. QED
        BY <4>1
    <3>5. Def(whole, i) = [<<pre>> EXCEPT ![Len(<<pre>>)] = Append(@, n[i])]
      <4> HIDE DEF whole
      <4>. QED
        BY <2>2, <3>1, <3>2
    <3>6. whole[i] = <<SubSeq(n, 1, i)>>
      OBVIOUS
    <3>. QED
      BY <3>3, <3>4, <3>5, <3>6
  <2>. QED
    BY <2>1, <2>2
<1>2. Parts(n) = [i \in 0..N |-> Def(Parts(n), i)]
  <2>1. whole = [i \in 0..N |-> Def(whole, i)]
    BY <1>1
  <2>2. \E g : g = [i \in 0..N |-> Def(g, i)]
    BY <2>1
  <2>. QED
    BY <2>2 DEF Parts
<1>3. \A i \in 0..N : Parts(n)[i] = whole[i]
  <2> DEFINE T == {i \in 0..N : Parts(n)[i] # whole[i]}
  <2> SUFFICES ASSUME T # {} PROVE FALSE
    OBVIOUS
  <2>0. T \subseteq Nat
    BY <1>0
  <2> HIDE DEF N, whole
  <2>1. PICK t \in T : \A y \in T : t <= y
    <3> HIDE DEF T
    <3>. QED
      BY <2>0, LeastNumber
  <2>2. CASE t = 0
    BY <1>1, <1>2, <2>1, <2>2
  <2>3. CASE t # 0
    <3>1. t - 1 \in 0..N /\ t - 1 \notin T
      BY <1>0, <2>0, <2>1, <2>3
    <3>2. Parts(n)[t - 1] = whole[t - 1]
      BY <3>1
    <3>3. Def(Parts(n), t) = Def(whole, t)
      BY <2>3, <3>2
    <3> HIDE DEF Def
    <3>. QED
      BY <1>1, <1>2, <2>1, <3>3
  <2>. QED
    BY <2>2, <2>3
<1>4. N \in 0..N /\ SubSeq(n, 1, N) = n
  BY <1>0, SubSeqFull
<1>. QED
  BY <1>3, <1>4 DEF Components

\* filepath.Join appends a name that is valid, and cleans nothing away.
LEMMA JoinsName ==
  ASSUME NEW n \in Seq(STRING), ValidName(n)
  PROVE  Join(ScriptsDir, n) = Append(ScriptsDir, n)
<1> DEFINE D == ScriptsDir
           Def(g, i) == IF i = 0 THEN D ELSE Cleaned(g[i - 1], <<n>>[i])
           both == [i \in 0..1 |-> IF i = 0 THEN D ELSE Append(D, n)]
<1>1. Components(n) = <<n>>
  BY OneComponent DEF ValidName, Separators
<1>2. Cleaned(D, n) = Append(D, n)
  BY DEF ValidName, Cleaned
<1>3. both = [i \in 0..1 |-> Def(both, i)]
  <2> HIDE DEF D
  <2>1. ASSUME NEW i \in 0..1 PROVE both[i] = Def(both, i)
    <3>1. CASE i = 0
      BY <3>1
    <3>2. CASE i = 1
      <4>1. both[0] = D /\ both[1] = Append(D, n) /\ <<n>>[1] = n
        OBVIOUS
      <4>. QED
        BY <1>2, <3>2, <4>1
    <3>. QED
      BY <3>1, <3>2
  <2>. QED
    BY <2>1
<1>4. Walk(D, <<n>>) = [i \in 0..1 |-> Def(Walk(D, <<n>>), i)]
  <2>1. \E g : g = [i \in 0..1 |-> Def(g, i)]
    BY <1>3
  <2>2. Len(<<n>>) = 1
    OBVIOUS
  <2> HIDE DEF D
  <2>. QED
    BY <2>1, <2>2 DEF Walk
<1>5. Walk(D, <<n>>)[0] = D
  BY <1>4
<1>6. Walk(D, <<n>>)[1] = Cleaned(D, n)
  <2> HIDE DEF D
  <2>. QED
    BY <1>4, <1>5
<1>. QED
  BY <1>1, <1>2, <1>6 DEF Join

-----------------------------------------------------------------------------
(* The ends of sequences.                                                  *)

IsTail(t, s) == /\ Len(t) <= Len(s)
                /\ \A i \in 1..Len(t) : t[i] = s[Len(s) - Len(t) + i]

\* Suffix gives the end of a sequence, of the length asked for if there is as much.
LEMMA SuffixIsTail ==
  ASSUME NEW S, NEW s \in Seq(S), NEW n \in Nat
  PROVE  /\ Suffix(s, n) \in Seq(S) /\ IsTail(Suffix(s, n), s)
         /\ Len(Suffix(s, n)) = IF Len(s) > n THEN n ELSE Len(s)
<1>1. Len(s) \in Nat
  OBVIOUS
<1>2. CASE Len(s) > n
  <2> DEFINE m == Len(s) - n + 1
  <2>1. m \in 1..Len(s) + 1 /\ m \in Int /\ \A i \in m..Len(s) : s[i] \in S
    BY <1>1, <1>2
  <2>2. Suffix(s, n) = SubSeq(s, m, Len(s))
    BY <1>2 DEF Suffix
  <2>3. /\ SubSeq(s, m, Len(s)) \in Seq(S)
        /\ Len(SubSeq(s, m, Len(s))) = IF m <= Len(s) THEN Len(s) - m + 1 ELSE 0
        /\ \A i \in 1..(Len(s) - m + 1) : SubSeq(s, m, Len(s))[i] = s[m + i - 1]
    BY <1>1, <2>1, SubSeqProperties
  <2>4. Len(SubSeq(s, m, Len(s))) = n /\ Len(s) - m + 1 = n
    BY <1>1, <2>3
  <2>5. ASSUME NEW i \in 1..n PROVE SubSeq(s, m, Len(s))[i] = s[Len(s) - n + i]
    <3>1. m + i - 1 = Len(s) - n + i
      BY <1>1
    <3>. QED
      BY <2>3, <2>4, <3>1
  <2> HIDE DEF m
  <2>. QED
    BY <1>1, <1>2, <2>2, <2>3, <2>4, <2>5 DEF IsTail
<1>3. CASE ~(Len(s) > n)
  BY <1>1, <1>3 DEF Suffix, IsTail
<1>. QED
  BY <1>2, <1>3

\* The end of an end is an end.
LEMMA TailOfTail ==
  ASSUME NEW S, NEW s \in Seq(S), NEW t \in Seq(S), NEW u \in Seq(S),
         IsTail(t, s), IsTail(u, t)
  PROVE  IsTail(u, s)
<1>1. Len(s) \in Nat /\ Len(t) \in Nat /\ Len(u) \in Nat
  OBVIOUS
<1>2. Len(u) <= Len(t) /\ Len(t) <= Len(s)
  BY DEF IsTail
<1>3. ASSUME NEW i \in 1..Len(u) PROVE u[i] = s[Len(s) - Len(u) + i]
  <2>1. u[i] = t[Len(t) - Len(u) + i]
    BY DEF IsTail
  <2>2. Len(t) - Len(u) + i \in 1..Len(t)
    BY <1>1, <1>2
  <2>3. t[Len(t) - Len(u) + i] = s[Len(s) - Len(t) + (Len(t) - Len(u) + i)]
    BY <2>2 DEF IsTail
  <2>4. Len(s) - Len(t) + (Len(t) - Len(u) + i) = Len(s) - Len(u) + i
    BY <1>1
  <2>. QED
    BY <2>1, <2>3, <2>4
<1>. QED
  BY <1>1, <1>2, <1>3 DEF IsTail

\* What is written goes to the end of both.
LEMMA TailGrows ==
  ASSUME NEW S, NEW s \in Seq(S), NEW t \in Seq(S), NEW p \in Seq(S), IsTail(t, s)
  PROVE  IsTail(t \o p, s \o p)
<1>1. Len(s) \in Nat /\ Len(t) \in Nat /\ Len(p) \in Nat /\ Len(t) <= Len(s)
  BY DEF IsTail
<1>2. /\ Len(t \o p) = Len(t) + Len(p) /\ Len(s \o p) = Len(s) + Len(p)
      /\ \A i \in 1..Len(t) + Len(p) :
           (t \o p)[i] = IF i <= Len(t) THEN t[i] ELSE p[i - Len(t)]
      /\ \A i \in 1..Len(s) + Len(p) :
           (s \o p)[i] = IF i <= Len(s) THEN s[i] ELSE p[i - Len(s)]
  BY ConcatProperties
<1>3. ASSUME NEW i \in 1..Len(t) + Len(p)
      PROVE  (t \o p)[i] = (s \o p)[Len(s) - Len(t) + i]
  <2>1. Len(s) - Len(t) + i \in 1..Len(s) + Len(p)
    BY <1>1
  <2>2. CASE i <= Len(t)
    <3>1. t[i] = s[Len(s) - Len(t) + i] /\ Len(s) - Len(t) + i <= Len(s)
      BY <1>1, <2>2 DEF IsTail
    <3>. QED
      BY <1>2, <2>1, <2>2, <3>1
  <2>3. CASE i > Len(t)
    <3>1. ~(Len(s) - Len(t) + i <= Len(s)) /\ Len(s) - Len(t) + i - Len(s) = i - Len(t)
      BY <1>1, <2>3
    <3>. QED
      BY <1>1, <1>2, <2>1, <2>3, <3>1
  <2>. QED
    BY <1>1, <2>2, <2>3
<1>4. Len(s) + Len(p) - (Len(t) + Len(p)) = Len(s) - Len(t)
  BY <1>1
<1>. QED
  BY <1>1, <1>2, <1>3, <1>4 DEF IsTail

\* Min and Max of a set of positions.
LEMMA Extremes ==
  ASSUME NEW n \in Nat, NEW S, S \subseteq 1..n, S # {}
  PROVE  /\ Min(S) \in S /\ Max(S) \in S
         /\ \A y \in S : Min(S) <= y /\ y <= Max(S)
<1>1. S \subseteq Nat
  OBVIOUS
<1>2. Min(S) \in S /\ \A y \in S : Min(S) <= y
  BY <1>1, LeastNumber DEF Min
<1>3. Max(S) \in S /\ \A y \in S : Max(S) >= y
  <2> DEFINE T == {n - x : x \in S}
  <2>1. T \subseteq Nat /\ T # {}
    <3>1. ASSUME NEW x \in S PROVE n - x \in Nat
      <4>1. x \in 1..n
        OBVIOUS
      <4>. QED
        BY <4>1
    <3>. QED
      BY <3>1
  <2>2. PICK t \in T : \A y \in T : t <= y
    BY <2>1, LeastNumber
  <2>3. PICK x \in S : t = n - x
    BY <2>2
  <2>4. ASSUME NEW y \in S PROVE x >= y
    <3>1. n - y \in T /\ n - x <= n - y /\ x \in Nat /\ y \in Nat
      BY <1>1, <2>2, <2>3
    <3>. QED
      BY <3>1
  <2>. QED
    BY <2>4 DEF Max
<1>. QED
  BY <1>1, <1>2, <1>3

-----------------------------------------------------------------------------
(* What a buffer of the last bytes shows of the whole output.              *)

\* ErrorShowsEnd says this of the output.
EndOf(s) ==
  LET dark == {i \in DOMAIN s : i > Len(s) - TailMax /\ ~s[i].space}
      last == IF dark = {} THEN 0 ELSE Max(dark)
      from == IF dark = {} THEN 1 ELSE Max({Min(dark), last - ErrorMax + 1})
  IN SubSeq(s, from, last)

\* The larger of two numbers.
LEMMA MaxOfTwo == \A a, b \in Int : Max({a, b}) = IF a >= b THEN a ELSE b
  BY DEF Max

\* The end of the output, trimmed and cut, is what the error is to show.
LEMMA ShownIsEnd ==
  ASSUME NEW s \in Seq(Bytes), NEW t \in Seq(Bytes), IsTail(t, s),
         Len(t) = IF Len(s) > TailMax THEN TailMax ELSE Len(s)
  PROVE  /\ Shown(TrimSpace(t)) \in Seq(Bytes)
         /\ Shown(TrimSpace(t)) = EndOf(s)
<1> DEFINE dark == {i \in DOMAIN s : i > Len(s) - TailMax /\ ~s[i].space}
           D == Dark(t)
<1>0. TailMax \in Nat /\ ErrorMax \in Nat \ {0}
  BY HookAssumption
<1>1. PICK N \in Nat : N = Len(s) /\ DOMAIN s = 1..N
  BY LenProperties
<1>2. PICK n \in Nat : n = Len(t) /\ DOMAIN t = 1..n
  BY LenProperties
<1>3. n <= N /\ n <= TailMax /\ (n = N \/ n = TailMax)
  BY <1>0, <1>1, <1>2
<1>4. PICK off \in Nat : off + n = N /\ \A i \in 1..n : t[i] = s[off + i]
  <2>1. N - n \in Nat /\ N - n + n = N
    BY <1>3
  <2>2. \A i \in 1..n : t[i] = s[N - n + i]
    BY <1>1, <1>2 DEF IsTail
  <2>. QED
    BY <2>1, <2>2
<1>5. \A i \in D : i \in 1..n /\ off + i \in dark
  <2> SUFFICES ASSUME NEW i \in D PROVE i \in 1..n /\ off + i \in dark
    OBVIOUS
  <2>1. i \in 1..n /\ ~t[i].space
    BY <1>2 DEF Dark
  <2>2. off + i \in 1..N /\ off + i > N - TailMax
    BY <1>0, <1>3, <1>4, <2>1
  <2>. QED
    BY <1>1, <1>4, <2>1, <2>2
<1>6. \A j \in dark : \E i \in D : j = off + i
  <2> SUFFICES ASSUME NEW j \in dark PROVE \E i \in D : j = off + i
    OBVIOUS
  <2>1. j \in 1..N /\ j > N - TailMax /\ ~s[j].space
    BY <1>1
  <2>2. j - off \in 1..n /\ j = off + (j - off)
    BY <1>0, <1>3, <1>4, <2>1
  <2>3. t[j - off] = s[j]
    BY <1>4, <2>2
  <2>4. j - off \in D
    BY <1>2, <2>1, <2>2, <2>3 DEF Dark
  <2>. QED
    BY <2>2, <2>4
<1>7. dark \subseteq 1..N /\ D \subseteq 1..n
  BY <1>1, <1>5
<1>8. EndOf(s) = LET last == IF dark = {} THEN 0 ELSE Max(dark)
                     from == IF dark = {} THEN 1 ELSE Max({Min(dark), last - ErrorMax + 1})
                 IN SubSeq(s, from, last)
  BY DEF EndOf
<1>9. TrimSpace(t) = IF D = {} THEN <<>> ELSE SubSeq(t, Min(D), Max(D))
  BY DEF TrimSpace
<1> HIDE DEF dark, D
<1>10. CASE D = {}
  <2>1. dark = {}
    BY <1>6, <1>10
  <2>2. EndOf(s) = <<>>
    BY <1>8, <2>1, SubSeqEmpty
  <2>3. TrimSpace(t) = <<>>
    BY <1>9, <1>10
  <2>4. Shown(<<>>) = <<>> /\ <<>> \in Seq(Bytes)
    BY <1>0 DEF Shown, Suffix
  <2>. QED
    BY <2>2, <2>3, <2>4
<1>11. CASE D # {}
  <2>1. PICK a \in D, b \in D : a = Min(D) /\ b = Max(D) /\ \A y \in D : a <= y /\ y <= b
    BY <1>7, <1>11, Extremes
  <2>2. a \in 1..n /\ b \in 1..n /\ a <= b
    BY <1>7, <2>1
  <2>3. dark # {} /\ Min(dark) = off + a /\ Max(dark) = off + b
    <3>1. off + a \in dark /\ off + b \in dark
      BY <1>5, <2>1
    <3>2. PICK c \in dark, d \in dark :
            c = Min(dark) /\ d = Max(dark) /\ \A y \in dark : c <= y /\ y <= d
      BY <1>7, <3>1, Extremes
    <3>3. c <= off + a /\ off + b <= d /\ c \in Nat /\ d \in Nat
      BY <1>7, <3>1, <3>2
    <3>4. off + a <= c
      <4>1. PICK i \in D : c = off + i
        BY <1>6
      <4>. QED
        BY <1>7, <2>1, <2>2, <4>1
    <3>5. d <= off + b
      <4>1. PICK i \in D : d = off + i
        BY <1>6
      <4>. QED
        BY <1>7, <2>1, <2>2, <4>1
    <3>6. c = off + a /\ d = off + b
      BY <2>2, <3>3, <3>4, <3>5
    <3>. QED
      BY <3>1, <3>2, <3>6
  <2>4. PICK e \in Nat : e = off + b /\ e <= N
    BY <1>4, <2>2
  <2>5. PICK from \in Nat : /\ from = Max({off + a, e - ErrorMax + 1})
                            /\ from = IF b - a + 1 > ErrorMax THEN e - ErrorMax + 1
                                                               ELSE off + a
    <3>1. off + a \in Nat /\ e - ErrorMax + 1 \in Int /\ a \in Nat /\ b \in Nat
      BY <1>0, <2>2, <2>4
    <3>2. Max({off + a, e - ErrorMax + 1})
            = IF off + a >= e - ErrorMax + 1 THEN off + a ELSE e - ErrorMax + 1
      BY <3>1, MaxOfTwo
    <3>3. off + a >= e - ErrorMax + 1 <=> ~(b - a + 1 > ErrorMax)
      BY <1>0, <2>4, <3>1
    <3>. QED
      BY <1>0, <2>4, <3>1, <3>2, <3>3
  <2>6. EndOf(s) = SubSeq(s, from, e)
    BY <1>8, <2>3, <2>4, <2>5
  <2>7. from \in 1..N /\ from <= e /\ off + a <= from
    BY <1>0, <1>4, <2>2, <2>4, <2>5
  <2>8. /\ EndOf(s) \in Seq(Bytes) /\ Len(EndOf(s)) = e - from + 1
        /\ \A i \in 1..e - from + 1 : EndOf(s)[i] = s[from + i - 1]
    <3>1. \A i \in from..e : s[i] \in Bytes
      BY <1>1, <2>4, <2>7, ElementOfSeq
    <3>. QED
      BY <2>6, <2>7, <3>1, SubSeqProperties
  <2>. PICK len \in Nat : a + len = b + 1 /\ len = b - a + 1 /\ len >= 1
    BY <2>2
  <2>9. PICK trim \in Seq(Bytes) : /\ trim = TrimSpace(t) /\ Len(trim) = len
                                   /\ \A i \in 1..len : trim[i] = t[a + i - 1]
    <3>1. \A i \in a..b : t[i] \in Bytes
      BY <1>2, <2>2, ElementOfSeq
    <3>2. TrimSpace(t) = SubSeq(t, a, b)
      BY <1>9, <1>11, <2>1
    <3>3. a \in Int /\ b \in Int /\ a <= b
      BY <2>2
    <3>4. /\ SubSeq(t, a, b) \in Seq(Bytes) /\ Len(SubSeq(t, a, b)) = b - a + 1
          /\ \A i \in 1..b - a + 1 : SubSeq(t, a, b)[i] = t[a + i - 1]
      BY <3>1, <3>3, SubSeqProperties
    <3>. QED
      BY <3>2, <3>4
  <2>10. PICK m \in Nat : /\ m = Len(Shown(trim))
                          /\ m = IF len > ErrorMax THEN ErrorMax ELSE len
                          /\ Shown(trim) \in Seq(Bytes)
                          /\ \A i \in 1..m : Shown(trim)[i] = trim[len - m + i]
    <3>1. /\ Suffix(trim, ErrorMax) \in Seq(Bytes) /\ IsTail(Suffix(trim, ErrorMax), trim)
          /\ Len(Suffix(trim, ErrorMax)) = IF len > ErrorMax THEN ErrorMax ELSE len
      BY <1>0, <2>9, SuffixIsTail
    <3>2. PICK u \in Seq(Bytes) : u = Suffix(trim, ErrorMax)
      BY <3>1
    <3>3. /\ Len(u) \in Nat /\ Len(u) = IF len > ErrorMax THEN ErrorMax ELSE len
          /\ \A i \in 1..Len(u) : u[i] = trim[len - Len(u) + i]
      BY <2>9, <3>1, <3>2 DEF IsTail
    <3>4. Shown(trim) = u
      BY <3>2 DEF Shown
    <3>. QED
      BY <3>3, <3>4
  <2>11. m = e - from + 1
    <3>1. a \in Nat /\ b \in Nat /\ ErrorMax \in Nat
      BY <1>0, <2>2
    <3>2. CASE len > ErrorMax
      <4>1. m = ErrorMax /\ from = e - ErrorMax + 1
        BY <2>5, <2>10, <3>2
      <4>. QED
        BY <2>4, <3>1, <4>1
    <3>3. CASE ~(len > ErrorMax)
      <4>1. m = len /\ from = off + a
        BY <2>5, <2>10, <3>3
      <4>. QED
        BY <2>4, <3>1, <4>1
    <3>. QED
      BY <3>2, <3>3
  <2>12. ASSUME NEW i \in 1..m PROVE Shown(trim)[i] = EndOf(s)[i]
    <3>1. PICK k \in 1..len : k = len - m + i
      BY <1>0, <2>10
    <3>2. a + k - 1 \in 1..n /\ off + (a + k - 1) = from + i - 1
      BY <1>0, <2>2, <2>4, <2>11, <3>1
    <3>3. Shown(trim)[i] = s[off + (a + k - 1)]
      BY <1>4, <2>9, <2>10, <3>1, <3>2
    <3>. QED
      BY <2>8, <2>11, <3>2, <3>3
  <2>13. Shown(trim) = EndOf(s)
    BY <2>8, <2>10, <2>11, <2>12, SeqEqual
  <2>. QED
    BY <2>9, <2>10, <2>13
<1>. QED
  BY <1>10, <1>11

-----------------------------------------------------------------------------
(* The inductive invariant.                                                *)

\* What is resolved is the file of that name; a script that runs was resolved, and
\* one that does not run yet has written nothing.
Control == /\ RunsNamed
           /\ path # None => name # <<>>
           /\ stage = "called" => path = None
           /\ stage \in {"resolved", "running"} => path # None
           /\ stage \in {"called", "resolved"} => output = <<>>

\* The buffer is an end of the output, and all of it or enough of it.
TailKept == /\ IsTail(buf, output)
            /\ Len(buf) = Len(output) \/ Len(buf) >= TailMax

\* An error has the end of a buffer that is written no more.
Shows == IF failed THEN stage = "returned" /\ tail = OutputTail ELSE tail = <<>>

IInv == TypeOK /\ Control /\ TailKept /\ Shows

\* What bytes() gives is an end of the output of the length ErrorShowsEnd wants.
LEMMA TailBytesIsTail ==
  ASSUME TypeOK, TailKept
  PROVE  /\ TailBytes \in Seq(Bytes) /\ IsTail(TailBytes, output)
         /\ Len(TailBytes) = IF Len(output) > TailMax THEN TailMax ELSE Len(output)
<1>1. buf \in Seq(Bytes) /\ output \in Seq(Bytes) /\ TailMax \in Nat
  BY HookAssumption DEF TypeOK
<1>2. /\ TailBytes \in Seq(Bytes) /\ IsTail(TailBytes, buf)
      /\ Len(TailBytes) = IF Len(buf) > TailMax THEN TailMax ELSE Len(buf)
  BY <1>1, SuffixIsTail DEF TailBytes
<1>3. IsTail(TailBytes, output)
  BY <1>1, <1>2, TailOfTail DEF TailKept
<1>4. /\ Len(buf) \in Nat /\ Len(output) \in Nat /\ Len(buf) <= Len(output)
      /\ (Len(buf) = Len(output) \/ Len(buf) >= TailMax)
  BY <1>1 DEF TailKept, IsTail
<1>. QED
  BY <1>1, <1>2, <1>3, <1>4

\* The error is of the type of the output, and shows the end of it.
LEMMA OutputTailIsEnd ==
  ASSUME TypeOK, TailKept
  PROVE  OutputTail \in Seq(Bytes) /\ OutputTail = EndOf(output)
<1>1. output \in Seq(Bytes)
  BY DEF TypeOK
<1>. QED
  BY <1>1, TailBytesIsTail, ShownIsEnd DEF OutputTail

\* A hook that is called has written nothing and resolved nothing.
LEMMA InitInv == Init => IInv
<1> SUFFICES ASSUME Init PROVE IInv
  OBVIOUS
<1>1. TypeOK
  <2>1. <<>> \in Seq(Seq(STRING)) /\ <<>> \in Seq(Bytes) /\ Len(<<>>) = 0 /\ 0 <= 2 * TailMax
    BY HookAssumption
  <2>2. \A s \in {buf, output, tail} : s = <<>>
    BY DEF Init
  <2>3. file \in {"absent", "regular", "other"} /\ buf = <<>>
    BY DEF Init
  <2>. QED
    BY <2>1, <2>2, <2>3 DEF Init, TypeOK, None
<1>2. Control
  BY DEF Init, Control, RunsNamed
<1>3. TailKept /\ Shows
  BY DEF Init, TailKept, IsTail, Shows
<1>. QED
  BY <1>1, <1>2, <1>3 DEF IInv

\* A write keeps the end of the output, whether the buffer is cut or not.
LEMMA WriteInv ==
  ASSUME IInv, NEW p \in Seq(Bytes), Write(p)
  PROVE  IInv'
<1>1. /\ buf \in Seq(Bytes) /\ output \in Seq(Bytes) /\ TailMax \in Nat
      /\ IsTail(buf, output) /\ (Len(buf) = Len(output) \/ Len(buf) >= TailMax)
  BY HookAssumption DEF IInv, TypeOK, TailKept
<1>2. PICK b \in Seq(Bytes) : b = buf \o p /\ Len(b) = Len(buf) + Len(p)
  BY <1>1, ConcatProperties
<1>3. output' \in Seq(Bytes) /\ Len(output') = Len(output) + Len(p) /\ IsTail(b, output')
  <2>1. output' = output \o p
    BY DEF Write
  <2>2. output \o p \in Seq(Bytes) /\ Len(output \o p) = Len(output) + Len(p)
    BY <1>1, ConcatProperties
  <2>3. IsTail(b, output \o p)
    <3>1. IsTail(buf \o p, output \o p)
      BY <1>1, TailGrows
    <3>. QED
      BY <1>2, <3>1
  <2>. QED
    BY <2>1, <2>2, <2>3
<1>4. /\ Len(buf) \in Nat /\ Len(p) \in Nat /\ Len(output) \in Nat /\ Len(b) \in Nat
  BY <1>1, <1>2
<1>5. Len(b) = Len(output') \/ Len(b) >= TailMax
  <2>1. CASE Len(buf) = Len(output)
    BY <1>2, <1>3, <2>1
  <2>2. CASE Len(buf) >= TailMax
    BY <1>1, <1>2, <1>4, <2>2
  <2>. QED
    BY <1>1, <2>1, <2>2
<1>6. buf' = Compacted(b)
  BY <1>2 DEF Write
<1>7. buf' \in Seq(Bytes) /\ Len(buf') <= 2 * TailMax /\ TailKept'
  <2>1. CASE Len(b) > 2 * TailMax
    <3>1. buf' = Suffix(b, TailMax)
      BY <1>6, <2>1 DEF Compacted
    <3>2. Len(b) > TailMax
      BY <1>1, <1>4, <2>1
    <3>3. buf' \in Seq(Bytes) /\ IsTail(buf', b) /\ Len(buf') = TailMax
      BY <1>1, <3>1, <3>2, SuffixIsTail
    <3>4. IsTail(buf', output')
      BY <1>3, <3>3, TailOfTail
    <3>. QED
      BY <1>1, <3>3, <3>4 DEF TailKept
  <2>2. CASE ~(Len(b) > 2 * TailMax)
    <3>1. buf' = b
      BY <1>6, <2>2 DEF Compacted
    <3>. QED
      BY <1>1, <1>3, <1>4, <1>5, <2>2, <3>1 DEF TailKept
  <2>. QED
    BY <2>1, <2>2
<1>8. TypeOK'
  BY <1>3, <1>7 DEF IInv, TypeOK, Write, config
<1>9. Control'
  BY DEF IInv, Control, RunsNamed, Write, config
<1>10. Shows'
  BY DEF IInv, Shows, Write
<1>. QED
  BY <1>7, <1>8, <1>9, <1>10 DEF IInv

\* Nothing else touches the buffer or the output.
LEMMA QuietInv ==
  ASSUME IInv, NoHook \/ Resolve \/ Refuse \/ Start \/ Ends \/ UNCHANGED vars
  PROVE  IInv'
<1>1. UNCHANGED <<config, buf, output>>
  BY DEF NoHook, Resolve, Refuse, Start, Ends, vars
<1>2. TailKept' /\ OutputTail' = OutputTail
  BY <1>1 DEF IInv, TailKept, OutputTail, TailBytes
<1>3. OutputTail \in Seq(Bytes)
  BY OutputTailIsEnd DEF IInv
<1>4. CASE NoHook
  BY <1>1, <1>2, <1>4 DEF IInv, TypeOK, Control, RunsNamed, Shows, NoHook, config
<1>5. CASE Resolve
  <2>1. path' = Append(ScriptsDir, name) /\ dir = ScriptsDir
    <3>1. name \in Seq(STRING) /\ dir = ScriptsDir /\ ValidName(name)
      BY <1>5, HookAssumption DEF IInv, TypeOK, Resolve, Resolves
    <3>. QED
      BY <1>5, <3>1, JoinsName DEF Resolve
  <2>2. path' \in Seq(Seq(STRING)) /\ path' # None
    <3>1. name \in Seq(STRING) /\ ScriptsDir \in Seq(Seq(STRING))
      BY HookAssumption DEF IInv, TypeOK
    <3>. QED
      BY <2>1, <3>1, AppendProperties DEF None
  <2>. QED
    BY <1>1, <1>2, <1>5, <2>1, <2>2
    DEF IInv, TypeOK, Control, RunsNamed, Shows, Resolve, config
<1>6. CASE Refuse
  <2>1. TypeOK' /\ Control'
    BY <1>1, <1>6 DEF IInv, TypeOK, Control, RunsNamed, Refuse, config
  <2>2. output = <<>> /\ tail' = <<>>
    BY <1>6 DEF IInv, Control, Shows, Refuse
  <2>3. OutputTail = <<>>
    <3>1. DOMAIN output = {}
      BY <2>2
    <3>2. EndOf(output) = SubSeq(output, 1, 0)
      BY <3>1 DEF EndOf
    <3>. QED
      BY <3>2, OutputTailIsEnd, SubSeqEmpty DEF IInv
  <2>. QED
    BY <1>1, <1>2, <1>6, <2>1, <2>2, <2>3 DEF IInv, Shows, Refuse
<1>7. CASE Start \/ Ends
  <2>1. stage' \in {"running", "returned"} /\ UNCHANGED path /\ path # None
    BY <1>7 DEF IInv, Control, Start, Ends
  <2>2. \/ stage' = "returned" /\ Fails
        \/ ~failed /\ ~failed' /\ tail' = tail /\ tail = <<>>
    BY <1>7 DEF IInv, Shows, Start, Ends
  <2>3. failed' \in BOOLEAN /\ tail' \in Seq(Bytes)
    <3>1. failed \in BOOLEAN /\ tail \in Seq(Bytes)
      BY DEF IInv, TypeOK
    <3>2. CASE Fails
      BY <1>3, <3>2 DEF Fails
    <3>3. CASE ~failed /\ ~failed' /\ tail' = tail /\ tail = <<>>
      <4>1. failed' \in BOOLEAN
        BY <1>7, <3>1 DEF Start, Ends, Fails
      <4>. QED
        BY <3>1, <3>3, <4>1
    <3>. QED
      BY <2>2, <3>2, <3>3
  <2>4. TypeOK'
    BY <1>1, <2>1, <2>3 DEF IInv, TypeOK, config
  <2>5. Control'
    BY <1>1, <2>1 DEF IInv, Control, RunsNamed, config
  <2>6. Shows'
    BY <1>2, <2>2 DEF Shows, Fails
  <2>. QED
    BY <1>2, <2>4, <2>5, <2>6 DEF IInv
<1>9. CASE UNCHANGED vars
  BY <1>1, <1>2, <1>9 DEF IInv, TypeOK, Control, RunsNamed, Shows, vars, config
<1>. QED
  BY <1>4, <1>5, <1>6, <1>7, <1>9

\* What a step may write is bytes, numbered on from the output.
LEMMA WritesBytes ==
  ASSUME IInv, Writes
  PROVE  \E p \in Seq(Bytes) : Write(p)
<1>1. PICK n \in 1..MaxWrite :
        /\ Len(output) + n <= MaxOutput
        /\ \E s \in [1..n -> BOOLEAN] :
             Write([i \in 1..n |-> [at |-> Len(output) + i, space |-> s[i]]])
  BY DEF Writes
<1>2. PICK s \in [1..n -> BOOLEAN] :
        Write([i \in 1..n |-> [at |-> Len(output) + i, space |-> s[i]]])
  BY <1>1
<1> DEFINE p == [i \in 1..n |-> [at |-> Len(output) + i, space |-> s[i]]]
<1>3. Len(output) \in Nat /\ MaxOutput \in Nat /\ n \in Nat
  BY HookAssumption DEF IInv, TypeOK
<1>4. ASSUME NEW i \in 1..n
      PROVE  [at |-> Len(output) + i, space |-> s[i]] \in Bytes
  <2>1. Len(output) + i \in 1..MaxOutput /\ s[i] \in BOOLEAN
    BY <1>1, <1>3
  <2>. QED
    BY <2>1 DEF Bytes
<1>5. p \in Seq(Bytes)
  BY <1>3, <1>4, IsASeq
<1>. QED
  BY <1>2, <1>5

\* The invariant is one of every behaviour, whatever the names, the directory and the
\* bounds of the buffer and of the error.
THEOREM Invariance == Spec => []IInv
<1>1. ASSUME IInv, [Next]_vars PROVE IInv'
  <2>1. CASE Writes
    BY <1>1, <2>1, WritesBytes, WriteInv
  <2>. QED
    BY <1>1, <2>1, QuietInv DEF Next, Returned
<1>. QED
  BY InitInv, <1>1, PTL DEF Spec

\* The variables keep their types and the buffer its bound, twice the tail it is to
\* keep (hooks.go:98-113).
THEOREM HookTypeCorrect == Spec => []TypeOK
<1>1. IInv => TypeOK
  BY DEF IInv
<1>. QED
  BY <1>1, Invariance, PTL

\* Whatever name a task gives, what runs is the file of that very name in the scripts
\* directory, and no task goes on without its hook (hooks.go:20-25, 35-46).
THEOREM ScriptIsNamed == Spec => []RunsNamed
<1>1. IInv => RunsNamed
  BY DEF IInv, Control
<1>. QED
  BY <1>1, Invariance, PTL

\* However the script cuts its output into writes and however often the buffer is cut,
\* the error ends with what the script last said (hooks.go:58-59, 98-122).
THEOREM ErrorHasEnd == Spec => []ErrorShowsEnd
<1>1. ASSUME IInv PROVE ErrorShowsEnd
  <2>1. SUFFICES ASSUME stage = "returned", failed PROVE tail = EndOf(output)
    BY DEF ErrorShowsEnd, EndOf
  <2>. QED
    BY <1>1, <2>1, OutputTailIsEnd DEF IInv, Shows
<1>. QED
  BY <1>1, Invariance, PTL
=============================================================================
