------------------------- MODULE InterfacesFile_proofs -------------------------
(***************************************************************************)
(* Theorems about InterfacesFile: whatever calls are made on a file that is  *)
(* well formed at the start, it stays well formed, every other line stays,   *)
(* and on rules the calls are those of RuleTable.  The well-founded order of *)
(* the naturals gives induction on sets of numbers and of sequences, which   *)
(* is what the recursive functions of the module need.                       *)
(***************************************************************************)
EXTENDS InterfacesFile, SequenceTheorems, WellFoundedInduction, TLAPS

-----------------------------------------------------------------------------
(* Induction *)

\* A set of naturals that is not empty has a least element.
LEMMA NatLeast ==
  ASSUME NEW T, T \subseteq Nat, T # {}
  PROVE  \E x \in T : \A y \in T : x <= y
<1>1. PICK x \in T : \A y \in T : ~ (<<y, x>> \in OpToRel(<, Nat))
  BY NatLessThanWellFounded, WFMin
<1>2. \A y \in T : ~ (y < x)
  BY <1>1 DEF OpToRel
<1>3. x \in Nat /\ \A y \in T : y \in Nat
  OBVIOUS
<1>4. \A y \in T : x <= y
  BY <1>2, <1>3
<1> QED BY <1>4

\* A set with zero and the successor of each number it holds has every number.
LEMMA SetInduction ==
  ASSUME NEW P, 0 \in P, \A n \in Nat : n \in P => n + 1 \in P
  PROVE  Nat \subseteq P
<1> SUFFICES ASSUME Nat \ P # {} PROVE FALSE
  OBVIOUS
<1>1. PICK x \in Nat \ P : \A y \in Nat \ P : x <= y
  BY NatLeast
<1>2. x # 0 /\ x - 1 \in Nat
  BY <1>1
<1>3. x - 1 \in P
  BY <1>1, <1>2
<1> QED BY <1>1, <1>2, <1>3

\* A set with the empty sequence and every extension of each sequence it holds
\* has every sequence.
LEMMA SeqInduction ==
  ASSUME NEW S, NEW P, <<>> \in P,
         \A s \in Seq(S) : \A e \in S : s \in P => Append(s, e) \in P
  PROVE  Seq(S) \subseteq P
<1> DEFINE Q == {n \in Nat : \A s \in Seq(S) : Len(s) = n => s \in P}
<1>1. 0 \in Q
  <2>1. \A s \in Seq(S) : Len(s) = 0 => s = <<>>
    BY EmptySeq
  <2> QED BY <2>1
<1>2. ASSUME NEW n \in Nat, n \in Q PROVE n + 1 \in Q
  <2> SUFFICES ASSUME NEW s \in Seq(S), Len(s) = n + 1 PROVE s \in P
    OBVIOUS
  <2>1. s # <<>>
    BY EmptySeq
  <2>2. PICK t \in Seq(S), e \in S : s = Append(t, e)
    BY <2>1, SequenceEmptyOrAppend
  <2>3. Len(t) = n
    BY <2>2, AppendProperties, LenProperties
  <2> QED BY <1>2, <2>2, <2>3
<1>3. Nat \subseteq Q
  BY <1>1, <1>2, SetInduction
<1> QED BY <1>3, LenProperties

\* A recursion over 0..N has a solution.
LEMMA RecursionSolved ==
  ASSUME NEW S, NEW e \in S, NEW N \in Nat, NEW step \in [1..N -> [S -> S]]
  PROVE  \E g \in [0..N -> S] :
            g[0] = e /\ \A n \in 1..N : g[n] = step[n][g[n - 1]]
<1> DEFINE Solves(g, m) == g[0] = e /\ \A n \in 1..m : g[n] = step[n][g[n - 1]]
           P == {m \in Nat : m <= N => \E g \in [0..m -> S] : Solves(g, m)}
<1>1. 0 \in P
  <2> DEFINE g == [n \in 0..0 |-> e]
  <2>1. g \in [0..0 -> S] /\ Solves(g, 0)
    OBVIOUS
  <2> QED BY <2>1
<1>2. ASSUME NEW m \in Nat, m \in P PROVE m + 1 \in P
  <2> SUFFICES ASSUME m + 1 <= N PROVE \E g \in [0..(m + 1) -> S] : Solves(g, m + 1)
    OBVIOUS
  <2>1. PICK g \in [0..m -> S] : Solves(g, m)
    BY <1>2
  <2> DEFINE h == [n \in 0..(m + 1) |-> IF n = m + 1 THEN step[m + 1][g[m]] ELSE g[n]]
  <2>2. h \in [0..(m + 1) -> S]
    OBVIOUS
  <2>3. \A n \in 0..m : h[n] = g[n]
    OBVIOUS
  <2>4. h[m + 1] = step[m + 1][h[m]]
    BY <2>3
  <2>5. ASSUME NEW n \in 1..m PROVE h[n] = step[n][h[n - 1]]
    BY <2>1, <2>3
  <2> HIDE DEF h
  <2>6. Solves(h, m + 1)
    <3>1. h[0] = e
      BY <2>1, <2>3
    <3>2. \A n \in 1..(m + 1) : n \in 1..m \/ n = m + 1
      OBVIOUS
    <3>3. m + 1 - 1 = m
      OBVIOUS
    <3> QED BY <2>4, <2>5, <3>1, <3>2, <3>3
  <2> QED BY <2>2, <2>6
<1>3. Nat \subseteq P
  <2> HIDE DEF P
  <2> QED BY <1>1, <1>2, SetInduction
<1> QED BY <1>3

-----------------------------------------------------------------------------
(* What is kept *)

\* Kept is the recursive function that its definition reads as.
LEMMA KeptSolved ==
  ASSUME NEW ls \in Seq(Line), NEW tags
  PROVE  /\ DOMAIN Kept(ls, tags) = 0..Len(ls)
         /\ Kept(ls, tags)[0] = <<>>
         /\ \A n \in 1..Len(ls) :
              Kept(ls, tags)[n] = IF ls[n].tag \in tags THEN Kept(ls, tags)[n - 1]
                                  ELSE Append(Kept(ls, tags)[n - 1], ls[n])
<1> DEFINE N == Len(ls)
           Add(s, n) == IF ls[n].tag \in tags THEN s ELSE Append(s, ls[n])
           step == [n \in 1..N |-> [s \in Seq(Line) |-> Add(s, n)]]
           Body(k, n) == IF n = 0 THEN <<>>
                         ELSE IF ls[n].tag \in tags THEN k[n - 1]
                         ELSE Append(k[n - 1], ls[n])
           Solves(k) == k = [n \in 0..N |-> Body(k, n)]
<1>1. N \in Nat
  BY LenProperties
<1>2. \A n \in 1..N : \A s \in Seq(Line) : Add(s, n) \in Seq(Line)
  BY ElementOfSeq, AppendProperties
<1>3. <<>> \in Seq(Line)
  BY EmptySeq
<1>4. PICK g \in [0..N -> Seq(Line)] :
        g[0] = <<>> /\ \A n \in 1..N : g[n] = step[n][g[n - 1]]
  <2>1. step \in [1..N -> [Seq(Line) -> Seq(Line)]]
    <3> HIDE DEF Add, N
    <3> QED BY <1>2
  <2> DEFINE S == Seq(Line)
             e == <<>>
  <2>2. e \in S /\ N \in Nat /\ step \in [1..N -> [S -> S]]
    BY <1>1, <2>1, <1>3
  <2>3. \E g \in [0..N -> S] : g[0] = e /\ \A n \in 1..N : g[n] = step[n][g[n - 1]]
    <3> HIDE DEF step, N, S, e
    <3> QED BY <2>2, RecursionSolved
  <2> HIDE DEF step, N
  <2> QED BY <2>3
<1>5. \A n \in 1..N : g[n] = Add(g[n - 1], n)
  <2> HIDE DEF Add, N
  <2>1. \A n \in 1..N : g[n - 1] \in Seq(Line)
    BY <1>1
  <2> QED BY <1>1, <1>4, <2>1
<1>6. \A n \in 0..N : g[n] = Body(g, n)
  <2>1. \A n \in 1..N : g[n] = Body(g, n)
    BY <1>5, <1>1
  <2>2. g[0] = Body(g, 0)
    BY <1>4
  <2>3. \A n \in 0..N : n = 0 \/ n \in 1..N
    BY <1>1
  <2> HIDE DEF Body
  <2> QED BY <2>1, <2>2, <2>3
<1>7. Solves(g)
  <2> HIDE DEF Body, N
  <2> QED BY <1>6
<1>8. Kept(ls, tags) = CHOOSE k : Solves(k)
  BY DEF Kept
<1>9. Solves(Kept(ls, tags))
  <2> HIDE DEF Solves
  <2> QED BY <1>7, <1>8
<1>10. DOMAIN Kept(ls, tags) = 0..N /\ \A n \in 0..N : Kept(ls, tags)[n] = Body(Kept(ls, tags), n)
  <2> DEFINE K == Kept(ls, tags)
  <2> HIDE DEF Body, N, K
  <2> QED BY <1>9
<1>11. Kept(ls, tags)[0] = <<>>
  BY <1>10, <1>1
<1>12. ASSUME NEW n \in 1..N
       PROVE  Kept(ls, tags)[n] = IF ls[n].tag \in tags THEN Kept(ls, tags)[n - 1]
                                  ELSE Append(Kept(ls, tags)[n - 1], ls[n])
  <2>1. n \in 0..N /\ n # 0
    BY <1>1
  <2>2. Kept(ls, tags)[n] = Body(Kept(ls, tags), n)
    BY <1>10, <2>1
  <2> QED BY <2>1, <2>2
<1> QED BY <1>10, <1>11, <1>12

\* What is kept of the first lines does not depend on those that follow.
LEMMA KeptOfPrefix ==
  ASSUME NEW ls \in Seq(Line), NEW l \in Line, NEW tags
  PROVE  \A n \in 0..Len(ls) : Kept(Append(ls, l), tags)[n] = Kept(ls, tags)[n]
<1> DEFINE more == Append(ls, l)
           P == {n \in Nat : n <= Len(ls) => Kept(more, tags)[n] = Kept(ls, tags)[n]}
<1>1. more \in Seq(Line) /\ Len(more) = Len(ls) + 1 /\ Len(ls) \in Nat
  BY AppendProperties, LenProperties
<1>2. \A i \in 1..Len(ls) : more[i] = ls[i]
  BY AppendProperties
<1> HIDE DEF more
<1>3. 0 \in P
  BY <1>1, KeptSolved
<1>4. ASSUME NEW n \in Nat, n \in P PROVE n + 1 \in P
  <2> SUFFICES ASSUME n + 1 <= Len(ls)
               PROVE  Kept(more, tags)[n + 1] = Kept(ls, tags)[n + 1]
    OBVIOUS
  <2>1. n + 1 \in 1..Len(ls) /\ n + 1 \in 1..Len(more) /\ n + 1 - 1 = n
    BY <1>1
  <2>2. Kept(more, tags)[n] = Kept(ls, tags)[n]
    BY <1>4, <1>1
  <2>3. Kept(more, tags)[n + 1] = IF more[n + 1].tag \in tags THEN Kept(more, tags)[n]
                                  ELSE Append(Kept(more, tags)[n], more[n + 1])
    BY <1>1, <2>1, KeptSolved
  <2>4. Kept(ls, tags)[n + 1] = IF ls[n + 1].tag \in tags THEN Kept(ls, tags)[n]
                                ELSE Append(Kept(ls, tags)[n], ls[n + 1])
    BY <2>1, KeptSolved
  <2> QED BY <2>1, <2>2, <2>3, <2>4, <1>2
<1>5. Nat \subseteq P
  <2> HIDE DEF P
  <2> QED BY <1>3, <1>4, SetInduction
<1> QED BY <1>5, <1>1 DEF more

\* Nothing is left of no lines.
LEMMA WithoutEmpty == ASSUME NEW tags PROVE Without(<<>>, tags) = <<>>
<1>1. <<>> \in Seq(Line) /\ Len(<<>>) = 0
  BY EmptySeq
<1> QED BY <1>1, KeptSolved DEF Without

\* Of one more line there is one more line left, unless it has one of the tags.
LEMMA WithoutAppend ==
  ASSUME NEW ls \in Seq(Line), NEW l \in Line, NEW tags
  PROVE  Without(Append(ls, l), tags) =
           IF l.tag \in tags THEN Without(ls, tags) ELSE Append(Without(ls, tags), l)
<1> DEFINE more == Append(ls, l)
<1>1. more \in Seq(Line) /\ Len(more) = Len(ls) + 1 /\ Len(ls) \in Nat
  BY AppendProperties, LenProperties
<1>2. more[Len(more)] = l
  BY AppendProperties
<1>3. Kept(more, tags)[Len(ls)] = Kept(ls, tags)[Len(ls)]
  BY <1>1, KeptOfPrefix
<1> HIDE DEF more
<1>4. Len(more) \in 1..Len(more) /\ Len(more) - 1 = Len(ls)
  BY <1>1
<1>5. Kept(more, tags)[Len(more)] =
        IF more[Len(more)].tag \in tags THEN Kept(more, tags)[Len(more) - 1]
        ELSE Append(Kept(more, tags)[Len(more) - 1], more[Len(more)])
  BY <1>1, <1>4, KeptSolved
<1>6. Kept(more, tags)[Len(more)] =
        IF l.tag \in tags THEN Kept(ls, tags)[Len(ls)]
        ELSE Append(Kept(ls, tags)[Len(ls)], l)
  BY <1>2, <1>3, <1>4, <1>5
<1> QED BY <1>6 DEF Without, more

\* What is left are lines.
LEMMA WithoutType ==
  ASSUME NEW ls \in Seq(Line), NEW tags
  PROVE  Without(ls, tags) \in Seq(Line)
<1> DEFINE P == {s \in Seq(Line) : Without(s, tags) \in Seq(Line)}
<1>1. <<>> \in P
  BY WithoutEmpty, EmptySeq
<1>2. ASSUME NEW s \in Seq(Line), NEW l \in Line, s \in P PROVE Append(s, l) \in P
  <2>1. Without(s, tags) \in Seq(Line) /\ Append(s, l) \in Seq(Line)
    BY <1>2, AppendProperties
  <2>2. Append(Without(s, tags), l) \in Seq(Line)
    BY <2>1, AppendProperties
  <2>3. Without(Append(s, l), tags) =
          IF l.tag \in tags THEN Without(s, tags) ELSE Append(Without(s, tags), l)
    BY WithoutAppend
  <2> QED BY <2>1, <2>2, <2>3
<1>3. Seq(Line) \subseteq P
  <2> HIDE DEF P
  <2> QED BY <1>1, <1>2, SeqInduction
<1> QED BY <1>3

\* The lines that are left are those that have none of the tags.
LEMMA WithoutRange ==
  ASSUME NEW ls \in Seq(Line), NEW tags
  PROVE  Range(Without(ls, tags)) = {l \in Range(ls) : l.tag \notin tags}
<1> DEFINE P == {s \in Seq(Line) : Range(Without(s, tags)) = {l \in Range(s) : l.tag \notin tags}}
<1>1. <<>> \in P
  <2>1. Range(<<>>) = {}
    BY DEF Range
  <2> QED BY <2>1, WithoutEmpty, EmptySeq
<1>2. ASSUME NEW s \in Seq(Line), NEW l \in Line, s \in P PROVE Append(s, l) \in P
  <2>1. \A t \in Seq(Line) : Range(Append(t, l)) = Range(t) \cup {l}
    <3> TAKE t \in Seq(Line)
    <3>1. /\ DOMAIN Append(t, l) = 1..(Len(t) + 1) /\ DOMAIN t = 1..Len(t) /\ Len(t) \in Nat
          /\ \A i \in 1..Len(t) : Append(t, l)[i] = t[i]
          /\ Append(t, l)[Len(t) + 1] = l
      BY AppendProperties, LenProperties
    <3> QED BY <3>1 DEF Range
  <2>2. Without(s, tags) \in Seq(Line)
    BY WithoutType
  <2>3. Without(Append(s, l), tags) =
          IF l.tag \in tags THEN Without(s, tags) ELSE Append(Without(s, tags), l)
    BY WithoutAppend
  <2>4. Range(Without(s, tags)) = {k \in Range(s) : k.tag \notin tags}
    BY <1>2
  <2>5. Range(Append(s, l)) = Range(s) \cup {l}
    BY <2>1
  <2>6. Range(Without(Append(s, l), tags)) =
          IF l.tag \in tags THEN Range(Without(s, tags)) ELSE Range(Without(s, tags)) \cup {l}
    BY <2>1, <2>2, <2>3
  <2>7. Range(Without(Append(s, l), tags)) = {k \in Range(Append(s, l)) : k.tag \notin tags}
    BY <2>4, <2>5, <2>6
  <2> QED BY <2>7, AppendProperties
<1>3. Seq(Line) \subseteq P
  <2> HIDE DEF P
  <2> QED BY <1>1, <1>2, SeqInduction
<1> QED BY <1>3

\* To take out some tags and then more is to take out the more.
LEMMA WithoutTwice ==
  ASSUME NEW ls \in Seq(Line), NEW more, NEW tags, tags \subseteq more
  PROVE  Without(Without(ls, tags), more) = Without(ls, more)
<1> DEFINE P == {s \in Seq(Line) : Without(Without(s, tags), more) = Without(s, more)}
<1>1. <<>> \in P
  BY WithoutEmpty, EmptySeq
<1>2. ASSUME NEW s \in Seq(Line), NEW l \in Line, s \in P PROVE Append(s, l) \in P
  <2>1. Without(s, tags) \in Seq(Line) /\ Append(s, l) \in Seq(Line)
    BY WithoutType, AppendProperties
  <2>2. Without(Append(Without(s, tags), l), more) =
          IF l.tag \in more THEN Without(Without(s, tags), more)
          ELSE Append(Without(Without(s, tags), more), l)
    BY <2>1, WithoutAppend
  <2>3. Without(Append(s, l), more) =
          IF l.tag \in more THEN Without(s, more) ELSE Append(Without(s, more), l)
    BY WithoutAppend
  <2>4. Without(Append(s, l), tags) =
          IF l.tag \in tags THEN Without(s, tags) ELSE Append(Without(s, tags), l)
    BY WithoutAppend
  <2>5. Without(Without(s, tags), more) = Without(s, more)
    BY <1>2
  <2>6. Without(Without(Append(s, l), tags), more) = Without(Append(s, l), more)
    <3>1. CASE l.tag \in tags
      BY <2>3, <2>4, <2>5, <3>1
    <3>2. CASE l.tag \notin tags
      BY <2>2, <2>3, <2>4, <2>5, <3>2
    <3> QED BY <3>1, <3>2
  <2> QED BY <2>1, <2>6
<1>3. Seq(Line) \subseteq P
  <2> HIDE DEF P
  <2> QED BY <1>1, <1>2, SeqInduction
<1> QED BY <1>3

\* What is left of two pieces is what is left of each.
LEMMA WithoutConcat ==
  ASSUME NEW a \in Seq(Line), NEW b \in Seq(Line), NEW tags
  PROVE  Without(a \o b, tags) = Without(a, tags) \o Without(b, tags)
<1> DEFINE P == {s \in Seq(Line) : Without(a \o s, tags) = Without(a, tags) \o Without(s, tags)}
<1>0. Without(a, tags) \in Seq(Line)
  BY WithoutType
<1>1. <<>> \in P
  BY <1>0, WithoutEmpty, EmptySeq, ConcatEmptySeq
<1>2. ASSUME NEW s \in Seq(Line), NEW l \in Line, s \in P PROVE Append(s, l) \in P
  <2>1. \A t, u \in Seq(Line) : t \o Append(u, l) = Append(t \o u, l)
    <3> TAKE t, u \in Seq(Line)
    <3>1. /\ Append(u, l) = u \o <<l>> /\ t \o u \in Seq(Line)
          /\ Append(t \o u, l) = (t \o u) \o <<l>> /\ <<l>> \in Seq(Line)
      BY AppendIsConcat, ConcatProperties
    <3> QED BY <3>1, ConcatAssociative
  <2>2. a \o s \in Seq(Line) /\ Without(s, tags) \in Seq(Line) /\ Append(s, l) \in Seq(Line)
    BY WithoutType, ConcatProperties, AppendProperties
  <2>3. Without(a \o Append(s, l), tags) =
          IF l.tag \in tags THEN Without(a \o s, tags) ELSE Append(Without(a \o s, tags), l)
    <3>1. a \o Append(s, l) = Append(a \o s, l)
      BY <2>1
    <3>2. Without(Append(a \o s, l), tags) =
            IF l.tag \in tags THEN Without(a \o s, tags) ELSE Append(Without(a \o s, tags), l)
      BY <2>2, WithoutAppend
    <3> QED BY <3>1, <3>2
  <2>4. Without(a \o s, tags) = Without(a, tags) \o Without(s, tags)
    BY <1>2
  <2>5. Append(Without(a, tags) \o Without(s, tags), l) =
          Without(a, tags) \o Append(Without(s, tags), l)
    BY <1>0, <2>1, <2>2
  <2>6. Without(a \o Append(s, l), tags) = Without(a, tags) \o Without(Append(s, l), tags)
    BY <2>3, <2>4, <2>5, WithoutAppend
  <2> QED BY <2>2, <2>6
<1>3. Seq(Line) \subseteq P
  <2> HIDE DEF P
  <2> QED BY <1>1, <1>2, SeqInduction
<1> QED BY <1>3

\* Lines without any of the tags stay as they are.
LEMMA WithoutNone ==
  ASSUME NEW ls \in Seq(Line), NEW tags, \A i \in 1..Len(ls) : ls[i].tag \notin tags
  PROVE  Without(ls, tags) = ls
<1> DEFINE P == {s \in Seq(Line) : (\A i \in 1..Len(s) : s[i].tag \notin tags)
                                     => Without(s, tags) = s}
<1>1. <<>> \in P
  BY WithoutEmpty, EmptySeq
<1>2. ASSUME NEW s \in Seq(Line), NEW l \in Line, s \in P PROVE Append(s, l) \in P
  <2>1. /\ Append(s, l) \in Seq(Line) /\ Len(Append(s, l)) = Len(s) + 1
        /\ \A i \in 1..Len(s) : Append(s, l)[i] = s[i]
        /\ Append(s, l)[Len(s) + 1] = l /\ Len(s) \in Nat
    BY AppendProperties, LenProperties
  <2>2. Without(Append(s, l), tags) =
          IF l.tag \in tags THEN Without(s, tags) ELSE Append(Without(s, tags), l)
    BY WithoutAppend
  <2>3. SUFFICES ASSUME \A i \in 1..Len(Append(s, l)) : Append(s, l)[i].tag \notin tags
                 PROVE  Without(Append(s, l), tags) = Append(s, l)
    BY <2>1
  <2>4. l.tag \notin tags
    BY <2>1, <2>3
  <2>5. \A i \in 1..Len(s) : s[i].tag \notin tags
    BY <2>1, <2>3
  <2> QED BY <1>2, <2>2, <2>4, <2>5
<1>3. Seq(Line) \subseteq P
  <2> HIDE DEF P
  <2> QED BY <1>1, <1>2, SeqInduction
<1> QED BY <1>3

-----------------------------------------------------------------------------
(* Pairs of lines *)

\* The line that follows a post-up line.
DownOf(l) == RuleLine("down", l.tag, l.port)
\* A post-up line has its post-down after it, unless it is the last line.
PairedSoFar(ls) == \A i \in 1..(Len(ls) - 1) : ls[i].way = "up" => ls[i + 1] = DownOf(ls[i])

\* What is left of lines that are paired, the last of them perhaps not yet.
LEMMA WithoutPairedSoFar ==
  ASSUME NEW ls \in Seq(Line), NEW tags, PairedSoFar(ls)
  PROVE  LET left == Without(ls, tags) IN
         /\ PairedSoFar(left)
         /\ left # <<>> /\ left[Len(left)].way = "up" =>
              ls # <<>> /\ ls[Len(ls)] = left[Len(left)]
<1> DEFINE Left(s) == Without(s, tags)
           Goal(s) == /\ PairedSoFar(Left(s))
                      /\ Left(s) # <<>> /\ Left(s)[Len(Left(s))].way = "up" =>
                           s # <<>> /\ s[Len(s)] = Left(s)[Len(Left(s))]
           P == {s \in Seq(Line) : PairedSoFar(s) => Goal(s)}
<1>1. <<>> \in P
  BY WithoutEmpty, EmptySeq DEF PairedSoFar
<1>2. ASSUME NEW s \in Seq(Line), NEW l \in Line, s \in P PROVE Append(s, l) \in P
  <2> DEFINE t == Append(s, l)
             k == Left(s)
  <2>1. /\ t \in Seq(Line) /\ Len(t) = Len(s) + 1 /\ Len(s) \in Nat /\ t # <<>>
        /\ \A i \in 1..Len(s) : t[i] = s[i]
        /\ t[Len(s) + 1] = l
    BY AppendProperties, LenProperties
  <2> SUFFICES ASSUME PairedSoFar(t) PROVE Goal(t)
    BY <2>1
  <2>2. PairedSoFar(s) /\ (s # <<>> /\ s[Len(s)].way = "up" => l = DownOf(s[Len(s)]))
    <3>1. s # <<>> => Len(s) \in 1..(Len(t) - 1)
      BY <2>1, EmptySeq
    <3> HIDE DEF t
    <3> QED BY <2>1, <3>1 DEF PairedSoFar
  <2>3. Goal(s)
    BY <1>2, <2>2
  <2>4. k \in Seq(Line) /\ Len(k) \in Nat /\ (k # <<>> => Len(k) \in 1..Len(k))
    BY WithoutType, LenProperties, EmptySeq
  <2>5. Left(t) = IF l.tag \in tags THEN k ELSE Append(k, l)
    BY WithoutAppend
  <2>6. k # <<>> => k[Len(k)].tag \notin tags
    <3>1. \A i \in 1..Len(k) : k[i] \in Range(k)
      BY <2>4, LenProperties DEF Range
    <3> QED BY <2>4, <3>1, WithoutRange
  <2>7. k # <<>> /\ k[Len(k)].way = "up" => l = DownOf(k[Len(k)])
    BY <2>2, <2>3
  <2>8. CASE l.tag \in tags
    <3>1. k # <<>> => k[Len(k)].way # "up"
      <4>1. \A m : DownOf(m).tag = m.tag
        BY DEF DownOf, RuleLine
      <4> HIDE DEF k
      <4> QED BY <2>6, <2>7, <2>8, <4>1
    <3> QED BY <2>3, <2>5, <2>8, <3>1
  <2>9. CASE l.tag \notin tags
    <3> DEFINE n == Append(k, l)
    <3>1. /\ Len(n) = Len(k) + 1 /\ n[Len(k) + 1] = l
          /\ \A i \in 1..Len(k) : n[i] = k[i]
      BY <2>4, AppendProperties
    <3> HIDE DEF n
    <3>2. PairedSoFar(n)
      <4> SUFFICES ASSUME NEW i \in 1..(Len(n) - 1), n[i].way = "up"
                   PROVE  n[i + 1] = DownOf(n[i])
        BY DEF PairedSoFar
      <4>1. CASE i = Len(k)
        <5>1. k # <<>>
          BY <4>1, EmptySeq
        <5> QED BY <2>7, <2>4, <3>1, <4>1, <5>1
      <4>2. CASE i # Len(k)
        <5>1. i \in 1..(Len(k) - 1) /\ i + 1 \in 1..Len(k) /\ i \in 1..Len(k)
          BY <2>4, <3>1, <4>2
        <5> QED BY <2>3, <3>1, <5>1 DEF PairedSoFar
      <4> QED BY <4>1, <4>2
    <3>3. n[Len(n)] = t[Len(t)]
      BY <2>1, <3>1
    <3>4. Left(t) = n
      BY <2>5, <2>9 DEF n
    <3> HIDE DEF t, Left
    <3> QED BY <2>1, <3>2, <3>3, <3>4
  <2> QED BY <2>8, <2>9
<1>3. Seq(Line) \subseteq P
  <2> HIDE DEF P
  <2> QED BY <1>1, <1>2, SeqInduction
<1> QED BY <1>3

\* What is left of pairs are pairs: both lines of a rule end with its tag.
LEMMA WithoutPaired ==
  ASSUME NEW ls \in Seq(Line), NEW tags, PairedIn(ls)
  PROVE  PairedIn(Without(ls, tags))
<1> DEFINE left == Without(ls, tags)
<1>1. left \in Seq(Line) /\ Len(left) \in Nat /\ DOMAIN left = 1..Len(left)
  BY WithoutType, LenProperties
<1>2. Len(ls) \in Nat /\ DOMAIN ls = 1..Len(ls)
  BY LenProperties
<1>3. PairedSoFar(ls)
  BY <1>2 DEF PairedIn, PairedSoFar, DownOf
<1>4. ls # <<>> => ls[Len(ls)].way # "up"
  <2>1. ls # <<>> => Len(ls) \in DOMAIN ls /\ Len(ls) + 1 \notin DOMAIN ls
    BY <1>2, EmptySeq
  <2> QED BY <2>1 DEF PairedIn
<1>5. PairedSoFar(left) /\ (left # <<>> => left[Len(left)].way # "up")
  BY <1>3, <1>4, WithoutPairedSoFar
<1> HIDE DEF left
<1>6. PairedIn(left)
  <2> SUFFICES ASSUME NEW i \in DOMAIN left, left[i].way = "up"
               PROVE  i + 1 \in DOMAIN left /\ left[i + 1] = DownOf(left[i])
    BY DEF PairedIn, DownOf
  <2>1. left # <<>>
    BY <1>1, EmptySeq
  <2>2. i # Len(left)
    BY <2>1, <1>5
  <2>3. i \in 1..(Len(left) - 1) /\ i + 1 \in DOMAIN left
    BY <1>1, <2>2
  <2> QED BY <2>3, <1>5 DEF PairedSoFar
<1> QED BY <1>6 DEF left

\* Pairs after pairs are pairs.
LEMMA PairedConcat ==
  ASSUME NEW a \in Seq(Line), NEW b \in Seq(Line), PairedIn(a), PairedIn(b)
  PROVE  PairedIn(a \o b)
<1> DEFINE ab == a \o b
<1>1. /\ ab \in Seq(Line) /\ DOMAIN ab = 1..(Len(a) + Len(b))
      /\ Len(a) \in Nat /\ DOMAIN a = 1..Len(a) /\ Len(b) \in Nat /\ DOMAIN b = 1..Len(b)
  BY ConcatProperties, LenProperties
<1>2. \A i \in 1..(Len(a) + Len(b)) : ab[i] = IF i <= Len(a) THEN a[i] ELSE b[i - Len(a)]
  BY ConcatProperties
<1> HIDE DEF ab
<1>3. PairedIn(ab)
  <2> SUFFICES ASSUME NEW i \in DOMAIN ab, ab[i].way = "up"
               PROVE  i + 1 \in DOMAIN ab /\ ab[i + 1] = DownOf(ab[i])
    BY DEF PairedIn, DownOf
  <2>1. CASE i <= Len(a)
    <3>1. i \in DOMAIN a /\ ab[i] = a[i]
      BY <1>1, <1>2, <2>1
    <3>2. i + 1 \in DOMAIN a /\ a[i + 1] = DownOf(a[i])
      BY <3>1 DEF PairedIn, DownOf
    <3> QED BY <1>1, <1>2, <3>1, <3>2
  <2>2. CASE i > Len(a)
    <3> DEFINE j == i - Len(a)
    <3>1. j \in DOMAIN b /\ ab[i] = b[j]
      BY <1>1, <1>2, <2>2
    <3>2. j + 1 \in DOMAIN b /\ b[j + 1] = DownOf(b[j])
      BY <3>1 DEF PairedIn, DownOf
    <3>3. i + 1 \in DOMAIN ab /\ ab[i + 1] = b[j + 1]
      BY <1>1, <1>2, <2>2, <3>2
    <3> QED BY <3>1, <3>2, <3>3
  <2> QED BY <1>1, <2>1, <2>2
<1> QED BY <1>3 DEF ab

\* Where no pair is cut, two pieces of pairs are pairs.
LEMMA PairedPieces ==
  ASSUME NEW a \in Seq(Line), NEW b \in Seq(Line), PairedIn(a \o b),
         \/ a # <<>> /\ a[Len(a)].way # "up"
         \/ b = <<>>
         \/ b[1].head # "rule"
         \/ b[1].tag # a[Len(a)].tag
  PROVE  PairedIn(a) /\ PairedIn(b)
<1> DEFINE ab == a \o b
<1>1. /\ ab \in Seq(Line) /\ DOMAIN ab = 1..(Len(a) + Len(b))
      /\ Len(a) \in Nat /\ DOMAIN a = 1..Len(a) /\ Len(b) \in Nat /\ DOMAIN b = 1..Len(b)
  BY ConcatProperties, LenProperties
<1>2. \A i \in 1..(Len(a) + Len(b)) : ab[i] = IF i <= Len(a) THEN a[i] ELSE b[i - Len(a)]
  BY ConcatProperties
<1>3. \A i \in DOMAIN ab : ab[i].way = "up" => i + 1 \in DOMAIN ab /\ ab[i + 1] = DownOf(ab[i])
  BY DEF PairedIn, DownOf
<1>4. \A l \in Line : DownOf(l).head = "rule" /\ DownOf(l).tag = l.tag
  BY DEF DownOf, RuleLine
<1>5. b = <<>> => Len(b) = 0
  BY EmptySeq
<1> HIDE DEF ab
<1>6. PairedIn(a)
  <2> SUFFICES ASSUME NEW i \in DOMAIN a, a[i].way = "up"
               PROVE  i + 1 \in DOMAIN a /\ a[i + 1] = DownOf(a[i])
    BY DEF PairedIn, DownOf
  <2>1. i \in DOMAIN ab /\ ab[i] = a[i] /\ a[i] \in Line
    BY <1>1, <1>2, ElementOfSeq
  <2>2. i + 1 \in DOMAIN ab /\ ab[i + 1] = DownOf(a[i])
    BY <1>3, <2>1
  <2>3. i # Len(a)
    <3> SUFFICES ASSUME i = Len(a) PROVE FALSE
      OBVIOUS
    <3>1. 1 \in DOMAIN b /\ ab[i + 1] = b[1]
      BY <1>1, <1>2, <2>2
    <3>2. b[1].head = "rule" /\ b[1].tag = a[Len(a)].tag
      BY <3>1, <2>1, <2>2, <1>4
    <3>3. a # <<>> /\ a[Len(a)].way = "up"
      BY <1>1, EmptySeq
    <3> QED BY <3>1, <3>2, <3>3, <1>1, <1>5
  <2> QED BY <1>1, <1>2, <2>2, <2>3
<1>7. PairedIn(b)
  <2> SUFFICES ASSUME NEW i \in DOMAIN b, b[i].way = "up"
               PROVE  i + 1 \in DOMAIN b /\ b[i + 1] = DownOf(b[i])
    BY DEF PairedIn, DownOf
  <2> DEFINE j == Len(a) + i
  <2>1. j \in DOMAIN ab /\ ab[j] = b[i]
    BY <1>1, <1>2
  <2>2. j + 1 \in DOMAIN ab /\ ab[j + 1] = DownOf(b[i])
    BY <1>3, <2>1
  <2>3. i + 1 \in DOMAIN b /\ ab[j + 1] = b[i + 1]
    BY <1>1, <1>2, <2>2
  <2> QED BY <2>2, <2>3
<1> QED BY <1>6, <1>7

-----------------------------------------------------------------------------
(* The stanza of internal_iface *)

\* A stanza that begins like that of internal_iface is found.
Found(a) == a # <<>> /\ StartsBlock(a[Len(a)])

\* The lines up to its iface line, those of the stanza, and those from its end on; if
\* none is found, all other lines and the rules of calls at the end.
Parts(ls, unended, proper, a, b, c) ==
  /\ a \in Seq(Line) /\ b \in Seq(Line) /\ c \in Seq(Line)
  /\ ls = (a \o b) \o c
  /\ \A i \in 1..(Len(a) - 1) : ~StartsBlock(a[i])
  /\ \A i \in 1..Len(b) : BodyLine(b[i], Found(a), proper)
  /\ IF Found(a) THEN a[Len(a)].way # "up" ELSE c = <<>>
  /\ c # <<>> => EndsBlock(c[1])
  /\ proper => Found(a) /\ a[Len(a)] = Plain("iface", Internal)
  /\ unended => c # <<>>
  /\ \A i \in 1..Len(a) : a[i].tag \notin CallTags
  /\ \A i \in 1..Len(c) : c[i].tag \notin CallTags

\* Where each line of three pieces is.
LEMMA ConcatThree ==
  ASSUME NEW a \in Seq(Line), NEW b \in Seq(Line), NEW c \in Seq(Line)
  PROVE  LET ls == (a \o b) \o c IN
         /\ ls \in Seq(Line) /\ Len(ls) = Len(a) + Len(b) + Len(c)
         /\ DOMAIN ls = 1..(Len(a) + Len(b) + Len(c))
         /\ Len(a) \in Nat /\ Len(b) \in Nat /\ Len(c) \in Nat
         /\ \A i \in 1..Len(a) : ls[i] = a[i]
         /\ \A i \in (Len(a) + 1)..(Len(a) + Len(b)) : ls[i] = b[i - Len(a)]
         /\ \A i \in (Len(a) + Len(b) + 1)..(Len(a) + Len(b) + Len(c)) :
              ls[i] = c[i - Len(a) - Len(b)]
<1>1. Len(a) \in Nat /\ Len(b) \in Nat /\ Len(c) \in Nat
  BY LenProperties
<1>2. /\ a \o b \in Seq(Line) /\ Len(a \o b) = Len(a) + Len(b)
      /\ \A i \in 1..(Len(a) + Len(b)) :
           (a \o b)[i] = IF i <= Len(a) THEN a[i] ELSE b[i - Len(a)]
  BY ConcatProperties
<1> DEFINE ab == a \o b
           ls == ab \o c
<1> HIDE DEF ab
<1>3. /\ ls \in Seq(Line) /\ Len(ls) = Len(ab) + Len(c)
      /\ \A i \in 1..(Len(ab) + Len(c)) :
           ls[i] = IF i <= Len(ab) THEN ab[i] ELSE c[i - Len(ab)]
  BY <1>2, ConcatProperties DEF ab
<1>4. DOMAIN ls = 1..Len(ls)
  BY <1>3, LenProperties
<1> HIDE DEF ls
<1>5. Len(ab) = Len(a) + Len(b)
  BY <1>2 DEF ab
<1>6. \A i \in 1..(Len(a) + Len(b)) : ab[i] = IF i <= Len(a) THEN a[i] ELSE b[i - Len(a)]
  BY <1>2 DEF ab
<1>7. \A i \in 1..Len(a) : ls[i] = a[i]
  BY <1>1, <1>3, <1>5, <1>6
<1>8. \A i \in (Len(a) + 1)..(Len(a) + Len(b)) : ls[i] = b[i - Len(a)]
  BY <1>1, <1>3, <1>5, <1>6
<1>9. \A i \in (Len(a) + Len(b) + 1)..(Len(a) + Len(b) + Len(c)) :
        ls[i] = c[i - Len(a) - Len(b)]
  BY <1>1, <1>3, <1>5
<1>10. ls \in Seq(Line) /\ Len(ls) = Len(a) + Len(b) + Len(c)
       /\ DOMAIN ls = 1..(Len(a) + Len(b) + Len(c))
  BY <1>3, <1>4, <1>5
<1> QED BY <1>1, <1>7, <1>8, <1>9, <1>10 DEF ls, ab

\* A file with the stanza set apart has the three parts.
LEMMA SeparatedParts ==
  ASSUME NEW ls \in Seq(Line), NEW unended, NEW proper, Separated(ls, unended, proper)
  PROVE  \E a, b, c \in Seq(Line) : Parts(ls, unended, proper, a, b, c)
<1>0. PICK s \in 0..Len(ls) :
        \E e \in (s + 1)..(Len(ls) + 1) : StanzaAt(ls, unended, proper, s, e)
  BY DEF Separated
<1>1. PICK e \in (s + 1)..(Len(ls) + 1) : StanzaAt(ls, unended, proper, s, e)
  BY <1>0
<1>2. Len(ls) \in Nat /\ DOMAIN ls = 1..Len(ls) /\ s \in 0..Len(ls) /\ e \in Nat
  BY LenProperties
<1>3. \A i \in 1..Len(ls) : ls[i] \in Line
  BY ElementOfSeq
<1> DEFINE a == SubSeq(ls, 1, s)
           b == SubSeq(ls, s + 1, e - 1)
           c == SubSeq(ls, e, Len(ls))
<1>4. /\ a \in Seq(Line) /\ Len(a) = s
      /\ \A i \in 1..s : a[i] = ls[i]
  <2>1. \A i \in 1..s : ls[i] \in Line
    BY <1>2, <1>3
  <2>2. /\ a \in Seq(Line) /\ Len(a) = IF 1 <= s THEN s - 1 + 1 ELSE 0
        /\ \A i \in 1..(s - 1 + 1) : a[i] = ls[1 + i - 1]
    BY <1>2, <2>1, SubSeqProperties
  <2>3. s - 1 + 1 = s /\ \A i \in 1..s : 1 + i - 1 = i
    BY <1>2
  <2>4. 1 <= s \/ s = 0
    BY <1>2
  <2> HIDE DEF a
  <2> QED BY <2>2, <2>3, <2>4
<1>5. /\ b \in Seq(Line) /\ Len(b) = e - 1 - s
      /\ \A i \in 1..(e - 1 - s) : b[i] = ls[s + i]
  <2>1. \A i \in (s + 1)..(e - 1) : ls[i] \in Line
    BY <1>1, <1>2, <1>3
  <2>2. /\ b \in Seq(Line) /\ Len(b) = IF s + 1 <= e - 1 THEN e - 1 - (s + 1) + 1 ELSE 0
        /\ \A i \in 1..(e - 1 - (s + 1) + 1) : b[i] = ls[s + 1 + i - 1]
    BY <1>2, <2>1, SubSeqProperties
  <2>3. e - 1 - (s + 1) + 1 = e - 1 - s /\ \A i \in 1..(e - 1 - s) : s + 1 + i - 1 = s + i
    BY <1>2
  <2>4. s + 1 > e - 1 => e - 1 - s = 0
    BY <1>1, <1>2
  <2>5. s + 1 <= e - 1 \/ s + 1 > e - 1
    BY <1>2
  <2> HIDE DEF b
  <2> QED BY <2>2, <2>3, <2>4, <2>5
<1>6. /\ c \in Seq(Line) /\ Len(c) = Len(ls) - e + 1
      /\ \A i \in 1..(Len(ls) - e + 1) : c[i] = ls[e + i - 1]
  <2>1. \A i \in e..Len(ls) : ls[i] \in Line
    BY <1>1, <1>2, <1>3
  <2>2. /\ c \in Seq(Line) /\ Len(c) = IF e <= Len(ls) THEN Len(ls) - e + 1 ELSE 0
        /\ \A i \in 1..(Len(ls) - e + 1) : c[i] = ls[e + i - 1]
    BY <1>2, <2>1, SubSeqProperties
  <2> HIDE DEF c
  <2> QED BY <1>1, <1>2, <2>2
<1> HIDE DEF a, b, c
<1>7. ls = (a \o b) \o c
  <2> DEFINE abc == (a \o b) \o c
  <2>1. /\ abc \in Seq(Line) /\ Len(abc) = Len(a) + Len(b) + Len(c)
        /\ \A i \in 1..Len(a) : abc[i] = a[i]
        /\ \A i \in (Len(a) + 1)..(Len(a) + Len(b)) : abc[i] = b[i - Len(a)]
        /\ \A i \in (Len(a) + Len(b) + 1)..(Len(a) + Len(b) + Len(c)) :
             abc[i] = c[i - Len(a) - Len(b)]
    <3>1. a \in Seq(Line) /\ b \in Seq(Line) /\ c \in Seq(Line)
      BY <1>4, <1>5, <1>6
    <3> QED BY <3>1, ConcatThree
  <2> HIDE DEF abc
  <2>2. Len(abc) = Len(ls)
    BY <1>1, <1>2, <1>4, <1>5, <1>6, <2>1
  <2>3. ASSUME NEW i \in 1..Len(ls) PROVE ls[i] = abc[i]
    <3>1. CASE i <= s
      BY <1>2, <1>4, <2>1, <3>1
    <3>2. CASE s < i /\ i < e
      <4>1. i \in (Len(a) + 1)..(Len(a) + Len(b)) /\ i - s \in 1..(e - 1 - s)
        BY <1>2, <1>4, <1>5, <3>2
      <4>2. abc[i] = b[i - s]
        BY <1>4, <2>1, <4>1
      <4>3. b[i - s] = ls[s + (i - s)]
        BY <1>5, <4>1
      <4>4. s + (i - s) = i
        BY <1>2
      <4> QED BY <4>2, <4>3, <4>4
    <3>3. CASE e <= i
      <4>1. /\ i \in (Len(a) + Len(b) + 1)..(Len(a) + Len(b) + Len(c))
            /\ i - e + 1 \in 1..(Len(ls) - e + 1) /\ i - Len(a) - Len(b) = i - e + 1
        BY <1>1, <1>2, <1>4, <1>5, <1>6, <3>3
      <4>2. abc[i] = c[i - e + 1]
        BY <2>1, <4>1
      <4>3. c[i - e + 1] = ls[e + (i - e + 1) - 1]
        BY <1>6, <4>1
      <4>4. e + (i - e + 1) - 1 = i
        BY <1>2
      <4> QED BY <4>2, <4>3, <4>4
    <3> QED BY <1>1, <1>2, <3>1, <3>2, <3>3
  <2>4. ls = abc
    BY <2>1, <2>2, <2>3, SeqEqual
  <2> QED BY <2>4 DEF abc
<1> DEFINE found == s # 0 /\ StartsBlock(ls[s])
<1>a. /\ \A i \in 1..(s - 1) : ~StartsBlock(ls[i])
      /\ \A i \in (s + 1)..(e - 1) : BodyLine(ls[i], found, proper)
      /\ IF found THEN ls[s].way # "up" ELSE e \notin DOMAIN ls
      /\ e \in DOMAIN ls => EndsBlock(ls[e])
      /\ proper => found /\ ls[s] = Plain("iface", Internal)
      /\ unended => e \in DOMAIN ls
      /\ \A i \in DOMAIN ls : ls[i].tag \in CallTags => s < i /\ i < e
  BY <1>1 DEF StanzaAt
<1>b. s # 0 => a # <<>> /\ a[Len(a)] = ls[s]
  BY <1>2, <1>4, EmptySeq
<1>c. Found(a) <=> found
  <2>1. s = 0 => a = <<>>
    BY <1>4, EmptySeq
  <2> QED BY <1>b, <2>1 DEF Found
<1> HIDE DEF found
<1>9. \A i \in 1..(Len(a) - 1) : ~StartsBlock(a[i])
  BY <1>a, <1>2, <1>4
<1>10. \A i \in 1..Len(b) : BodyLine(b[i], Found(a), proper)
  <2> TAKE i \in 1..Len(b)
  <2>1. s + i \in (s + 1)..(e - 1) /\ b[i] = ls[s + i]
    BY <1>1, <1>2, <1>5
  <2>2. BodyLine(b[i], found, proper)
    BY <1>a, <2>1
  <2> QED BY <1>c, <2>2 DEF BodyLine
<1>11. c # <<>> <=> e \in DOMAIN ls
  <2>1. c # <<>> <=> Len(c) # 0
    BY <1>6, EmptySeq
  <2> QED BY <1>1, <1>2, <1>6, <2>1
<1>12. c # <<>> => EndsBlock(c[1])
  <2>1. e \in DOMAIN ls => c[1] = ls[e]
    BY <1>1, <1>2, <1>6
  <2> QED BY <1>a, <1>11, <2>1
<1>13. unended => c # <<>>
  BY <1>a, <1>11
<1>d. IF Found(a) THEN a[Len(a)].way # "up" ELSE c = <<>>
  <2>1. found => s # 0
    BY DEF found
  <2> QED BY <1>a, <1>b, <1>c, <1>11, <2>1
<1>e. proper => Found(a) /\ a[Len(a)] = Plain("iface", Internal)
  BY <1>a, <1>b, <1>c DEF found
<1>14. \A i \in 1..Len(a) : a[i].tag \notin CallTags
  BY <1>a, <1>2, <1>4
<1>15. \A i \in 1..Len(c) : c[i].tag \notin CallTags
  <2> TAKE i \in 1..Len(c)
  <2>1. c[i] = ls[e + i - 1] /\ e + i - 1 \in DOMAIN ls /\ ~ (e + i - 1 < e)
    BY <1>1, <1>2, <1>6
  <2> QED BY <1>a, <2>1
<1>16. Parts(ls, unended, proper, a, b, c)
  BY <1>4, <1>5, <1>6, <1>7, <1>d, <1>e, <1>9, <1>10, <1>12, <1>13, <1>14, <1>15 DEF Parts
<1> QED BY <1>4, <1>5, <1>6, <1>16

\* A file of three such parts has the stanza set apart.
LEMMA PartsSeparated ==
  ASSUME NEW a \in Seq(Line), NEW b \in Seq(Line), NEW c \in Seq(Line),
         NEW ls, NEW unended, NEW proper, Parts(ls, unended, proper, a, b, c)
  PROVE  Separated(ls, unended, proper)
<1> DEFINE s == Len(a)
           e == Len(a) + Len(b) + 1
<1>1. ls = (a \o b) \o c
  BY DEF Parts
<1>2. /\ ls \in Seq(Line) /\ Len(ls) = Len(a) + Len(b) + Len(c)
      /\ DOMAIN ls = 1..(Len(a) + Len(b) + Len(c))
      /\ Len(a) \in Nat /\ Len(b) \in Nat /\ Len(c) \in Nat
      /\ \A i \in 1..Len(a) : ls[i] = a[i]
      /\ \A i \in (Len(a) + 1)..(Len(a) + Len(b)) : ls[i] = b[i - Len(a)]
      /\ \A i \in (Len(a) + Len(b) + 1)..(Len(a) + Len(b) + Len(c)) :
           ls[i] = c[i - Len(a) - Len(b)]
  BY <1>1, ConcatThree
<1> DEFINE found == s # 0 /\ StartsBlock(ls[s])
<1>3. a # <<>> <=> s # 0
  BY <1>2, EmptySeq
<1>4. s \in 0..Len(ls) /\ e \in (s + 1)..(Len(ls) + 1)
  BY <1>2
<1>5. s # 0 => ls[s] = a[Len(a)]
  BY <1>2
<1>a. found <=> Found(a)
  BY <1>3, <1>5 DEF Found
<1>b. proper => found /\ ls[s] = Plain("iface", Internal)
  BY <1>a, <1>5 DEF Parts
<1>6. \A i \in 1..(s - 1) : ~StartsBlock(ls[i])
  BY <1>2 DEF Parts
<1>7. \A i \in (s + 1)..(e - 1) : BodyLine(ls[i], found, proper)
  <2> TAKE i \in (s + 1)..(e - 1)
  <2>1. ls[i] = b[i - Len(a)] /\ i - Len(a) \in 1..Len(b)
    BY <1>2
  <2>2. BodyLine(b[i - Len(a)], Found(a), proper)
    BY <2>1 DEF Parts
  <2> HIDE DEF found, s
  <2> QED BY <1>a, <2>1, <2>2 DEF BodyLine
<1>8. c # <<>> <=> e \in DOMAIN ls
  <2>1. c # <<>> <=> Len(c) # 0
    BY EmptySeq
  <2> QED BY <1>2, <2>1
<1>9. e \in DOMAIN ls => EndsBlock(ls[e])
  <2> SUFFICES ASSUME e \in DOMAIN ls PROVE EndsBlock(ls[e])
    OBVIOUS
  <2>1. ls[e] = c[1]
    BY <1>2
  <2> QED BY <1>8, <2>1 DEF Parts
<1>10. unended => e \in DOMAIN ls
  BY <1>8 DEF Parts
<1>c. IF found THEN ls[s].way # "up" ELSE e \notin DOMAIN ls
  <2>1. IF Found(a) THEN a[Len(a)].way # "up" ELSE c = <<>>
    BY DEF Parts
  <2>2. found => s # 0
    OBVIOUS
  <2> HIDE DEF found, s, e
  <2> QED BY <1>a, <1>5, <1>8, <2>1, <2>2
<1>11. \A i \in DOMAIN ls : ls[i].tag \in CallTags => s < i /\ i < e
  <2> SUFFICES ASSUME NEW i \in DOMAIN ls, ls[i].tag \in CallTags PROVE s < i /\ i < e
    OBVIOUS
  <2>1. i \notin 1..Len(a)
    BY <1>2 DEF Parts
  <2>2. i \notin (Len(a) + Len(b) + 1)..(Len(a) + Len(b) + Len(c))
    <3> SUFFICES ASSUME i \in (Len(a) + Len(b) + 1)..(Len(a) + Len(b) + Len(c))
                 PROVE  FALSE
      OBVIOUS
    <3>1. ls[i] = c[i - Len(a) - Len(b)] /\ i - Len(a) - Len(b) \in 1..Len(c)
      BY <1>2
    <3> QED BY <3>1 DEF Parts
  <2> QED BY <1>2, <2>1, <2>2
<1> HIDE DEF s, e
<1>12. StanzaAt(ls, unended, proper, s, e)
  BY <1>b, <1>c, <1>6, <1>7, <1>9, <1>10, <1>11 DEF StanzaAt
<1> QED BY <1>4, <1>12 DEF Separated

\* The least element of a set of naturals is its minimum, the greatest its maximum.
LEMMA MinIs ==
  ASSUME NEW T, T \subseteq Nat, NEW x \in T, \A y \in T : x <= y
  PROVE  Min(T) = x
<1>1. \A z \in T : (\A y \in T : z <= y) => z = x
  OBVIOUS
<1> QED BY <1>1 DEF Min

LEMMA MaxIs ==
  ASSUME NEW T, T \subseteq Nat, NEW x \in T, \A y \in T : x >= y
  PROVE  Max(T) = x
<1>1. \A z \in T : (\A y \in T : z >= y) => z = x
  OBVIOUS
<1> QED BY <1>1 DEF Max

\* Rules are inserted before the line that ends the stanza, or at the end.
LEMMA PartsInsertPoint ==
  ASSUME NEW ls, NEW unended, NEW proper, NEW a, NEW b, NEW c, Parts(ls, unended, proper, a, b, c)
  PROVE  InsertPoint(ls) = Len(a) + Len(b) + 1
<1> DEFINE e == Len(a) + Len(b) + 1
           T == {i \in DOMAIN ls : /\ EndsBlock(ls[i])
                                   /\ \E j \in 1..(i - 1) : StartsBlock(ls[j])}
                \cup {Len(ls) + 1}
<1>0. ls = (a \o b) \o c /\ a \in Seq(Line) /\ b \in Seq(Line) /\ c \in Seq(Line)
  BY DEF Parts
<1>1. /\ ls \in Seq(Line) /\ Len(ls) = Len(a) + Len(b) + Len(c)
      /\ DOMAIN ls = 1..(Len(a) + Len(b) + Len(c))
      /\ Len(a) \in Nat /\ Len(b) \in Nat /\ Len(c) \in Nat
      /\ \A i \in 1..Len(a) : ls[i] = a[i]
      /\ \A i \in (Len(a) + 1)..(Len(a) + Len(b)) : ls[i] = b[i - Len(a)]
      /\ \A i \in (Len(a) + Len(b) + 1)..(Len(a) + Len(b) + Len(c)) :
           ls[i] = c[i - Len(a) - Len(b)]
  BY <1>0, ConcatThree
<1>2. Found(a) => Len(a) > 0 /\ StartsBlock(a[Len(a)])
  BY <1>1, <1>0, EmptySeq DEF Found
<1>a. \A l : BodyLine(l, Found(a), proper) => ~EndsBlock(l)
  BY DEF BodyLine
<1>3. e \in T
  <2>1. CASE c = <<>>
    BY <2>1, <1>1, EmptySeq
  <2>2. CASE c # <<>>
    <3>1. e \in DOMAIN ls /\ ls[e] = c[1]
      <4>1. Len(c) > 0
        BY <2>2, <1>0, <1>1, EmptySeq
      <4> QED BY <4>1, <1>1
    <3>2. EndsBlock(ls[e])
      BY <2>2, <3>1 DEF Parts
    <3>3. Len(a) \in 1..(e - 1) /\ StartsBlock(ls[Len(a)])
      BY <1>1, <1>2, <2>2 DEF Parts
    <3> QED BY <3>1, <3>2, <3>3
  <2> QED BY <2>1, <2>2
<1>4. ASSUME NEW i \in DOMAIN ls, EndsBlock(ls[i]),
             NEW j \in 1..(i - 1), StartsBlock(ls[j])
      PROVE  e <= i
  <2>0. CASE ~Found(a)
    <3>1. c = <<>> /\ Len(c) = 0
      BY <1>0, <2>0, EmptySeq DEF Parts
    <3>2. \A k \in 1..Len(b) : ~StartsBlock(b[k])
      BY <2>0 DEF Parts, BodyLine
    <3>3. a # <<>> => ~StartsBlock(a[Len(a)])
      BY <2>0 DEF Found
    <3>4. a # <<>> <=> Len(a) # 0
      BY <1>0, EmptySeq
    <3>5. \A k \in 1..Len(a) : ~StartsBlock(a[k])
      BY <1>1, <3>3, <3>4 DEF Parts
    <3>6. ~StartsBlock(ls[j])
      <4>1. j \in 1..Len(a) \/ j - Len(a) \in 1..Len(b)
        BY <1>1, <3>1
      <4>2. j \notin 1..Len(a) => ls[j] = b[j - Len(a)]
        BY <1>1, <4>1
      <4> QED BY <1>1, <3>2, <3>5, <4>1, <4>2
    <3> QED BY <1>4, <3>6
  <2>1. i > Len(a)
    <3> SUFFICES ASSUME i <= Len(a) PROVE FALSE
      BY <1>1
    <3>1. j \in 1..(Len(a) - 1) /\ ls[j] = a[j]
      BY <1>1
    <3> QED BY <1>4, <3>1 DEF Parts
  <2>2. i > Len(a) + Len(b)
    <3> SUFFICES ASSUME i <= Len(a) + Len(b) PROVE FALSE
      BY <1>1
    <3>1. i - Len(a) \in 1..Len(b) /\ ls[i] = b[i - Len(a)]
      BY <1>1, <2>1
    <3>2. ~EndsBlock(ls[i])
      BY <1>a, <3>1 DEF Parts
    <3> QED BY <1>4, <3>2
  <2> QED BY <1>1, <2>2
<1>5. T \subseteq Nat
  BY <1>1
<1>6. \A y \in T : e <= y
  BY <1>1, <1>4
<1>7. InsertPoint(ls) = Min(T)
  BY DEF InsertPoint
<1> HIDE DEF T, e
<1>8. Min(T) = e
  BY <1>3, <1>5, <1>6, MinIs
<1> QED BY <1>7, <1>8 DEF e

\* The stanza grows by the new lines, at its end.
LEMMA PartsInserted ==
  ASSUME NEW ls, NEW unended, NEW proper, NEW a, NEW b, NEW c, Parts(ls, unended, proper, a, b, c),
         NEW new \in Seq(Line)
  PROVE  Inserted(ls, new) = (a \o (b \o new)) \o c
<1>0. ls = (a \o b) \o c /\ a \in Seq(Line) /\ b \in Seq(Line) /\ c \in Seq(Line)
  BY DEF Parts
<1> DEFINE ab == a \o b
           p == InsertPoint(ls)
<1>1. ab \in Seq(Line) /\ Len(ab) = Len(a) + Len(b) /\ Len(ab) \in Nat /\ Len(c) \in Nat
  BY <1>0, ConcatProperties, LenProperties
<1>2. p = Len(ab) + 1
  BY <1>1, PartsInsertPoint
<1> HIDE DEF ab, p
<1>3. /\ ls \in Seq(Line) /\ Len(ls) = Len(ab) + Len(c)
      /\ \A i \in 1..(Len(ab) + Len(c)) :
           ls[i] = IF i <= Len(ab) THEN ab[i] ELSE c[i - Len(ab)]
  <2>1. ls = ab \o c
    BY <1>0 DEF ab
  <2>2. ab \in Seq(Line) /\ c \in Seq(Line)
    BY <1>0, <1>1
  <2>3. /\ ab \o c \in Seq(Line) /\ Len(ab \o c) = Len(ab) + Len(c)
        /\ \A i \in 1..(Len(ab) + Len(c)) :
             (ab \o c)[i] = IF i <= Len(ab) THEN ab[i] ELSE c[i - Len(ab)]
    BY <2>2, ConcatProperties
  <2> QED BY <2>1, <2>3
<1>4. SubSeq(ls, 1, p - 1) = ab
  <2> DEFINE pre == SubSeq(ls, 1, Len(ab))
  <2>1. \A i \in 1..Len(ab) : ls[i] \in Line
    BY <1>1, <1>3, ElementOfSeq
  <2>2. pre \in Seq(Line) /\ Len(pre) = Len(ab) /\ \A i \in 1..Len(ab) : pre[i] = ls[i]
    <3>1. /\ pre \in Seq(Line) /\ Len(pre) = IF 1 <= Len(ab) THEN Len(ab) - 1 + 1 ELSE 0
          /\ \A i \in 1..(Len(ab) - 1 + 1) : pre[i] = ls[1 + i - 1]
      BY <1>1, <2>1, SubSeqProperties
    <3>2. Len(ab) - 1 + 1 = Len(ab) /\ \A i \in 1..Len(ab) : 1 + i - 1 = i
      BY <1>1
    <3>3. 1 <= Len(ab) \/ Len(ab) = 0
      BY <1>1
    <3> HIDE DEF pre
    <3> QED BY <3>1, <3>2, <3>3
  <2>3. \A i \in 1..Len(ab) : pre[i] = ab[i]
    BY <1>1, <1>3, <2>2
  <2>4. pre = ab
    BY <1>1, <2>2, <2>3, SeqEqual
  <2>5. p - 1 = Len(ab)
    BY <1>1, <1>2
  <2> QED BY <2>4, <2>5
<1>5. SubSeq(ls, p, Len(ls)) = c
  <2> DEFINE post == SubSeq(ls, Len(ab) + 1, Len(ab) + Len(c))
  <2>1. \A i \in (Len(ab) + 1)..(Len(ab) + Len(c)) : ls[i] \in Line
    BY <1>1, <1>3, ElementOfSeq
  <2>2. post \in Seq(Line) /\ Len(post) = Len(c) /\ \A i \in 1..Len(c) : post[i] = ls[Len(ab) + i]
    <3> DEFINE m == Len(ab) + 1
               n == Len(ab) + Len(c)
    <3>1. /\ post \in Seq(Line) /\ Len(post) = IF m <= n THEN n - m + 1 ELSE 0
          /\ \A i \in 1..(n - m + 1) : post[i] = ls[m + i - 1]
      BY <1>1, <2>1, SubSeqProperties
    <3>2. n - m + 1 = Len(c) /\ \A i \in 1..Len(c) : m + i - 1 = Len(ab) + i
      BY <1>1
    <3>3. m <= n \/ Len(c) = 0
      BY <1>1
    <3> HIDE DEF post, m, n
    <3> QED BY <3>1, <3>2, <3>3
  <2>3. \A i \in 1..Len(c) : post[i] = c[i]
    <3> TAKE i \in 1..Len(c)
    <3> DEFINE j == Len(ab) + i
    <3>1. j \in 1..(Len(ab) + Len(c)) /\ ~ (j <= Len(ab)) /\ j - Len(ab) = i
      BY <1>1
    <3>2. ls[j] = c[i]
      <4> HIDE DEF j
      <4> QED BY <1>3, <3>1
    <3> QED BY <2>2, <3>2
  <2>4. post = c
    BY <1>0, <2>2, <2>3, SeqEqual
  <2> QED BY <1>2, <1>3, <2>4
<1>6. Inserted(ls, new) = (ab \o new) \o c
  <2>1. Inserted(ls, new) = SubSeq(ls, 1, p - 1) \o new \o SubSeq(ls, p, Len(ls))
    BY DEF Inserted, p
  <2> QED BY <2>1, <1>4, <1>5
<1>7. ab \o new = a \o (b \o new)
  BY <1>0, ConcatAssociative DEF ab
<1> QED BY <1>6, <1>7

\* A body of other options and rules makes the same three parts.
LEMMA PartsOfBody ==
  ASSUME NEW ls, NEW unended, NEW proper, NEW a, NEW b, NEW c, Parts(ls, unended, proper, a, b, c),
         NEW body \in Seq(Line),
         \A i \in 1..Len(body) : BodyLine(body[i], Found(a), proper)
  PROVE  Parts((a \o body) \o c, unended, proper, a, body, c)
BY DEF Parts

\* The pieces of a file of pairs are pairs.
LEMMA PartsPaired ==
  ASSUME NEW ls, NEW unended, NEW proper, NEW a, NEW b, NEW c, Parts(ls, unended, proper, a, b, c)
  PROVE  PairedIn(ls) <=> PairedIn(a) /\ PairedIn(b) /\ PairedIn(c)
<1>0. ls = (a \o b) \o c /\ a \in Seq(Line) /\ b \in Seq(Line) /\ c \in Seq(Line)
  BY DEF Parts
<1>1. a \o b \in Seq(Line)
  BY <1>0, ConcatProperties
<1>2. ASSUME PairedIn(a), PairedIn(b), PairedIn(c) PROVE PairedIn(ls)
  <2>1. PairedIn(a \o b)
    BY <1>0, <1>2, PairedConcat
  <2> QED BY <1>0, <1>1, <1>2, <2>1, PairedConcat
<1>3. ASSUME PairedIn(ls) PROVE PairedIn(a) /\ PairedIn(b) /\ PairedIn(c)
  <2>1. c = <<>> \/ c[1].head # "rule"
    BY DEF Parts, EndsBlock
  <2>2. PairedIn(a \o b) /\ PairedIn(c)
    BY <1>0, <1>1, <1>3, <2>1, PairedPieces
  <2>3. CASE Found(a)
    <3>1. a # <<>> /\ a[Len(a)].way # "up"
      BY <2>3 DEF Parts, Found
    <3> QED BY <1>0, <2>2, <3>1, PairedPieces
  <2>4. CASE ~Found(a) /\ a # <<>> /\ b # <<>>
    <3>1. Len(a) \in 1..Len(a) /\ 1 \in 1..Len(b)
      BY <1>0, <2>4, EmptySeq, LenProperties
    <3>2. b[1].tag \in CallTags /\ a[Len(a)].tag \notin CallTags
      BY <2>4, <3>1 DEF Parts, BodyLine
    <3>3. b[1].tag # a[Len(a)].tag
      BY <3>2
    <3> QED BY <1>0, <2>2, <3>3, PairedPieces
  <2>5. CASE a = <<>>
    <3>1. a \o b = b /\ PairedIn(a)
      BY <1>0, <2>5, ConcatEmptySeq DEF PairedIn
    <3> QED BY <2>2, <3>1
  <2>6. CASE b = <<>>
    <3>1. PairedIn(a) /\ PairedIn(b)
      BY <1>0, <2>2, <2>6, PairedPieces
    <3> QED BY <2>2, <3>1
  <2> QED BY <2>3, <2>4, <2>5, <2>6
<1> QED BY <1>2, <1>3

-----------------------------------------------------------------------------
(* What the edits do to the rules and to the other lines *)

\* The rules of two pieces are those of each.
LEMMA RulesOfConcat ==
  ASSUME NEW s \in Seq(Line), NEW t \in Seq(Line)
  PROVE  RulesOf(s \o t) = RulesOf(s) \cup RulesOf(t)
<1>1. Range(s \o t) = Range(s) \cup Range(t)
  BY RangeConcatenation
<1> QED BY <1>1 DEF RulesOf

\* Without the lines that end with one of the tags, the rules are those of the
\* other tags.
LEMMA RulesOfWithout ==
  ASSUME NEW ls \in Seq(Line), NEW tags
  PROVE  RulesOf(Without(ls, tags)) = {r \in RulesOf(ls) : r.tag \notin tags}
<1>1. Range(Without(ls, tags)) = {l \in Range(ls) : l.tag \notin tags}
  BY WithoutRange
<1> DEFINE R(l) == [tag |-> l.tag, port |-> l.port]
<1>2. \A l : R(l).tag = l.tag
  OBVIOUS
<1>3. /\ RulesOf(Without(ls, tags)) = {R(l) : l \in {l \in Range(Without(ls, tags)) : l.way = "up"}}
      /\ RulesOf(ls) = {R(l) : l \in {l \in Range(ls) : l.way = "up"}}
  BY DEF RulesOf
<1> HIDE DEF R
<1> QED BY <1>1, <1>2, <1>3

\* The two lines of a rule: what they are, and that they are one rule.
LEMMA LinesOfRule ==
  ASSUME NEW tag \in CallTags, NEW port \in Ports
  PROVE  LET two == Lines(tag, port) IN
         /\ two \in Seq(Line) /\ Len(two) = 2
         /\ \A i \in 1..2 : two[i].head = "rule" /\ two[i].tag = tag
         /\ PairedIn(two)
         /\ RulesOf(two) = {[tag |-> tag, port |-> port]}
<1> DEFINE up == RuleLine("up", tag, port)
           down == RuleLine("down", tag, port)
<1>1. tag \in 0..MaxTag /\ port \in 0..MaxPort
  BY FileAssumption DEF Tags, Ports
<1>2. up \in Line /\ down \in Line
  BY <1>1 DEF RuleLine, Line, Heads
<1>3. Lines(tag, port) = <<up, down>>
  BY DEF Lines
<1>4. /\ up.head = "rule" /\ up.way = "up" /\ up.tag = tag /\ up.port = port
      /\ down.head = "rule" /\ down.way = "down" /\ down.tag = tag
  BY DEF RuleLine
<1>5. down = RuleLine("down", up.tag, up.port)
  BY <1>4
<1> HIDE DEF up, down
<1>6. /\ <<up, down>> \in Seq(Line) /\ Len(<<up, down>>) = 2
      /\ <<up, down>>[1] = up /\ <<up, down>>[2] = down /\ DOMAIN <<up, down>> = {1, 2}
  BY <1>2
<1>7. PairedIn(<<up, down>>)
  BY <1>4, <1>5, <1>6 DEF PairedIn
<1>8. Range(<<up, down>>) = {up, down}
  BY <1>6 DEF Range
<1>9. RulesOf(<<up, down>>) = {[tag |-> tag, port |-> port]}
  <2>1. {l \in {up, down} : l.way = "up"} = {up}
    BY <1>4
  <2> QED BY <1>4, <1>8, <2>1 DEF RulesOf
<1>10. \A i \in 1..2 : <<up, down>>[i].head = "rule" /\ <<up, down>>[i].tag = tag
  BY <1>4, <1>6
<1> QED BY <1>3, <1>6, <1>7, <1>9, <1>10

\* A file that a call can edit.
Editable(ls, unended, proper) ==
    ls \in Seq(Line) /\ Separated(ls, unended, proper) /\ PairedIn(ls)

\* Removing rules of calls leaves it one, with the other lines as they were.
LEMMA RemovedEditable ==
  ASSUME NEW ls, NEW unended, NEW proper, Editable(ls, unended, proper),
         NEW tags \in SUBSET CallTags
  PROVE  LET left == Without(ls, tags) IN
         /\ Editable(left, unended, proper)
         /\ Others(left) = Others(ls)
         /\ RulesOf(left) = {r \in RulesOf(ls) : r.tag \notin tags}
<1> DEFINE left == Without(ls, tags)
<1>1. PICK a \in Seq(Line), b \in Seq(Line), c \in Seq(Line) : Parts(ls, unended, proper, a, b, c)
  BY SeparatedParts DEF Editable
<1>2. ls = (a \o b) \o c /\ ls \in Seq(Line) /\ a \o b \in Seq(Line)
  BY <1>1, ConcatProperties DEF Parts, Editable
<1>3. Without(a, tags) = a /\ Without(c, tags) = c
  <2>1. /\ \A i \in 1..Len(a) : a[i].tag \notin tags
        /\ \A i \in 1..Len(c) : c[i].tag \notin tags
    BY <1>1 DEF Parts
  <2> QED BY <2>1, WithoutNone
<1> DEFINE body == Without(b, tags)
<1>4. left = (a \o body) \o c
  <2>1. Without(a \o b, tags) = Without(a, tags) \o body
    BY WithoutConcat
  <2>2. Without((a \o b) \o c, tags) = Without(a \o b, tags) \o Without(c, tags)
    <3> DEFINE ab == a \o b
    <3>1. ab \in Seq(Line)
      BY <1>2
    <3> HIDE DEF ab
    <3>2. Without(ab \o c, tags) = Without(ab, tags) \o Without(c, tags)
      BY <3>1, WithoutConcat
    <3> QED BY <3>2 DEF ab
  <2> QED BY <1>2, <1>3, <2>1, <2>2
<1>5. body \in Seq(Line)
  BY WithoutType
<1>6. \A i \in 1..Len(body) : BodyLine(body[i], Found(a), proper)
  <2> TAKE i \in 1..Len(body)
  <2>1. body[i] \in Range(body)
    BY <1>5, LenProperties DEF Range
  <2>2. body[i] \in Range(b)
    BY <2>1, WithoutRange
  <2>3. PICK j \in 1..Len(b) : b[j] = body[i]
    BY <2>2, LenProperties DEF Range
  <2> QED BY <1>1, <2>3 DEF Parts
<1>7. PairedIn(a) /\ PairedIn(b) /\ PairedIn(c)
  BY <1>1, PartsPaired DEF Editable
<1>8. PairedIn(body)
  BY <1>7, WithoutPaired
<1> HIDE DEF body, left
<1>9. Parts(left, unended, proper, a, body, c)
  BY <1>1, <1>4, <1>5, <1>6, PartsOfBody
<1>10. Separated(left, unended, proper)
  BY <1>5, <1>9, PartsSeparated
<1>11. PairedIn(left)
  BY <1>7, <1>8, <1>9, PartsPaired
<1>12. left \in Seq(Line) /\ RulesOf(left) = {r \in RulesOf(ls) : r.tag \notin tags}
  BY <1>2, WithoutType, RulesOfWithout DEF left
<1>13. Others(left) = Others(ls)
  <2>1. Without(left, CallTags) = Without(ls, CallTags)
    BY <1>2, WithoutTwice DEF left
  <2> QED BY <2>1 DEF Others, Without
<1> QED BY <1>10, <1>11, <1>12, <1>13 DEF Editable, left

\* Inserting a rule of a call leaves it one, with that rule and the other lines as
\* they were.
LEMMA InsertedEditable ==
  ASSUME NEW ls, NEW unended, NEW proper, Editable(ls, unended, proper),
         NEW tag \in CallTags, NEW port \in Ports
  PROVE  LET done == Inserted(ls, Lines(tag, port)) IN
         /\ Editable(done, unended, proper)
         /\ Others(done) = Others(ls)
         /\ RulesOf(done) = RulesOf(ls) \cup {[tag |-> tag, port |-> port]}
<1> DEFINE new == Lines(tag, port)
           done == Inserted(ls, new)
<1>1. PICK a \in Seq(Line), b \in Seq(Line), c \in Seq(Line) : Parts(ls, unended, proper, a, b, c)
  BY SeparatedParts DEF Editable
<1>2. ls = (a \o b) \o c /\ ls \in Seq(Line) /\ a \o b \in Seq(Line)
  BY <1>1, ConcatProperties DEF Parts, Editable
<1>3. /\ new \in Seq(Line) /\ Len(new) = 2
      /\ \A i \in 1..2 : new[i].head = "rule" /\ new[i].tag = tag
      /\ PairedIn(new)
      /\ RulesOf(new) = {[tag |-> tag, port |-> port]}
  BY LinesOfRule
<1> HIDE DEF new
<1> DEFINE body == b \o new
<1>4. done = (a \o body) \o c
  <2>1. \A n \in Seq(Line) : Inserted(ls, n) = (a \o (b \o n)) \o c
    BY <1>1, PartsInserted
  <2> QED BY <1>3, <2>1
<1>5. body \in Seq(Line) /\ a \o body \in Seq(Line) /\ done \in Seq(Line)
  BY <1>3, <1>4, ConcatProperties
<1>6. \A i \in 1..Len(body) : BodyLine(body[i], Found(a), proper)
  <2> TAKE i \in 1..Len(body)
  <2>1. /\ Len(body) = Len(b) + Len(new) /\ Len(b) \in Nat /\ Len(new) \in Nat
        /\ body[i] = IF i <= Len(b) THEN b[i] ELSE new[i - Len(b)]
    <3>1. new \in Seq(Line) /\ b \in Seq(Line)
      BY <1>3
    <3>2. /\ Len(b \o new) = Len(b) + Len(new)
          /\ \A j \in 1..(Len(b) + Len(new)) :
               (b \o new)[j] = IF j <= Len(b) THEN b[j] ELSE new[j - Len(b)]
      BY <3>1, ConcatProperties
    <3>3. Len(b) \in Nat /\ Len(new) \in Nat
      BY <3>1, LenProperties
    <3> QED BY <3>2, <3>3
  <2>2. CASE i <= Len(b)
    <3>1. i \in 1..Len(b) /\ body[i] = b[i]
      BY <2>1, <2>2
    <3> QED BY <1>1, <3>1 DEF Parts
  <2>3. CASE ~ (i <= Len(b))
    <3>1. i - Len(b) \in 1..2 /\ body[i] = new[i - Len(b)]
      BY <1>3, <2>1, <2>3
    <3>2. body[i].head = "rule" /\ body[i].tag \in CallTags
      BY <1>3, <3>1
    <3> QED BY <3>2 DEF BodyLine, EndsBlock, StartsBlock
  <2> QED BY <2>2, <2>3
<1>7. PairedIn(a) /\ PairedIn(b) /\ PairedIn(c)
  BY <1>1, PartsPaired DEF Editable
<1>8. PairedIn(body)
  BY <1>3, <1>7, PairedConcat
<1> DEFINE O(s) == Without(s, CallTags)
<1>9. \A s, t \in Seq(Line) : /\ RulesOf(s \o t) = RulesOf(s) \cup RulesOf(t)
                              /\ O(s \o t) = O(s) \o O(t)
  <2>1. \A s, t \in Seq(Line) : RulesOf(s \o t) = RulesOf(s) \cup RulesOf(t)
    BY RulesOfConcat
  <2>2. ASSUME NEW s \in Seq(Line), NEW t \in Seq(Line) PROVE O(s \o t) = O(s) \o O(t)
    BY WithoutConcat, ZenonT(30)
  <2> HIDE DEF O
  <2> QED BY <2>1, <2>2
<1>10. /\ RulesOf(done) = ((RulesOf(a) \cup (RulesOf(b) \cup RulesOf(new))) \cup RulesOf(c))
       /\ RulesOf(ls) = ((RulesOf(a) \cup RulesOf(b)) \cup RulesOf(c))
       /\ O(done) = (O(a) \o O(body)) \o O(c)
       /\ O(body) = O(b) \o O(new)
       /\ O(ls) = (O(a) \o O(b)) \o O(c)
  <2> HIDE DEF O
  <2>1. RulesOf(body) = RulesOf(b) \cup RulesOf(new) /\ O(body) = O(b) \o O(new)
    BY <1>3, <1>9
  <2>2. RulesOf(a \o b) = RulesOf(a) \cup RulesOf(b) /\ O(a \o b) = O(a) \o O(b)
    BY <1>9
  <2>3. RulesOf(ls) = RulesOf(a \o b) \cup RulesOf(c) /\ O(ls) = O(a \o b) \o O(c)
    BY <1>2, <1>9
  <2> HIDE DEF body, done
  <2>4. RulesOf(a \o body) = RulesOf(a) \cup RulesOf(body) /\ O(a \o body) = O(a) \o O(body)
    BY <1>5, <1>9
  <2>5. RulesOf(done) = RulesOf(a \o body) \cup RulesOf(c) /\ O(done) = O(a \o body) \o O(c)
    BY <1>4, <1>5, <1>9
  <2> QED BY <2>1, <2>2, <2>3, <2>4, <2>5
<1>11. Without(new, CallTags) = <<>>
  <2>1. Without(new, CallTags) \in Seq(Line) /\ Range(Without(new, CallTags)) = {}
    <3>1. \A l \in Range(new) : l.tag \in CallTags
      BY <1>3, LenProperties DEF Range
    <3>2. Range(Without(new, CallTags)) = {l \in Range(new) : l.tag \notin CallTags}
      BY <1>3, WithoutRange
    <3> QED BY <1>3, <3>1, <3>2, WithoutType
  <2>2. SUFFICES ASSUME Without(new, CallTags) # <<>> PROVE FALSE
    OBVIOUS
  <2>3. 1 \in DOMAIN Without(new, CallTags)
    BY <2>1, <2>2, EmptySeq, LenProperties
  <2> QED BY <2>1, <2>3 DEF Range
<1>12. Without(body, CallTags) = Without(b, CallTags)
  BY <1>10, <1>11, WithoutType, ConcatEmptySeq
<1> HIDE DEF body, done
<1>13. Parts(done, unended, proper, a, body, c)
  BY <1>1, <1>4, <1>5, <1>6, PartsOfBody
<1>14. Separated(done, unended, proper)
  BY <1>5, <1>13, PartsSeparated
<1>15. PairedIn(done)
  BY <1>7, <1>8, <1>13, PartsPaired
<1>16. Others(done) = Others(ls)
  <2>1. Without(done, CallTags) = Without(ls, CallTags)
    BY <1>10, <1>12
  <2> QED BY <2>1 DEF Others, Without
<1>17. RulesOf(done) = RulesOf(ls) \cup {[tag |-> tag, port |-> port]}
  BY <1>3, <1>10
<1> QED BY <1>5, <1>14, <1>15, <1>16, <1>17 DEF Editable, done, new

\* A rule that a call adds, the first of those it adds, and all of them.
GivenRule == [tag : CallTags, port : Ports]
Given(new, n) == {new[k] : k \in 1..n}
AllGiven(new) == {new[k] : k \in DOMAIN new}

\* Inserting the rules of a call, one after the other, leaves the file editable,
\* with those rules and the other lines as they were.
LEMMA InsertedAllEditable ==
  ASSUME NEW ls, NEW unended, NEW proper, Editable(ls, unended, proper),
         NEW new \in Seq(GivenRule)
  PROVE  LET done == InsertedAll(ls, new) IN
         /\ Editable(done, unended, proper)
         /\ Others(done) = Others(ls)
         /\ RulesOf(done) = RulesOf(ls) \cup AllGiven(new)
<1> DEFINE S == {s \in Seq(Line) : Editable(s, unended, proper)}
           N == Len(new)
           Add(s, n) == Inserted(s, Lines(new[n].tag, new[n].port))
           Body(f, n) == IF n = 0 THEN ls
                         ELSE Inserted(f[n - 1], Lines(new[n].tag, new[n].port))
           Solves(f) == f = [n \in 0..N |-> Body(f, n)]
           step == [n \in 1..N |-> [s \in S |-> Add(s, n)]]
<1>1. N \in Nat /\ DOMAIN new = 1..N /\ \A n \in 1..N : new[n] \in GivenRule
  BY LenProperties, ElementOfSeq
<1>2. ls \in S
  BY DEF Editable
<1>3. ASSUME NEW s \in S, NEW n \in 1..N
      PROVE  LET done == Inserted(s, Lines(new[n].tag, new[n].port)) IN
             /\ done \in S
             /\ Others(done) = Others(s)
             /\ RulesOf(done) = RulesOf(s) \cup {new[n]}
  <2>1. /\ new[n].tag \in CallTags /\ new[n].port \in Ports /\ Editable(s, unended, proper)
        /\ new[n] = [tag |-> new[n].tag, port |-> new[n].port]
    BY <1>1 DEF GivenRule
  <2> DEFINE tag == new[n].tag
             port == new[n].port
             done == Inserted(s, Lines(tag, port))
  <2>2. /\ Editable(done, unended, proper)
        /\ Others(done) = Others(s)
        /\ RulesOf(done) = RulesOf(s) \cup {[tag |-> tag, port |-> port]}
    <3>1. tag \in CallTags /\ port \in Ports
      BY <2>1
    <3> HIDE DEF tag, port
    <3> QED BY <2>1, <3>1, InsertedEditable
  <2> QED BY <2>1, <2>2 DEF Editable
<1> HIDE DEF S, N
<1>4. \A s \in S, n \in 1..N : Add(s, n) \in S
  BY <1>3
<1>5. PICK g \in [0..N -> S] :
        g[0] = ls /\ \A n \in 1..N : g[n] = step[n][g[n - 1]]
  <2>1. step \in [1..N -> [S -> S]]
    <3> HIDE DEF Add
    <3> QED BY <1>4
  <2> HIDE DEF step
  <2> QED BY <1>1, <1>2, <2>1, RecursionSolved
<1>6. \A n \in 1..N : g[n - 1] \in S /\ g[n] = Add(g[n - 1], n)
  <2>1. \A n \in 1..N : g[n - 1] \in S
    BY <1>1
  <2> HIDE DEF Add
  <2> QED BY <1>1, <1>5, <2>1
<1>7. Solves(g)
  <2>1. \A n \in 1..N : g[n] = Body(g, n)
    BY <1>1, <1>6
  <2>2. g[0] = Body(g, 0)
    BY <1>5
  <2>3. \A n \in 0..N : n = 0 \/ n \in 1..N
    BY <1>1
  <2> HIDE DEF Body
  <2> QED BY <2>1, <2>2, <2>3
<1> DEFINE D == CHOOSE f : Solves(f)
<1>8. InsertedAll(ls, new) = D[N]
  BY DEF InsertedAll, N
<1>9. Solves(D)
  <2> HIDE DEF Solves
  <2> QED BY <1>7
<1> HIDE DEF D
<1>10. \A n \in 0..N : D[n] = Body(D, n)
  <2> HIDE DEF Body
  <2> QED BY <1>9
<1> HIDE DEF Solves, step, Add
<1> DEFINE Holds(n) == /\ D[n] \in S
                       /\ Others(D[n]) = Others(ls)
                       /\ RulesOf(D[n]) = RulesOf(ls) \cup Given(new, n)
           P == {n \in Nat : n <= N => Holds(n)}
<1>11. 0 \in P
  <2>1. D[0] = ls
    BY <1>1, <1>10
  <2>2. Given(new, 0) = {}
    BY DEF Given
  <2> QED BY <1>2, <2>1, <2>2
<1>12. ASSUME NEW n \in Nat, n \in P PROVE n + 1 \in P
  <2> HIDE DEF Holds
  <2> SUFFICES ASSUME n + 1 <= N PROVE Holds(n + 1)
    OBVIOUS
  <2> DEFINE u == n + 1
  <2>1. Holds(n)
    BY <1>12, <1>1
  <2>2. u \in 1..N /\ D[u] = Inserted(D[n], Lines(new[u].tag, new[u].port))
    <3>1. u \in 0..N /\ u \in 1..N /\ u # 0 /\ u - 1 = n
      BY <1>1
    <3> HIDE DEF u
    <3> QED BY <1>1, <1>10, <3>1
  <2>3. /\ D[u] \in S /\ Others(D[u]) = Others(D[n])
        /\ RulesOf(D[u]) = RulesOf(D[n]) \cup {new[u]}
    BY <1>3, <2>1, <2>2 DEF Holds
  <2>4. 1..u = 1..n \cup {u}
    OBVIOUS
  <2>5. Given(new, u) = Given(new, n) \cup {new[u]}
    <3> HIDE DEF u
    <3> QED BY <2>4 DEF Given
  <2> QED BY <2>1, <2>3, <2>5 DEF Holds
<1>13. Nat \subseteq P
  <2> HIDE DEF P
  <2> QED BY <1>11, <1>12, SetInduction
<1>14. Holds(N)
  BY <1>1, <1>13
<1>15. Given(new, N) = AllGiven(new)
  BY <1>1 DEF Given, AllGiven
<1> QED BY <1>8, <1>14, <1>15 DEF S

\* Nothing is inserted after an open last line, and no call removes that line.
LEMMA Unending ==
  ASSUME NEW ls, NEW unended \in BOOLEAN, NEW proper, Editable(ls, unended, proper)
  PROVE  unended => InsertPoint(ls) <= Len(ls) /\ ls[Len(ls)].tag \notin CallTags
<1>1. PICK a \in Seq(Line), b \in Seq(Line), c \in Seq(Line) :
             Parts(ls, unended, proper, a, b, c)
  BY SeparatedParts DEF Editable
<1>2. ls = (a \o b) \o c /\ (unended => c # <<>>)
  BY <1>1 DEF Parts
<1>3. /\ Len(ls) = Len(a) + Len(b) + Len(c)
      /\ Len(a) \in Nat /\ Len(b) \in Nat /\ Len(c) \in Nat
      /\ \A i \in (Len(a) + Len(b) + 1)..(Len(a) + Len(b) + Len(c)) :
           ls[i] = c[i - Len(a) - Len(b)]
  BY <1>2, ConcatThree
<1>4. InsertPoint(ls) = Len(a) + Len(b) + 1
  BY <1>1, PartsInsertPoint
<1>5. \A i \in 1..Len(c) : c[i].tag \notin CallTags
  BY <1>1 DEF Parts
<1>6. SUFFICES ASSUME unended
               PROVE  InsertPoint(ls) <= Len(ls) /\ ls[Len(ls)].tag \notin CallTags
  OBVIOUS
<1>7. Len(c) > 0
  BY <1>2, <1>3, <1>6, EmptySeq
<1>8. ls[Len(ls)] = c[Len(c)]
  BY <1>3, <1>7
<1>9. c[Len(c)].tag \notin CallTags
  BY <1>3, <1>5, <1>7
<1> QED BY <1>3, <1>4, <1>7, <1>8, <1>9

-----------------------------------------------------------------------------
(* The calls *)

\* Where removing rules of calls leaves an open line, it is the one that was open.
LEMMA OpenStays ==
  ASSUME LinesInv, NEW tags \in SUBSET CallTags
  PROVE  StaysOpen(tags) = open
<1>1. Editable(lines, open, Apart(first)) /\ open \in BOOLEAN
  BY DEF LinesInv, WellFormed, Editable
<1>2. open => lines[Len(lines)].tag \notin CallTags
  BY <1>1, Unending
<1> QED BY <1>1, <1>2 DEF StaysOpen

\* What a call of remove_rules does to a well-formed file.
LEMMA RemoveEffect ==
  ASSUME LinesInv, NEW tags \in SUBSET CallTags, RemoveRules(tags)
  PROVE  /\ Editable(lines', open', Apart(first)) /\ open' = open /\ first' = first
         /\ Others(lines') = Others(lines)
         /\ RulesOf(lines') = {r \in RulesOf(lines) : r.tag \notin tags}
<1>1. Editable(lines, open, Apart(first))
  BY DEF LinesInv, WellFormed, Editable
<1>2. lines' = Without(lines, tags) /\ open' = open /\ first' = first
  BY OpenStays DEF RemoveRules
<1> QED BY <1>1, <1>2, RemovedEditable

\* What a call lists: rules for tags of calls, and the tags.
TagsGiven(new) == {new[n].tag : n \in DOMAIN new}
LEMMA CallGiven ==
  ASSUME NEW count \in 1..MaxMappings, NEW new \in [1..count -> GivenRule]
  PROVE  new \in Seq(GivenRule) /\ TagsGiven(new) \in SUBSET CallTags
<1>1. count \in Nat
  BY FileAssumption
<1>2. new \in Seq(GivenRule)
  BY <1>1
<1> QED BY <1>2 DEF TagsGiven, GivenRule

\* What a call of add_rules does to a well-formed file, ports being chosen.
LEMMA AddEffect ==
  ASSUME LinesInv, NEW new \in Seq(GivenRule), NEW tags \in SUBSET CallTags,
         Write(Without(lines, tags), StaysOpen(tags), new)
  PROVE  /\ Editable(lines', open', Apart(first)) /\ open' = open /\ first' = first
         /\ Others(lines') = Others(lines)
         /\ RulesOf(lines') = {r \in RulesOf(lines) : r.tag \notin tags} \cup AllGiven(new)
<1> DEFINE left == Without(lines, tags)
           done == InsertedAll(left, new)
<1>1. Editable(lines, open, Apart(first)) /\ open \in BOOLEAN
  BY DEF LinesInv, WellFormed, Editable
<1>2. /\ Editable(left, open, Apart(first))
      /\ Others(left) = Others(lines)
      /\ RulesOf(left) = {r \in RulesOf(lines) : r.tag \notin tags}
  BY <1>1, RemovedEditable
<1>3. StaysOpen(tags) = open
  BY OpenStays
<1> HIDE DEF left
<1>4. /\ Editable(done, open, Apart(first))
      /\ Others(done) = Others(left)
      /\ RulesOf(done) = RulesOf(left) \cup AllGiven(new)
  BY <1>2, InsertedAllEditable
<1>5. ~ (open /\ InsertPoint(left) > Len(left))
  <2>1. open => InsertPoint(left) <= Len(left)
    BY <1>1, <1>2, Unending
  <2>2. left \in Seq(Line) /\ Len(left) \in Nat
    BY <1>2, LenProperties DEF Editable
  <2>3. SUFFICES ASSUME open, InsertPoint(left) <= Len(left), InsertPoint(left) > Len(left)
                 PROVE  FALSE
    BY <2>1
  <2>4. InsertPoint(left) \in Nat
    <3>1. PICK a \in Seq(Line), b \in Seq(Line), c \in Seq(Line) :
            Parts(left, open, Apart(first), a, b, c)
      BY <1>2, SeparatedParts DEF Editable
    <3>2. InsertPoint(left) = Len(a) + Len(b) + 1
      BY <3>1, PartsInsertPoint
    <3> QED BY <3>2, LenProperties
  <2> QED BY <2>2, <2>3, <2>4
<1>6. lines' = done /\ open' = open /\ first' = first
  BY <1>1, <1>3, <1>5 DEF Write, left
<1> QED BY <1>2, <1>4, <1>6

\* The rules a call adds are on new ports, and no two of all share a port.
LEMMA GivenUnique ==
  ASSUME LinesInv, NEW new \in Seq(GivenRule), Chosen(new), NEW tags
  PROVE  LET all == {r \in RulesOf(lines) : r.tag \notin tags} \cup AllGiven(new) IN
         /\ all \subseteq Rule
         /\ \A r \in AllGiven(new), s \in RulesOf(lines) \cup AllGiven(new) :
               r.port = s.port => r = s
         /\ Table!Unique(all)
<1>1. Len(new) \in Nat /\ DOMAIN new = 1..Len(new)
      /\ \A n \in DOMAIN new : new[n] \in GivenRule
  BY LenProperties, ElementOfSeq
<1>2. \A n \in DOMAIN new : new[n] \in Rule /\ new[n].port \in Nat
  BY <1>1, FileAssumption DEF GivenRule, Rule, Ports
<1>3. \A k, n \in DOMAIN new : new[k].port = new[n].port => k = n
  <2>1. \A k, n \in DOMAIN new : k < n => new[k].port < new[n].port
    BY DEF Chosen
  <2> QED BY <1>1, <1>2, <2>1
<1>4. RulesOf(lines) \subseteq Rule /\ Table!Unique(RulesOf(lines))
  BY DEF LinesInv, WellFormed
<1>5. AllGiven(new) \subseteq Rule
  BY <1>2 DEF AllGiven
<1>6. \A r \in RulesOf(lines) : r.port \in Claimed
  BY DEF Claimed
<1>7. \A r \in AllGiven(new) : r.port \notin Claimed
  BY DEF AllGiven, Chosen
<1>8. \A r, s \in AllGiven(new) : r.port = s.port => r = s
  BY <1>3 DEF AllGiven
<1>9. \A r \in AllGiven(new), s \in RulesOf(lines) \cup AllGiven(new) :
         r.port = s.port => r = s
  BY <1>6, <1>7, <1>8
<1> QED BY <1>4, <1>5, <1>9 DEF Table!Unique

\* No call makes a well-formed file anything else.
LEMMA LinesInvStep == LinesInv /\ [Next]_vars => LinesInv'
<1> SUFFICES ASSUME LinesInv, [Next]_vars PROVE LinesInv'
  OBVIOUS
<1>1. CASE UNCHANGED vars
  BY <1>1 DEF LinesInv, OthersKept, vars
<1>2. ASSUME NEW tags \in SUBSET CallTags, RemoveRules(tags) PROVE LinesInv'
  <2>1. /\ Editable(lines', open', Apart(first)) /\ open' = open /\ first' = first
        /\ Others(lines') = Others(lines)
        /\ RulesOf(lines') = {r \in RulesOf(lines) : r.tag \notin tags}
    BY <1>2, RemoveEffect
  <2>2. RulesOf(lines') \subseteq Rule /\ Table!Unique(RulesOf(lines'))
    BY <2>1 DEF LinesInv, WellFormed, Table!Unique
  <2> QED BY <2>1, <2>2 DEF LinesInv, OthersKept, WellFormed, Editable
<1>3. ASSUME NEW count \in 1..MaxMappings, AddRules(count) PROVE LinesInv'
  <2>1. PICK new \in [1..count -> GivenRule] :
          Chosen(new) /\ Write(Without(lines, TagsGiven(new)), StaysOpen(TagsGiven(new)), new)
    BY <1>3 DEF AddRules, GivenRule, TagsGiven
  <2>2. new \in Seq(GivenRule) /\ TagsGiven(new) \in SUBSET CallTags
    BY CallGiven
  <2> DEFINE tags == TagsGiven(new)
  <2> HIDE DEF tags
  <2>3. /\ Editable(lines', open', Apart(first)) /\ open' = open /\ first' = first
        /\ Others(lines') = Others(lines)
        /\ RulesOf(lines') =
             {r \in RulesOf(lines) : r.tag \notin tags} \cup AllGiven(new)
    BY <2>1, <2>2, AddEffect DEF tags
  <2> DEFINE all == {r \in RulesOf(lines) : r.tag \notin tags} \cup AllGiven(new)
  <2>4. all \subseteq Rule /\ Table!Unique(all)
    BY <2>1, <2>2, GivenUnique, Zenon
  <2> HIDE DEF all
  <2>5. RulesOf(lines') \subseteq Rule /\ Table!Unique(RulesOf(lines'))
    BY <2>3, <2>4 DEF all
  <2> QED BY <2>3, <2>5 DEF LinesInv, OthersKept, WellFormed, Editable
<1> QED BY <1>1, <1>2, <1>3 DEF Next

LEMMA LinesInvInit == ASSUME EveryFileWellFormed PROVE Init => LinesInv
<1> SUFFICES ASSUME Init PROVE LinesInv
  OBVIOUS
<1>1. PICK f \in Files : first = f.lines /\ open = f.open
  BY DEF Init
<1>2. f.lines \in Seq(Line) /\ f.open \in BOOLEAN
      /\ WellFormed(f.lines, f.open, Apart(f.lines))
  BY FileAssumption DEF EveryFileWellFormed
<1> QED BY <1>1, <1>2 DEF Init, LinesInv, OthersKept

\* A file that is well formed at the start stays well formed, whatever calls of
\* add_rules and remove_rules are made, on any number of tags and ports
\* (routing.py:159-226).
THEOREM StaysWellFormed == ASSUME EveryFileWellFormed PROVE Spec => []LinesInv
<1>1. Init => LinesInv
  BY LinesInvInit
<1>2. LinesInv /\ [Next]_vars => LinesInv'
  BY LinesInvStep
<1> QED BY <1>1, <1>2, PTL DEF Spec

\* Every line that is no rule of a call is still there, in its place among the
\* others (routing.py:43, "without touching others").
THEOREM OthersAlwaysKept == ASSUME EveryFileWellFormed PROVE Spec => []OthersKept
<1>1. Spec => []LinesInv
  BY StaysWellFormed
<1>2. LinesInv => OthersKept
  BY DEF LinesInv
<1> QED BY <1>1, <1>2, PTL

\* A post-up line never loses its post-down (routing.py:195-211).
THEOREM AlwaysPaired == ASSUME EveryFileWellFormed PROVE Spec => []Paired
<1>1. Spec => []LinesInv
  BY StaysWellFormed
<1>2. LinesInv => Paired
  BY DEF LinesInv, WellFormed, Paired
<1> QED BY <1>1, <1>2, PTL

LEMMA SeparatedPlaced == LinesInv => Placed
<1> SUFFICES ASSUME LinesInv, NEW i \in DOMAIN lines, lines[i].tag \in CallTags
             PROVE  /\ \/ \E s \in 1..(i - 1) :
                             /\ StartsBlock(lines[s])
                             /\ \A k \in 1..(s - 1) : ~StartsBlock(lines[k])
                             /\ \A k \in s..i : ~EndsBlock(lines[k])
                       \/ /\ \A k \in DOMAIN lines : ~StartsBlock(lines[k])
                          /\ \A k \in i..Len(lines) : lines[k].tag \in CallTags
                    /\ Apart(first) => InStanza(i)
  BY DEF Placed
<1>1. PICK s \in 0..Len(lines) : \E e \in (s + 1)..(Len(lines) + 1) :
              StanzaAt(lines, open, Apart(first), s, e)
  BY DEF LinesInv, WellFormed, Separated
<1>2. PICK e \in (s + 1)..(Len(lines) + 1) : StanzaAt(lines, open, Apart(first), s, e)
  BY <1>1
<1>3. Len(lines) \in Nat /\ DOMAIN lines = 1..Len(lines)
  BY LenProperties DEF LinesInv
<1> DEFINE found == s # 0 /\ StartsBlock(lines[s])
<1>4. /\ s < i /\ i < e
      /\ \A k \in 1..(s - 1) : ~StartsBlock(lines[k])
      /\ \A k \in (s + 1)..(e - 1) : BodyLine(lines[k], found, Apart(first))
      /\ ~found => e \notin DOMAIN lines
      /\ Apart(first) => found /\ lines[s] = Plain("iface", Internal)
  BY <1>2 DEF StanzaAt
<1>5. CASE found
  <2>1. s \in 1..(i - 1) /\ StartsBlock(lines[s])
    BY <1>3, <1>4, <1>5
  <2>2. ~EndsBlock(lines[s])
    BY <2>1 DEF StartsBlock, EndsBlock
  <2>3. \A k \in (s + 1)..i : ~EndsBlock(lines[k])
    BY <1>3, <1>4 DEF BodyLine
  <2>4. \A k \in s..i : k = s \/ k \in (s + 1)..i
    OBVIOUS
  <2>5. \A k \in s..i : ~EndsBlock(lines[k])
    BY <2>2, <2>3, <2>4
  <2>6. ASSUME Apart(first) PROVE InStanza(i)
    <3> DEFINE T == {j \in 1..i : lines[j].head \in {"iface", "auto"}} \cup {0}
    <3>1. lines[s].head = "iface" /\ lines[s].name = Internal
      BY <1>4, <2>6 DEF Plain
    <3>2. \A j \in (s + 1)..i : lines[j].head \notin {"iface", "auto"}
      BY <1>3, <1>4, <2>6 DEF BodyLine
    <3>3. T \subseteq Nat /\ s \in T /\ \A j \in T : s >= j
      BY <2>1, <3>1, <3>2, <1>3
    <3> HIDE DEF T
    <3>4. Max(T) = s
      BY <3>3, MaxIs
    <3>5. StanzaOf(i) = s
      BY <3>4 DEF StanzaOf, T
    <3> QED BY <2>1, <3>1, <3>5 DEF InStanza
  <2> HIDE DEF found
  <2> QED BY <1>4, <2>1, <2>5, <2>6
<1>6. CASE ~found
  <2>1. e = Len(lines) + 1 /\ ~ Apart(first)
    BY <1>3, <1>4, <1>6
  <2>2. \A k \in (s + 1)..Len(lines) : ~StartsBlock(lines[k]) /\ lines[k].tag \in CallTags
    BY <1>3, <1>4, <1>6, <2>1 DEF BodyLine
  <2>3. \A k \in DOMAIN lines : ~StartsBlock(lines[k])
    <3>1. \A k \in DOMAIN lines : k \in 1..(s - 1) \/ k = s \/ k \in (s + 1)..Len(lines)
      BY <1>3
    <3>2. s \in DOMAIN lines => ~StartsBlock(lines[s])
      BY <1>3, <1>6
    <3> QED BY <1>4, <2>2, <3>1, <3>2
  <2>4. \A k \in i..Len(lines) : lines[k].tag \in CallTags
    BY <1>3, <1>4, <2>2
  <2> QED BY <2>1, <2>3, <2>4
<1> QED BY <1>5, <1>6

\* Every rule of a call stands behind the first iface line that begins like that of
\* internal_iface and before the blank or iface line that follows, or at the end of a file
\* without one; in the stanza of internal_iface if that was set apart (routing.py:308-329).
THEOREM AlwaysPlaced == ASSUME EveryFileWellFormed PROVE Spec => []Placed
<1>1. Spec => []LinesInv
  BY StaysWellFormed
<1>2. LinesInv => Placed
  BY SeparatedPlaced
<1> QED BY <1>1, <1>2, PTL

\* Edits of the lines of a well-formed file implement operations on a table of rules
\* in which no two share a port (routing.py:180 and 246).
THEOREM EditsRuleTable == ASSUME EveryFileWellFormed PROVE Spec => IsRuleTable
<1>1. Spec => []LinesInv
  BY StaysWellFormed
<1>2. Init => Table!Init
  <2>1. LinesInv => Table!Init
    BY DEF LinesInv, WellFormed, Table!Init, Table!Rule, Rule
  <2> QED BY <2>1, LinesInvInit
<1>3. LinesInv /\ LinesInv' /\ [Next]_vars => [Table!Next]_(RulesOf(lines))
  <2> SUFFICES ASSUME LinesInv, LinesInv', [Next]_vars
               PROVE  Table!Next \/ UNCHANGED RulesOf(lines)
    OBVIOUS
  <2>1. CASE UNCHANGED vars
    BY <2>1 DEF vars, RulesOf
  <2>2. ASSUME NEW tags \in SUBSET CallTags, RemoveRules(tags) PROVE Table!Remove(tags)
    <3>1. RulesOf(lines') = {r \in RulesOf(lines) : r.tag \notin tags}
      BY <2>2, RemoveEffect
    <3> QED BY <3>1 DEF Table!Remove, Table!Others
  <2>3. ASSUME NEW count \in 1..MaxMappings, AddRules(count)
        PROVE  \E tags \in SUBSET CallTags : Table!Assign(tags)
    <3>1. PICK new \in [1..count -> GivenRule] :
            Chosen(new) /\ Write(Without(lines, TagsGiven(new)), StaysOpen(TagsGiven(new)), new)
      BY <2>3 DEF AddRules, GivenRule, TagsGiven
    <3>2. new \in Seq(GivenRule) /\ TagsGiven(new) \in SUBSET CallTags
      BY CallGiven
    <3> DEFINE tags == TagsGiven(new)
               rules == AllGiven(new)
               others == {r \in RulesOf(lines) : r.tag \notin tags}
    <3>3. RulesOf(lines') = others \cup rules
      <4> HIDE DEF rules
      <4> QED BY <3>1, <3>2, AddEffect DEF rules
    <3>4. \A r \in rules, s \in RulesOf(lines) \cup rules : r.port = s.port => r = s
      <4> HIDE DEF tags
      <4> QED BY <3>1, <3>2, GivenUnique
    <3>5. \A r \in rules : r \in GivenRule /\ r.tag \in tags
      BY <3>2, LenProperties, ElementOfSeq DEF AllGiven, TagsGiven
    <3>6. \A t \in tags : \E r \in rules : r.tag = t
      BY DEF AllGiven, TagsGiven
    <3>7. \A r \in rules : r \notin RulesOf(lines)
      <4>1. \A r \in rules : r.port \notin Claimed
        BY <3>1 DEF AllGiven, Chosen
      <4> QED BY <4>1 DEF Claimed
    <3> HIDE DEF rules, tags
    <3>8. RulesOf(lines') \ RulesOf(lines) = rules
      BY <3>3, <3>7
    <3>9. rules \subseteq [tag : tags, port : Ports]
      BY <3>5 DEF GivenRule
    <3>10. Table!Assign(tags)
      BY <3>3, <3>4, <3>6, <3>8, <3>9 DEF Table!Assign, Table!Others
    <3> QED BY <3>2, <3>10 DEF tags
  <2> QED BY <2>1, <2>2, <2>3 DEF Next, Table!Next
<1> QED BY <1>1, <1>2, <1>3, PTL DEF Spec, IsRuleTable, Table!Spec
=============================================================================
