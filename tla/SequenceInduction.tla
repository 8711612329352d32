-------------------------- MODULE SequenceInduction --------------------------
(***************************************************************************)
(* Induction over numbers and sequences, and what is defined by recursion  *)
(* along a sequence, for the proofs about the loops of the code.           *)
(*                                                                         *)
(* The induction theorems of the library have an operator for a parameter, *)
(* which the provers cannot instantiate; a set serves as well.             *)
(***************************************************************************)
EXTENDS Naturals, Sequences, SequencesExt, SequenceTheorems, WellFoundedInduction, TLAPS

\* That every set of numbers has a least one follows from the theorem of the
\* library on minimal elements.
LEMMA LeastNumber ==
    ASSUME NEW T \in SUBSET Nat, T # {}
    PROVE  \E x \in T : \A y \in T : x <= y
<1> DEFINE less == {ss \in Nat \X Nat : ss[1] < ss[2]}
<1>1. IsWellFoundedOn(less, Nat)
  BY NatLessThanWellFounded DEF OpToRel
<1>2. PICK x \in T : \A y \in T : <<y, x>> \notin less
  BY <1>1, WFMin
<1>3. \A y \in T : ~(y < x)
  BY <1>2
<1>4. QED
  BY <1>3

\* A set of numbers with 0 that with each number has the next one has them all.
LEMMA NatIsInductive ==
    ASSUME NEW T \in SUBSET Nat, 0 \in T, \A n \in T : n + 1 \in T
    PROVE  T = Nat
<1> SUFFICES ASSUME Nat \ T # {} PROVE FALSE
  OBVIOUS
<1>1. PICK x \in Nat \ T : \A y \in Nat \ T : x <= y
  BY LeastNumber
<1>2. x - 1 \in T
  BY <1>1
<1>3. QED
  BY <1>1, <1>2

\* A set of sequences with the empty one that with each sequence has those that
\* are one element longer has them all.
LEMMA SeqIsInductive ==
    ASSUME NEW S, NEW T \in SUBSET Seq(S), <<>> \in T,
           \A s \in T, x \in S : Append(s, x) \in T
    PROVE  T = Seq(S)
<1> DEFINE N == {n \in Nat : \A s \in Seq(S) : Len(s) = n => s \in T}
<1>1. 0 \in N
  BY EmptySeq
<1>2. ASSUME NEW n \in N PROVE n + 1 \in N
  <2> SUFFICES ASSUME NEW s \in Seq(S), Len(s) = n + 1
               PROVE  s \in T
    OBVIOUS
  <2>1. s # <<>>
    BY EmptySeq
  <2>2. PICK t \in Seq(S), x \in S : s = Append(t, x)
    BY <2>1, SequenceEmptyOrAppend
  <2>3. Len(t) = n
    BY <2>2, AppendProperties, LenProperties
  <2>4. QED
    BY <2>2, <2>3
<1>3. N = Nat
  BY <1>1, <1>2, NatIsInductive
<1>4. QED
  BY <1>3, LenProperties
-----------------------------------------------------------------------------
(***************************************************************************)
(* Recursion.  A walk goes from base over the positions 1 .. n, and makes  *)
(* one step at each.  The step is a function, so that what holds of all    *)
(* walks can be instantiated.                                              *)
(***************************************************************************)
IsWalk(A, base, step, n, walk) ==
    /\ walk \in [0 .. n -> A]
    /\ walk[0] = base
    /\ \A k \in 1 .. n : walk[k] = step[k][walk[k - 1]]

LEMMA WalkExists ==
    ASSUME NEW A, NEW base \in A, NEW n \in Nat, NEW step \in [1 .. n -> [A -> A]]
    PROVE  \E walk : IsWalk(A, base, step, n, walk)
<1> DEFINE T == {m \in Nat : m <= n => \E walk : IsWalk(A, base, step, m, walk)}
<1>1. 0 \in T
  <2>1. IsWalk(A, base, step, 0, [k \in 0 .. 0 |-> base])
    BY DEF IsWalk
  <2>2. QED
    BY <2>1
<1>2. ASSUME NEW m \in T PROVE m + 1 \in T
  <2> SUFFICES ASSUME m + 1 <= n
               PROVE  \E walk : IsWalk(A, base, step, m + 1, walk)
    OBVIOUS
  <2>1. PICK walk : IsWalk(A, base, step, m, walk)
    OBVIOUS
  <2> DEFINE last   == step[m + 1][walk[m]]
             longer == [k \in 0 .. m + 1 |-> IF k = m + 1 THEN last ELSE walk[k]]
  <2>2. last \in A
    BY <2>1 DEF IsWalk
  <2>3. longer \in [0 .. m + 1 -> A]
    BY <2>1, <2>2 DEF IsWalk
  <2>4. longer[0] = base
    BY <2>1 DEF IsWalk
  <2>5. ASSUME NEW k \in 1 .. m + 1
        PROVE  longer[k] = step[k][longer[k - 1]]
    <3>1. longer[k - 1] = walk[k - 1]
      OBVIOUS
    <3>2. CASE k = m + 1
      <4>1. longer[k] = last /\ k - 1 = m
        BY <3>2
      <4>2. QED
        BY <3>1, <3>2, <4>1
    <3>3. CASE k # m + 1
      <4>1. k \in 1 .. m /\ longer[k] = walk[k]
        BY <3>3
      <4>2. QED
        BY <2>1, <3>1, <4>1 DEF IsWalk
    <3>4. QED
      BY <3>2, <3>3
  <2> HIDE DEF longer
  <2>6. IsWalk(A, base, step, m + 1, longer)
    BY <2>3, <2>4, <2>5 DEF IsWalk
  <2>7. QED
    BY <2>6
<1>3. n \in T
  <2> HIDE DEF T
  <2>1. T \in SUBSET Nat
    BY DEF T
  <2>2. T = Nat
    BY <1>1, <1>2, <2>1, NatIsInductive
  <2>3. QED
    BY <2>2
<1>4. QED
  BY <1>3

\* What starts and steps like a walk is that walk, as far as it does.
StepsAlike(A, base, step, m, other) ==
    /\ other[0] = base
    /\ \A k \in 1 .. m : other[k - 1] \in A => other[k] = step[k][other[k - 1]]

LEMMA WalkIsOne ==
    ASSUME NEW A, NEW base, NEW n \in Nat, NEW step, NEW walk,
           IsWalk(A, base, step, n, walk),
           NEW m \in Nat, m <= n, NEW other,
           StepsAlike(A, base, step, m, other)
    PROVE  other[m] = walk[m]
<1> DEFINE T == {k \in Nat : k <= m => other[k] = walk[k]}
<1>1. 0 \in T
  BY DEF IsWalk, StepsAlike
<1>2. ASSUME NEW k \in T PROVE k + 1 \in T
  <2> SUFFICES ASSUME k + 1 <= m
               PROVE  other[k + 1] = walk[k + 1]
    OBVIOUS
  <2>1. other[k] = walk[k] /\ walk[k] \in A
    BY DEF IsWalk
  <2>2. k + 1 \in 1 .. m /\ k + 1 \in 1 .. n /\ (k + 1) - 1 = k
    OBVIOUS
  <2>3. other[k + 1] = step[k + 1][other[k]]
    BY <2>1, <2>2 DEF StepsAlike
  <2>4. walk[k + 1] = step[k + 1][walk[k]]
    BY <2>2 DEF IsWalk
  <2>5. QED
    BY <2>1, <2>3, <2>4
<1>3. T = Nat
  <2> HIDE DEF T
  <2>1. T \in SUBSET Nat
    BY DEF T
  <2>2. QED
    BY <1>1, <1>2, <2>1, NatIsInductive
<1>4. QED
  BY <1>3

\* FlattenSeq is the last value of the walk that appends one sequence after the
\* other.
Appending(S, ss) ==
    [k \in 1 .. Len(ss) |-> [s \in Seq(S) |-> s \o ss[k]]]

LEMMA AppendingFacts ==
    ASSUME NEW S, NEW ss \in Seq(Seq(S)),
           NEW walk, IsWalk(Seq(S), <<>>, Appending(S, ss), Len(ss), walk)
    PROVE  /\ walk[0] = <<>>
           /\ walk[Len(ss)] \in Seq(S)
           /\ \A k \in 1 .. Len(ss) :
                walk[k - 1] \in Seq(S) /\ walk[k] = walk[k - 1] \o ss[k]
<1> DEFINE n == Len(ss)
<1>1. n \in Nat
  BY LenProperties
<1>2. walk[0] = <<>> /\ walk \in [0 .. n -> Seq(S)]
  BY DEF IsWalk
<1>3. \A k \in 1 .. n : walk[k] = Appending(S, ss)[k][walk[k - 1]]
  BY DEF IsWalk
<1>4. ASSUME NEW k \in 1 .. n PROVE walk[k - 1] \in Seq(S)
  <2>1. k - 1 \in 0 .. n
    BY <1>1
  <2>2. QED
    BY <1>2, <2>1
<1>5. walk[n] \in Seq(S)
  <2>1. n \in 0 .. n
    BY <1>1
  <2> HIDE DEF n
  <2>2. QED
    BY <1>2, <2>1
<1>6. QED
  BY <1>2, <1>3, <1>4, <1>5 DEF Appending

LEMMA FlattenIsWalk ==
    ASSUME NEW S, NEW ss \in Seq(Seq(S)),
           NEW walk, IsWalk(Seq(S), <<>>, Appending(S, ss), Len(ss), walk)
    PROVE  FlattenSeq(ss) = walk[Len(ss)]
<1> DEFINE n == Len(ss)
           Def(f) == f = [i \in 1 .. n |-> IF i = 1 THEN ss[i] ELSE f[i - 1] \o ss[i]]
           flatten == CHOOSE f : Def(f)
<1>1. /\ n \in Nat
      /\ \A i \in 1 .. n : ss[i] \in Seq(S)
  BY LenProperties, ElementOfSeq
<1>2. /\ walk[0] = <<>>
      /\ \A k \in 1 .. n : walk[k - 1] \in Seq(S) /\ walk[k] = walk[k - 1] \o ss[k]
  BY AppendingFacts
<1>3. CASE n = 0
  <2>1. ss = <<>>
    BY <1>3, EmptySeq
  <2>2. QED
    BY <1>2, <1>3, <2>1 DEF FlattenSeq
<1>4. CASE n # 0
  <2> DEFINE w == [i \in 1 .. n |-> walk[i]]
  <2>1. Def(w)
    <3>1. ASSUME NEW i \in 1 .. n
          PROVE  walk[i] = IF i = 1 THEN ss[i] ELSE w[i - 1] \o ss[i]
      <4>1. CASE i = 1
        <5>1. walk[1] = walk[1 - 1] \o ss[1] /\ ss[1] \in Seq(S)
          BY <1>1, <1>2, <4>1
        <5>2. walk[1 - 1] = <<>>
          BY <1>2
        <5>3. QED
          BY <4>1, <5>1, <5>2, ConcatEmptySeq
      <4>2. CASE i # 1
        <5>1. i - 1 \in 1 .. n /\ w[i - 1] = walk[i - 1]
          BY <4>2
        <5>2. QED
          BY <1>2, <4>2, <5>1
      <4>3. QED
        BY <4>1, <4>2
    <3>2. QED
      BY <3>1
  <2> HIDE DEF w
  <2>2. Def(flatten)
    BY <2>1
  <2>3. FlattenSeq(ss) = flatten[n]
    BY <1>4 DEF FlattenSeq
  <2> HIDE DEF flatten
  <2> DEFINE other == [k \in 0 .. n |-> IF k = 0 THEN <<>> ELSE flatten[k]]
  <2>4. other[0] = <<>>
    BY <1>1
  <2>5. ASSUME NEW k \in 1 .. n, other[k - 1] \in Seq(S)
        PROVE  other[k] = Appending(S, ss)[k][other[k - 1]]
    <3>1. Appending(S, ss)[k][other[k - 1]] = other[k - 1] \o ss[k]
      BY <2>5 DEF Appending
    <3>2. other[k] = flatten[k]
      OBVIOUS
    <3>3. CASE k = 1
      <4>1. flatten[k] = ss[1] /\ ss[1] \in Seq(S) /\ other[k - 1] = <<>>
        BY <1>1, <2>2, <3>3
      <4>2. QED
        BY <3>1, <3>2, <3>3, <4>1, ConcatEmptySeq
    <3>4. CASE k # 1
      <4>1. flatten[k] = flatten[k - 1] \o ss[k]
        BY <2>2, <3>4
      <4>2. other[k - 1] = flatten[k - 1]
        <5>1. k - 1 \in 0 .. n /\ k - 1 # 0
          BY <1>1, <3>4
        <5>2. QED
          BY <5>1
      <4>3. QED
        BY <3>1, <3>2, <4>1, <4>2
    <3>5. QED
      BY <3>3, <3>4
  <2>6. other[n] = flatten[n] /\ n <= n
    BY <1>1, <1>4
  <2> HIDE DEF other
  <2>7. StepsAlike(Seq(S), <<>>, Appending(S, ss), n, other)
    BY <2>4, <2>5 DEF StepsAlike
  <2>8. other[n] = walk[n]
    BY <1>1, <2>6, <2>7, WalkIsOne
  <2>9. QED
    BY <2>3, <2>6, <2>8
<1>5. QED
  BY <1>3, <1>4

LEMMA AppendingWalks ==
    ASSUME NEW S, NEW ss \in Seq(Seq(S))
    PROVE  \E walk : IsWalk(Seq(S), <<>>, Appending(S, ss), Len(ss), walk)
<1>1. Len(ss) \in Nat /\ <<>> \in Seq(S)
  BY LenProperties, EmptySeq
<1>2. Appending(S, ss) \in [1 .. Len(ss) -> [Seq(S) -> Seq(S)]]
  <2> DEFINE row(k) == [s \in Seq(S) |-> s \o ss[k]]
  <2>1. ASSUME NEW k \in 1 .. Len(ss)
        PROVE  row(k) \in [Seq(S) -> Seq(S)]
    <3>1. ss[k] \in Seq(S)
      BY ElementOfSeq
    <3>2. \A s \in Seq(S) : s \o ss[k] \in Seq(S)
      BY <3>1, ConcatProperties
    <3>3. QED
      BY <3>2
  <2>2. Appending(S, ss) = [k \in 1 .. Len(ss) |-> row(k)]
    BY DEF Appending
  <2> HIDE DEF row
  <2>3. QED
    BY <2>1, <2>2
<1>3. QED
  BY <1>1, <1>2, WalkExists, Zenon

LEMMA AppendingFlattens ==
    ASSUME NEW S, NEW ss \in Seq(Seq(S)), NEW other,
           StepsAlike(Seq(S), <<>>, Appending(S, ss), Len(ss), other)
    PROVE  other[Len(ss)] = FlattenSeq(ss)
<1>1. PICK walk : IsWalk(Seq(S), <<>>, Appending(S, ss), Len(ss), walk)
  BY AppendingWalks
<1>2. Len(ss) \in Nat /\ Len(ss) <= Len(ss)
  BY LenProperties
<1>3. other[Len(ss)] = walk[Len(ss)]
  BY <1>1, <1>2, WalkIsOne
<1>4. QED
  BY <1>1, <1>3, FlattenIsWalk

LEMMA FlattenAppend ==
    ASSUME NEW S, NEW ss \in Seq(Seq(S)), NEW s \in Seq(S)
    PROVE  /\ FlattenSeq(ss) \in Seq(S)
           /\ FlattenSeq(Append(ss, s)) = FlattenSeq(ss) \o s
<1> DEFINE tt == Append(ss, s)
           n  == Len(ss)
<1>1. /\ n \in Nat /\ tt \in Seq(Seq(S)) /\ Len(tt) = n + 1
      /\ \A k \in 1 .. n : tt[k] = ss[k]
      /\ tt[n + 1] = s
  BY LenProperties, AppendProperties
<1> HIDE DEF tt
<1>2. PICK short : IsWalk(Seq(S), <<>>, Appending(S, ss), n, short)
  BY AppendingWalks
<1>3. PICK long : IsWalk(Seq(S), <<>>, Appending(S, tt), Len(tt), long)
  BY <1>1, AppendingWalks
<1>4. FlattenSeq(ss) = short[n] /\ short[n] \in Seq(S)
  BY <1>2, FlattenIsWalk, AppendingFacts
<1>5. FlattenSeq(tt) = long[n + 1]
  BY <1>1, <1>3, FlattenIsWalk
<1>6. /\ long[0] = <<>>
      /\ \A k \in 1 .. Len(tt) : long[k - 1] \in Seq(S) /\ long[k] = long[k - 1] \o tt[k]
  BY <1>1, <1>3, AppendingFacts
<1>7. StepsAlike(Seq(S), <<>>, Appending(S, ss), n, long)
  <2>1. \A k \in 1 .. n : k \in 1 .. Len(tt) /\ tt[k] = ss[k]
    BY <1>1
  <2>2. QED
    BY <1>6, <2>1 DEF Appending, StepsAlike
<1>8. long[n] = short[n]
  <2>1. n <= n
    BY <1>1
  <2>2. QED
    BY <1>1, <1>2, <1>7, <2>1, WalkIsOne
<1>9. long[n + 1] = long[n] \o s
  <2>1. n + 1 \in 1 .. Len(tt) /\ (n + 1) - 1 = n
    BY <1>1
  <2>2. QED
    BY <1>1, <1>6, <2>1
<1>10. QED
  BY <1>4, <1>5, <1>8, <1>9 DEF tt

LEMMA FlattenOne ==
    /\ FlattenSeq(<<>>) = <<>>
    /\ \A S : \A s \in Seq(S) : FlattenSeq(<<s>>) = s
<1>1. FlattenSeq(<<>>) = <<>>
  BY EmptySeq DEF FlattenSeq
<1>2. ASSUME NEW S, NEW s \in Seq(S)
      PROVE  FlattenSeq(<<s>>) = s
  <2>1. <<>> \in Seq(Seq(S)) /\ Append(<<>>, s) = <<s>>
    BY EmptySeq
  <2>2. FlattenSeq(Append(<<>>, s)) = FlattenSeq(<<>>) \o s
    BY <2>1, FlattenAppend
  <2>3. QED
    BY <1>1, <2>1, <2>2, ConcatEmptySeq
<1>3. QED
  BY <1>1, <1>2

LEMMA FlattenConcat ==
    ASSUME NEW S, NEW ss \in Seq(Seq(S)), NEW tt \in Seq(Seq(S))
    PROVE  FlattenSeq(ss \o tt) = FlattenSeq(ss) \o FlattenSeq(tt)
<1> DEFINE T == {uu \in Seq(Seq(S)) :
                    FlattenSeq(ss \o uu) = FlattenSeq(ss) \o FlattenSeq(uu)}
<1>1. <<>> \in T
  <2>1. <<>> \in Seq(Seq(S)) /\ ss \o <<>> = ss
    BY EmptySeq, ConcatEmptySeq
  <2>2. FlattenSeq(ss) \in Seq(S) /\ FlattenSeq(<<>>) = <<>>
    BY FlattenAppend, FlattenOne, EmptySeq
  <2>3. FlattenSeq(ss) \o <<>> = FlattenSeq(ss)
    BY <2>2, ConcatEmptySeq
  <2>4. QED
    BY <2>1, <2>2, <2>3
<1>2. ASSUME NEW uu \in T, NEW u \in Seq(S)
      PROVE  Append(uu, u) \in T
  <2> DEFINE both == ss \o uu
  <2>1. uu \in Seq(Seq(S)) /\ both \in Seq(Seq(S))
    BY ConcatProperties
  <2>2. Append(uu, u) \in Seq(Seq(S))
    BY <2>1, AppendProperties
  <2>3. ss \o Append(uu, u) = Append(both, u)
    <3>1. <<u>> \in Seq(Seq(S))
      OBVIOUS
    <3>2. Append(uu, u) = uu \o <<u>> /\ Append(both, u) = both \o <<u>>
      BY <2>1, AppendIsConcat
    <3>3. QED
      BY <2>1, <3>1, <3>2, ConcatAssociative
  <2>4. FlattenSeq(both) = FlattenSeq(ss) \o FlattenSeq(uu)
    OBVIOUS
  <2> HIDE DEF both
  <2>5. /\ FlattenSeq(Append(both, u)) = FlattenSeq(both) \o u
        /\ FlattenSeq(Append(uu, u)) = FlattenSeq(uu) \o u
        /\ FlattenSeq(ss) \in Seq(S) /\ FlattenSeq(uu) \in Seq(S)
    BY <2>1, FlattenAppend
  <2>6. FlattenSeq(both) \o u = FlattenSeq(ss) \o (FlattenSeq(uu) \o u)
    BY <2>4, <2>5, ConcatAssociative
  <2>7. QED
    BY <2>2, <2>3, <2>5, <2>6
<1>3. T = Seq(Seq(S))
  <2> HIDE DEF T
  <2>1. T \in SUBSET Seq(Seq(S))
    BY DEF T
  <2>2. QED
    BY <1>1, <1>2, <2>1, SeqIsInductive
<1>4. QED
  BY <1>3
-----------------------------------------------------------------------------
(***************************************************************************)
(* A loop over a sequence that appends what it picks from each element.    *)
(***************************************************************************)
Pickers(X, S) == [X -> Seq(S)]

Picks(pick, s) == [i \in DOMAIN s |-> pick[s[i]]]

Picked(pick, s) == FlattenSeq(Picks(pick, s))

LEMMA PicksFacts ==
    ASSUME NEW X, NEW S, NEW pick \in Pickers(X, S), NEW s \in Seq(X)
    PROVE  /\ Picks(pick, s) \in Seq(Seq(S))
           /\ Len(Picks(pick, s)) = Len(s)
           /\ \A i \in 1 .. Len(s) : Picks(pick, s)[i] = pick[s[i]]
<1>1. DOMAIN s = 1 .. Len(s) /\ Len(s) \in Nat
  BY LenProperties
<1>2. \A i \in 1 .. Len(s) : pick[s[i]] \in Seq(S)
  BY ElementOfSeq DEF Pickers
<1>3. Picks(pick, s) = [i \in 1 .. Len(s) |-> pick[s[i]]]
  BY <1>1 DEF Picks
<1>4. QED
  BY <1>1, <1>2, <1>3

LEMMA PickedFacts ==
    ASSUME NEW X, NEW S, NEW pick \in Pickers(X, S)
    PROVE  /\ Picked(pick, <<>>) = <<>>
           /\ \A s \in Seq(X) : Picked(pick, s) \in Seq(S)
           /\ \A x \in X : Picked(pick, <<x>>) = pick[x]
<1>1. Picked(pick, <<>>) = <<>>
  <2>1. <<>> \in Seq(X)
    BY EmptySeq
  <2>2. Picks(pick, <<>>) = <<>>
    BY DEF Picks
  <2>3. QED
    BY <2>2, FlattenOne DEF Picked
<1>2. ASSUME NEW s \in Seq(X) PROVE Picked(pick, s) \in Seq(S)
  <2>1. Picks(pick, s) \in Seq(Seq(S)) /\ <<>> \in Seq(S)
    BY PicksFacts, EmptySeq
  <2>2. QED
    BY <2>1, FlattenAppend DEF Picked
<1>3. ASSUME NEW x \in X PROVE Picked(pick, <<x>>) = pick[x]
  <2>1. Picks(pick, <<x>>) = <<pick[x]>>
    BY DEF Picks
  <2>2. pick[x] \in Seq(S)
    BY DEF Pickers
  <2>3. QED
    BY <2>1, <2>2, FlattenOne DEF Picked
<1>4. QED
  BY <1>1, <1>2, <1>3

LEMMA PickedConcat ==
    ASSUME NEW X, NEW S, NEW pick \in Pickers(X, S), NEW s \in Seq(X), NEW t \in Seq(X)
    PROVE  Picked(pick, s \o t) = Picked(pick, s) \o Picked(pick, t)
<1> DEFINE st  == s \o t
           ps  == Picks(pick, s)
           pt  == Picks(pick, t)
           pst == Picks(pick, st)
<1>1. /\ st \in Seq(X) /\ Len(st) = Len(s) + Len(t)
      /\ \A i \in 1 .. Len(s) + Len(t) :
            st[i] = IF i <= Len(s) THEN s[i] ELSE t[i - Len(s)]
      /\ Len(s) \in Nat /\ Len(t) \in Nat
  BY ConcatProperties, LenProperties
<1> HIDE DEF st
<1>2. /\ ps \in Seq(Seq(S)) /\ Len(ps) = Len(s) /\ \A i \in 1 .. Len(s) : ps[i] = pick[s[i]]
      /\ pt \in Seq(Seq(S)) /\ Len(pt) = Len(t) /\ \A i \in 1 .. Len(t) : pt[i] = pick[t[i]]
      /\ pst \in Seq(Seq(S)) /\ Len(pst) = Len(s) + Len(t)
      /\ \A i \in 1 .. Len(s) + Len(t) : pst[i] = pick[st[i]]
  <2>1. st \in Seq(X)
    BY <1>1
  <2>2. /\ pst \in Seq(Seq(S)) /\ Len(pst) = Len(st)
        /\ \A i \in 1 .. Len(st) : pst[i] = pick[st[i]]
    BY <2>1, PicksFacts
  <2>3. /\ ps \in Seq(Seq(S)) /\ Len(ps) = Len(s)
        /\ \A i \in 1 .. Len(s) : ps[i] = pick[s[i]]
    BY PicksFacts
  <2>4. /\ pt \in Seq(Seq(S)) /\ Len(pt) = Len(t)
        /\ \A i \in 1 .. Len(t) : pt[i] = pick[t[i]]
    BY PicksFacts
  <2> HIDE DEF ps, pt, pst
  <2>5. QED
    BY <1>1, <2>2, <2>3, <2>4
<1> HIDE DEF ps, pt, pst
<1>3. /\ ps \o pt \in Seq(Seq(S)) /\ Len(ps \o pt) = Len(s) + Len(t)
      /\ \A i \in 1 .. Len(s) + Len(t) :
            (ps \o pt)[i] = IF i <= Len(s) THEN ps[i] ELSE pt[i - Len(s)]
  <2>1. ps \in Seq(Seq(S)) /\ pt \in Seq(Seq(S))
    BY <1>2
  <2>2. /\ ps \o pt \in Seq(Seq(S)) /\ Len(ps \o pt) = Len(ps) + Len(pt)
        /\ \A i \in 1 .. Len(ps) + Len(pt) :
              (ps \o pt)[i] = IF i <= Len(ps) THEN ps[i] ELSE pt[i - Len(ps)]
    BY <2>1, ConcatProperties
  <2>3. QED
    BY <1>2, <2>2
<1>4. ASSUME NEW i \in 1 .. Len(s) + Len(t)
      PROVE  pst[i] = (ps \o pt)[i]
  <2>1. CASE i <= Len(s)
    <3>1. i \in 1 .. Len(s)
      BY <1>1, <2>1
    <3>2. pst[i] = pick[st[i]] /\ st[i] = s[i] /\ (ps \o pt)[i] = ps[i]
      BY <1>1, <1>2, <1>3, <2>1
    <3>3. QED
      BY <1>2, <3>1, <3>2
  <2>2. CASE ~(i <= Len(s))
    <3>1. i - Len(s) \in 1 .. Len(t)
      BY <1>1, <2>2
    <3>2. QED
      BY <1>2, <1>3, <2>2, <3>1, <1>1
  <2>3. QED
    BY <2>1, <2>2
<1>5. pst = ps \o pt
  BY <1>2, <1>3, <1>4, SeqEqual
<1>6. FlattenSeq(ps \o pt) = FlattenSeq(ps) \o FlattenSeq(pt)
  BY <1>2, FlattenConcat
<1>7. QED
  BY <1>5, <1>6 DEF Picked, ps, pt, pst, st
==============================================================================
