----------------------------- MODULE SequenceLemmas --------------------------
(***************************************************************************)
(* Lemmas about sequences, functions and sets of numbers of any size.      *)
(* FlattenSeq, a recursive function of the community modules, has the type *)
(* one expects and distributes over appending and concatenation: the       *)
(* backlog of AsyncLogging and the contents of the files of LogFile are    *)
(* flattened sequences.  A recursion over 0 .. n has a solution, and what  *)
(* each of its steps keeps holds of all of it: the functions without state *)
(* are such recursions.  The lemmas go by induction: the least             *)
(* counterexample has none before it.                                      *)
(***************************************************************************)
EXTENDS Integers, SequencesExt, SequenceTheorems, WellFoundedInduction, TLAPS

\* Induction as the provers can use it: a set of numbers has a least one.
LEMMA LeastElement ==
    ASSUME NEW T \in SUBSET Nat, T # {}
    PROVE  \E n \in T : \A m \in T : n <= m
<1> DEFINE R == {ss \in Nat \X Nat : ss[1] < ss[2]}
<1>1. IsWellFoundedOn(R, Nat)
  BY NatLessThanWellFounded DEF OpToRel
<1>2. PICK n \in T : \A m \in T : ~ (<<m, n>> \in R)
  <2> HIDE DEF R
  <2> QED BY <1>1, WFMin
<1>3. ASSUME NEW m \in T PROVE n <= m
  <2>1. m \in Nat /\ n \in Nat
    OBVIOUS
  <2>2. <<m, n>> \in Nat \X Nat /\ <<m, n>>[1] = m /\ <<m, n>>[2] = n
    BY <2>1
  <2>3. ~ (<<m, n>>[1] < <<m, n>>[2])
    BY <1>2, <2>2, Zenon
  <2>4. ~ m < n
    BY <2>2, <2>3
  <2> QED BY <2>1, <2>4
<1> QED BY <1>3

-----------------------------------------------------------------------------
(* Flattening *)

\* The partial results of FlattenSeq.
IsFlattening(f, s) ==
    f = [k \in 1 .. Len(s) |-> IF k = 1 THEN s[k] ELSE f[k - 1] \o s[k]]

LEMMA FlatteningSteps ==
    ASSUME NEW s, NEW f, IsFlattening(f, s)
    PROVE  /\ DOMAIN f = 1 .. Len(s)
           /\ \A k \in 1 .. Len(s) : k = 1 => f[k] = s[1]
           /\ \A k \in 1 .. Len(s) : k # 1 => f[k] = f[k - 1] \o s[k]
BY DEF IsFlattening

LEMMA FlatteningType ==
    ASSUME NEW S, NEW s \in Seq(Seq(S)), NEW f, IsFlattening(f, s)
    PROVE  \A k \in 1 .. Len(s) : f[k] \in Seq(S)
<1> DEFINE Bad == {k \in 1 .. Len(s) : f[k] \notin Seq(S)}
<1>1. SUFFICES Bad = {}
  OBVIOUS
<1>2. SUFFICES ASSUME Bad # {} PROVE FALSE
  OBVIOUS
<1>3. Bad \in SUBSET Nat
  OBVIOUS
<1>4. PICK k \in Bad : \A m \in Bad : k <= m
  <2> HIDE DEF Bad
  <2> QED BY <1>2, <1>3, LeastElement
<1>5. k \in 1 .. Len(s) /\ s[k] \in Seq(S)
  OBVIOUS
<1>6. CASE k = 1
  BY <1>5, <1>6, FlatteningSteps
<1>7. CASE k # 1
  <2>1. k - 1 \in 1 .. Len(s) /\ ~ k <= k - 1
    BY <1>5, <1>7
  <2>2. f[k - 1] \in Seq(S)
    BY <1>4, <2>1
  <2>3. f[k] = f[k - 1] \o s[k]
    BY <1>5, <1>7, FlatteningSteps
  <2>4. f[k] \in Seq(S)
    BY <1>5, <2>2, <2>3, ConcatProperties
  <2> QED BY <2>4
<1> QED BY <1>6, <1>7

\* t begins with s.
StartsWith(t, s) ==
    /\ Len(s) \in Nat /\ Len(t) \in Nat /\ Len(s) <= Len(t)
    /\ \A k \in 1 .. Len(s) : s[k] = t[k]

LEMMA FlatteningAgrees ==
    ASSUME NEW s, NEW t, StartsWith(t, s), NEW f, NEW g,
           IsFlattening(f, s), IsFlattening(g, t)
    PROVE  \A k \in 1 .. Len(s) : f[k] = g[k]
<1> DEFINE Bad == {k \in 1 .. Len(s) : f[k] # g[k]}
<1>1. SUFFICES ASSUME Bad # {} PROVE FALSE
  OBVIOUS
<1>2. Bad \in SUBSET Nat
  OBVIOUS
<1>3. PICK k \in Bad : \A m \in Bad : k <= m
  <2> HIDE DEF Bad
  <2> QED BY <1>1, <1>2, LeastElement
<1>4. k \in 1 .. Len(s) /\ k \in 1 .. Len(t) /\ s[k] = t[k] /\ s[1] = t[1]
  BY DEF StartsWith
<1>5. CASE k = 1
  <2>1. f[k] = s[1] /\ g[k] = t[1]
    BY <1>4, <1>5, FlatteningSteps
  <2> QED BY <1>4, <2>1
<1>6. CASE k # 1
  <2>1. k - 1 \in 1 .. Len(s) /\ ~ k <= k - 1
    BY <1>4, <1>6
  <2>2. f[k - 1] = g[k - 1]
    BY <1>3, <2>1
  <2>3. f[k] = f[k - 1] \o s[k] /\ g[k] = g[k - 1] \o t[k]
    BY <1>4, <1>6, FlatteningSteps
  <2> QED BY <1>4, <2>2, <2>3
<1> QED BY <1>5, <1>6

\* The recursive function inside FlattenSeq is well defined.
LEMMA FlatteningExists ==
    ASSUME NEW S, NEW s \in Seq(Seq(S))
    PROVE  \E f : IsFlattening(f, s)
<1> DEFINE Upto(f, n) ==
              f = [k \in 1 .. n |-> IF k = 1 THEN s[k] ELSE f[k - 1] \o s[k]]
           Bad == {n \in 0 .. Len(s) : ~ \E f : Upto(f, n)}
<1>1. SUFFICES Bad = {}
  <2>1. Len(s) \in 0 .. Len(s)
    OBVIOUS
  <2> QED BY <2>1 DEF IsFlattening
<1>2. SUFFICES ASSUME Bad # {} PROVE FALSE
  OBVIOUS
<1>3. Bad \in SUBSET Nat
  <2> HIDE DEF Upto
  <2> QED OBVIOUS
<1>4. PICK n \in Bad : \A m \in Bad : n <= m
  <2> HIDE DEF Bad
  <2> QED BY <1>2, <1>3, LeastElement
<1>5. n \in 0 .. Len(s)
  OBVIOUS
<1>6. CASE n = 0
  <2>1. Upto(<<>>, 0)
    OBVIOUS
  <2> QED BY <1>6, <2>1
<1>7. CASE n # 0
  <2>1. n - 1 \in 0 .. Len(s) /\ ~ n <= n - 1
    BY <1>5, <1>7
  <2>2. PICK f : Upto(f, n - 1)
    BY <1>4, <2>1
  <2>3. DEFINE g == [k \in 1 .. n |->
                       IF k = n THEN IF n = 1 THEN s[n] ELSE f[n - 1] \o s[n]
                       ELSE f[k]]
  <2>4. ASSUME NEW k \in 1 .. n
        PROVE  g[k] = IF k = 1 THEN s[k] ELSE g[k - 1] \o s[k]
    <3>1. CASE k = n
      <4>1. k # 1 => k - 1 \in 1 .. n /\ k - 1 # n /\ g[k - 1] = f[k - 1]
        BY <1>5, <3>1
      <4> QED BY <3>1, <4>1
    <3>2. CASE k # n
      <4>1. k \in 1 .. n - 1 /\ g[k] = f[k]
        BY <1>5, <3>2
      <4>2. f[k] = IF k = 1 THEN s[k] ELSE f[k - 1] \o s[k]
        BY <2>2, <4>1
      <4>3. k # 1 => k - 1 \in 1 .. n /\ k - 1 # n /\ g[k - 1] = f[k - 1]
        BY <1>5, <4>1
      <4> QED BY <4>1, <4>2, <4>3
    <3> QED BY <3>1, <3>2
  <2>5. Upto(g, n)
    <3>1. g = [k \in 1 .. n |-> g[k]]
      OBVIOUS
    <3> HIDE DEF g
    <3> QED BY <2>4, <3>1
  <2> HIDE DEF g, Upto
  <2> QED BY <2>5
<1> QED BY <1>6, <1>7

LEMMA FlattenIs ==
    ASSUME NEW S, NEW s \in Seq(Seq(S)), s # <<>>
    PROVE  \E f : IsFlattening(f, s) /\ FlattenSeq(s) = f[Len(s)]
<1> DEFINE g == CHOOSE f : IsFlattening(f, s)
<1>1. IsFlattening(g, s)
  BY FlatteningExists
<1>2. Len(s) # 0
  OBVIOUS
<1>3. FlattenSeq(s) = g[Len(s)]
  BY <1>2 DEF FlattenSeq, IsFlattening
<1> QED BY <1>1, <1>3

LEMMA FlattenNone == FlattenSeq(<<>>) = <<>>
BY DEF FlattenSeq

LEMMA FlattenType ==
    ASSUME NEW S, NEW s \in Seq(Seq(S))
    PROVE  FlattenSeq(s) \in Seq(S)
<1>1. CASE s = <<>>
  <2>1. FlattenSeq(s) = <<>>
    BY <1>1, FlattenNone
  <2> QED BY <2>1
<1>2. CASE s # <<>>
  <2>1. PICK f : IsFlattening(f, s) /\ FlattenSeq(s) = f[Len(s)]
    BY <1>2, FlattenIs
  <2>2. Len(s) \in 1 .. Len(s)
    BY <1>2
  <2> QED BY <2>1, <2>2, FlatteningType
<1> QED BY <1>1, <1>2

\* Flattening one sequence more, or two sequences of them.
LEMMA FlattenAppend ==
    ASSUME NEW S, NEW s \in Seq(Seq(S)), NEW e \in Seq(S)
    PROVE  FlattenSeq(Append(s, e)) = FlattenSeq(s) \o e
<1> DEFINE T == Seq(S)
           all == Append(s, e)
<1>1. all \in Seq(Seq(S)) /\ all # <<>> /\ Len(s) \in Nat
  <2>1. all \in Seq(T) /\ all # <<>>
    <3> HIDE DEF T
    <3> QED BY AppendProperties DEF T
  <2> QED BY <2>1
<1>2. /\ Len(all) = Len(s) + 1 /\ all[Len(s) + 1] = e
      /\ \A k \in 1 .. Len(s) : s[k] = all[k]
  <2>1. s \in Seq(T) /\ e \in T
    OBVIOUS
  <2> HIDE DEF T
  <2> QED BY <2>1, AppendProperties
<1> HIDE DEF all, T
<1>3. PICK g : IsFlattening(g, all) /\ FlattenSeq(all) = g[Len(all)]
  BY <1>1, FlattenIs
<1>4. /\ \A k \in 1 .. Len(all) : k = 1 => g[k] = all[1]
      /\ \A k \in 1 .. Len(all) : k # 1 => g[k] = g[k - 1] \o all[k]
  BY <1>3, FlatteningSteps
<1>5. CASE s = <<>>
  <2>1. Len(all) = 1 /\ all[1] = e
    BY <1>2, <1>5
  <2>2. g[1] = e
    BY <1>4, <2>1
  <2>3. FlattenSeq(s) \o e = e
    BY <1>5, FlattenNone
  <2> QED BY <1>3, <2>1, <2>2, <2>3 DEF all
<1>6. CASE s # <<>>
  <2>1. PICK f : IsFlattening(f, s) /\ FlattenSeq(s) = f[Len(s)]
    BY <1>6, FlattenIs
  <2>2. Len(s) \in 1 .. Len(s) /\ Len(s) <= Len(all) /\ Len(all) \in Nat
    BY <1>1, <1>2, <1>6
  <2>3. \A k \in 1 .. Len(s) : f[k] = g[k]
    <3>1. IsFlattening(f, s) /\ IsFlattening(g, all)
      BY <1>3, <2>1
    <3>2. StartsWith(all, s)
      BY <1>1, <1>2, <2>2 DEF StartsWith
    <3> QED BY <3>1, <3>2, FlatteningAgrees
  <2>4. Len(all) \in 1 .. Len(all) /\ Len(all) # 1 /\ Len(all) - 1 = Len(s)
    BY <1>2, <2>2
  <2>5. g[Len(all)] = g[Len(all) - 1] \o all[Len(all)]
    BY <1>4, <2>4
  <2> QED BY <1>2, <1>3, <2>1, <2>2, <2>3, <2>4, <2>5 DEF all
<1> QED BY <1>5, <1>6

LEMMA AppendAfterConcat ==
    ASSUME NEW S, NEW s \in Seq(S), NEW t \in Seq(S), NEW e \in S
    PROVE  s \o Append(t, e) = Append(s \o t, e) /\ s \o t \in Seq(S)
OBVIOUS

LEMMA FlattenConcat ==
    ASSUME NEW S, NEW s \in Seq(Seq(S)), NEW t \in Seq(Seq(S))
    PROVE  FlattenSeq(s \o t) = FlattenSeq(s) \o FlattenSeq(t)
<1> DEFINE Part(n) == SubSeq(t, 1, n)
           Bad == {n \in 0 .. Len(t) :
                     FlattenSeq(s \o Part(n)) # FlattenSeq(s) \o FlattenSeq(Part(n))}
<1>1. SUFFICES ASSUME Bad # {} PROVE FALSE
  <2>1. Len(t) \in 0 .. Len(t) /\ Part(Len(t)) = t
    OBVIOUS
  <2> QED BY <2>1
<1>2. Bad \in SUBSET Nat
  OBVIOUS
<1>3. PICK n \in Bad : \A m \in Bad : n <= m
  <2> HIDE DEF Bad
  <2> QED BY <1>1, <1>2, LeastElement
<1>4. n \in 0 .. Len(t)
  OBVIOUS
<1>5. FlattenSeq(s) \in Seq(S)
  BY FlattenType
<1>6. CASE n = 0
  <2>1. Part(0) = <<>> /\ s \o <<>> = s
    OBVIOUS
  <2>2. FlattenSeq(s) \o <<>> = FlattenSeq(s)
    BY <1>5
  <2>3. FlattenSeq(s \o Part(n)) = FlattenSeq(s) \o FlattenSeq(Part(n))
    BY <1>6, <2>1, <2>2, FlattenNone
  <2> QED BY <2>3
<1>7. CASE n # 0
  <2> DEFINE p == Part(n - 1)
             T == Seq(S)
  <2>1. n - 1 \in 0 .. Len(t) /\ ~ n <= n - 1 /\ t[n] \in Seq(S)
    BY <1>4, <1>7
  <2>2. FlattenSeq(s \o p) = FlattenSeq(s) \o FlattenSeq(p)
    BY <1>3, <2>1
  <2>3. p \in Seq(Seq(S)) /\ Part(n) = Append(p, t[n])
    BY <1>4, <1>7, <2>1
  <2> HIDE DEF p
  <2>4. s \o Append(p, t[n]) = Append(s \o p, t[n]) /\ s \o p \in Seq(Seq(S))
    <3>1. s \in Seq(T) /\ p \in Seq(T) /\ t[n] \in T
      BY <2>1, <2>3
    <3>2. s \o Append(p, t[n]) = Append(s \o p, t[n]) /\ s \o p \in Seq(T)
      <4> HIDE DEF T
      <4> QED BY <3>1, AppendAfterConcat
    <3> QED BY <3>2
  <2>5. FlattenSeq(Append(s \o p, t[n])) = FlattenSeq(s \o p) \o t[n]
    BY <2>1, <2>4, FlattenAppend
  <2>6. FlattenSeq(Append(p, t[n])) = FlattenSeq(p) \o t[n]
    BY <2>1, <2>3, FlattenAppend
  <2>7. FlattenSeq(p) \in Seq(S)
    BY <2>3, FlattenType
  <2>8. (FlattenSeq(s) \o FlattenSeq(p)) \o t[n] = FlattenSeq(s) \o (FlattenSeq(p) \o t[n])
    <3> DEFINE a == FlattenSeq(s)
               b == FlattenSeq(p)
               c == t[n]
    <3>1. a \in Seq(S) /\ b \in Seq(S) /\ c \in Seq(S)
      BY <1>5, <2>1, <2>7
    <3> HIDE DEF a, b, c
    <3>2. (a \o b) \o c = a \o (b \o c)
      BY <3>1, SMTT(30)
    <3> QED BY <3>2 DEF a, b, c
  <2>9. FlattenSeq(s \o Part(n)) = FlattenSeq(s) \o FlattenSeq(Part(n))
    BY <2>2, <2>3, <2>4, <2>5, <2>6, <2>8
  <2> QED BY <2>9
<1> QED BY <1>6, <1>7

-----------------------------------------------------------------------------
(* Recursive functions *)

\* What holds of 0 and with each number of the next one holds up to n.
LEMMA InductionUpTo ==
    ASSUME NEW n \in Nat, NEW T, 0 \in T, \A k \in 1 .. n : k - 1 \in T => k \in T
    PROVE  \A k \in 0 .. n : k \in T
<1> DEFINE Bad == {k \in 0 .. n : k \notin T}
<1>1. SUFFICES ASSUME Bad # {} PROVE FALSE
  OBVIOUS
<1>2. Bad \in SUBSET Nat
  OBVIOUS
<1>3. PICK k \in Bad : \A m \in Bad : k <= m
  <2> HIDE DEF Bad
  <2> QED BY <1>1, <1>2, LeastElement
<1>4. k \in 1 .. n /\ k - 1 \in 0 .. n /\ ~ k <= k - 1
  OBVIOUS
<1> QED BY <1>3, <1>4

\* f begins with a and goes on with step.
IsRecursion(f, S, n, a, step) ==
    f \in [0 .. n -> S] /\ f[0] = a /\ \A k \in 1 .. n : f[k] = step[k][f[k - 1]]

\* There is such a function: the longest beginning of one is all of it.
LEMMA RecursionExists ==
    ASSUME NEW S, NEW n \in Nat, NEW a \in S, NEW step \in [1 .. n -> [S -> S]]
    PROVE  \E f : IsRecursion(f, S, n, a, step)
<1> DEFINE Upto(f, m) ==
              /\ f \in [0 .. n -> S] /\ f[0] = a
              /\ \A k \in 1 .. m : f[k] = step[k][f[k - 1]]
           T == {m \in 0 .. n : \E f : Upto(f, m)}
<1>1. 0 \in T
  <2>1. Upto([k \in 0 .. n |-> a], 0)
    OBVIOUS
  <2>2. 0 \in 0 .. n
    OBVIOUS
  <2> HIDE DEF Upto
  <2> QED BY <2>1, <2>2
<1>2. ASSUME NEW m \in 1 .. n, m - 1 \in T
      PROVE  m \in T
  <2>1. PICK f : Upto(f, m - 1)
    BY <1>2
  <2> DEFINE g == [f EXCEPT ![m] = step[m][f[m - 1]]]
  <2>2. m \in 0 .. n /\ m - 1 \in 0 .. n /\ 0 \in 0 .. n /\ m # 0
    OBVIOUS
  <2>3. step[m][f[m - 1]] \in S
    BY <2>1, <2>2
  <2>4. g \in [0 .. n -> S] /\ g[0] = a
    BY <2>1, <2>2, <2>3
  <2>5. ASSUME NEW k \in 1 .. m
        PROVE  g[k] = step[k][g[k - 1]]
    <3>1. k \in 1 .. n /\ k - 1 \in 0 .. n /\ k \in 0 .. n /\ k - 1 # m
      OBVIOUS
    <3>2. g[k - 1] = f[k - 1]
      BY <2>1, <3>1
    <3>3. CASE k = m
      BY <2>1, <2>2, <3>2, <3>3
    <3>4. CASE k # m
      <4>1. k \in 1 .. m - 1 /\ g[k] = f[k]
        BY <2>1, <3>1, <3>4
      <4> QED BY <2>1, <3>2, <4>1
    <3> QED BY <3>3, <3>4
  <2>6. Upto(g, m)
    <3> HIDE DEF g
    <3> QED BY <2>4, <2>5
  <2> HIDE DEF Upto
  <2> QED BY <2>2, <2>6
<1>3. n \in 0 .. n /\ n \in Nat
  OBVIOUS
<1>4. n \in T
  <2> HIDE DEF T
  <2> QED BY <1>1, <1>2, <1>3, InductionUpTo
<1> QED BY <1>4 DEF IsRecursion

-----------------------------------------------------------------------------
(* The least and the greatest *)

\* Of two numbers.
LEMMA MinOfTwo ==
    ASSUME NEW a \in Int, NEW b \in Int
    PROVE  Min({a, b}) = IF a <= b THEN a ELSE b
BY DEF Min

LEMMA MaxOfTwo ==
    ASSUME NEW a \in Int, NEW b \in Int
    PROVE  Max({a, b}) = IF a >= b THEN a ELSE b
BY DEF Max

\* Min and Max are CHOOSE: the only element that will do.
LEMMA MinUnique ==
    ASSUME NEW T \in SUBSET Int, NEW a \in T, \A i \in T : a <= i
    PROVE  Min(T) = a
<1>1. ASSUME NEW i \in T, \A j \in T : i <= j
      PROVE  i = a
  <2>1. i <= a /\ a <= i /\ i \in Int /\ a \in Int
    BY <1>1
  <2> QED BY <2>1
<1> QED BY <1>1, Zenon DEF Min

LEMMA MaxUnique ==
    ASSUME NEW T \in SUBSET Int, NEW a \in T, \A i \in T : a >= i
    PROVE  Max(T) = a
<1>1. ASSUME NEW i \in T, \A j \in T : i >= j
      PROVE  i = a
  <2>1. i >= a /\ a >= i /\ i \in Int /\ a \in Int
    BY <1>1
  <2> QED BY <2>1
<1> QED BY <1>1, Zenon DEF Max

\* A set of natural numbers has its least element.
LEMMA MinIs ==
    ASSUME NEW T \in SUBSET Nat, T # {}
    PROVE  Min(T) \in T /\ \A i \in T : Min(T) <= i
<1>1. PICK a \in T : \A i \in T : a <= i
  BY LeastElement
<1>2. Min(T) = a
  <2>1. T \in SUBSET Int
    OBVIOUS
  <2> QED BY <1>1, <2>1, MinUnique
<1> QED BY <1>1, <1>2

-----------------------------------------------------------------------------
(* Parts of sequences *)

\* A part of a piece, from behind position a up to position b.
LEMMA PartIs ==
    ASSUME NEW S, NEW p \in Seq(S), NEW a \in Nat, NEW b \in Nat, b <= Len(p)
    PROVE  /\ SubSeq(p, a + 1, b) \in Seq(S)
           /\ Len(SubSeq(p, a + 1, b)) = IF a <= b THEN b - a ELSE 0
           /\ \A k \in 1 .. b - a : SubSeq(p, a + 1, b)[k] = p[a + k]
<1>1. \A k \in a + 1 .. b : p[k] \in S
  OBVIOUS
<1>2. a + 1 \in Int /\ b \in Int
  OBVIOUS
<1> DEFINE part == SubSeq(p, a + 1, b)
<1>3. /\ part \in Seq(S)
      /\ Len(part) = IF a + 1 <= b THEN b - (a + 1) + 1 ELSE 0
      /\ \A k \in 1 .. b - (a + 1) + 1 : part[k] = p[a + 1 + k - 1]
  BY <1>1, <1>2, SubSeqProperties
<1>4. b - (a + 1) + 1 = b - a
  OBVIOUS
<1>5. \A k \in 1 .. b - a : a + 1 + k - 1 = a + k
  OBVIOUS
<1> HIDE DEF part
<1>6. Len(part) = IF a <= b THEN b - a ELSE 0
  BY <1>3
<1>7. \A k \in 1 .. b - a : part[k] = p[a + k]
  BY <1>3, <1>4, <1>5
<1> QED BY <1>3, <1>6, <1>7 DEF part

\* A piece made of two.
LEMMA JoinedIs ==
    ASSUME NEW S, NEW u \in Seq(S), NEW v \in Seq(S)
    PROVE  /\ u \o v \in Seq(S) /\ Len(u \o v) = Len(u) + Len(v)
           /\ \A k \in 1 .. Len(u) : (u \o v)[k] = u[k]
           /\ \A k \in 1 .. Len(v) : (u \o v)[Len(u) + k] = v[k]
<1>1. /\ u \o v \in Seq(S) /\ Len(u \o v) = Len(u) + Len(v)
      /\ \A k \in 1 .. Len(u) + Len(v) :
           (u \o v)[k] = IF k <= Len(u) THEN u[k] ELSE v[k - Len(u)]
  BY ConcatProperties
<1> DEFINE w == u \o v
<1> HIDE DEF w
<1>2. \A k \in 1 .. Len(u) : k \in 1 .. Len(u) + Len(v) /\ k <= Len(u)
  OBVIOUS
<1>3. \A k \in 1 .. Len(v) : Len(u) + k \in 1 .. Len(u) + Len(v) /\ ~ Len(u) + k <= Len(u)
                            /\ Len(u) + k - Len(u) = k
  OBVIOUS
<1>4. /\ \A k \in 1 .. Len(u) : w[k] = u[k]
      /\ \A k \in 1 .. Len(v) : w[Len(u) + k] = v[k]
  BY <1>1, <1>2, <1>3 DEF w
<1> QED BY <1>1, <1>4 DEF w

\* A piece is made of two parts when they fit, element by element.
LEMMA JoinedEquals ==
    ASSUME NEW S, NEW u \in Seq(S), NEW v \in Seq(S), NEW p \in Seq(S)
    PROVE  u \o v = p <=>
             /\ Len(p) = Len(u) + Len(v)
             /\ \A k \in 1 .. Len(u) : p[k] = u[k]
             /\ \A k \in 1 .. Len(v) : p[Len(u) + k] = v[k]
<1> DEFINE w == u \o v
<1>1. /\ w \in Seq(S) /\ Len(w) = Len(u) + Len(v)
      /\ \A k \in 1 .. Len(u) : w[k] = u[k]
      /\ \A k \in 1 .. Len(v) : w[Len(u) + k] = v[k]
  BY JoinedIs
<1> HIDE DEF w
<1>2. ASSUME /\ Len(p) = Len(u) + Len(v)
             /\ \A k \in 1 .. Len(u) : p[k] = u[k]
             /\ \A k \in 1 .. Len(v) : p[Len(u) + k] = v[k]
      PROVE  w = p
  <2>1. ASSUME NEW k \in 1 .. Len(w)
        PROVE  w[k] = p[k]
    <3>1. CASE k <= Len(u)
      <4>1. k \in 1 .. Len(u)
        BY <3>1
      <4> QED BY <1>1, <1>2, <4>1
    <3>2. CASE ~ k <= Len(u)
      <4>1. k - Len(u) \in 1 .. Len(v) /\ Len(u) + (k - Len(u)) = k
        BY <1>1, <3>2
      <4> QED BY <1>1, <1>2, <4>1
    <3> QED BY <3>1, <3>2
  <2> QED BY <1>1, <1>2, <2>1, SeqEqual
<1>3. ASSUME w = p
      PROVE  /\ Len(p) = Len(u) + Len(v)
             /\ \A k \in 1 .. Len(u) : p[k] = u[k]
             /\ \A k \in 1 .. Len(v) : p[Len(u) + k] = v[k]
  BY <1>1, <1>3
<1> QED BY <1>2, <1>3 DEF w

\* The first i elements.
LEMMA FirstPart ==
    ASSUME NEW S, NEW p \in Seq(S), NEW i \in 0 .. Len(p)
    PROVE  /\ SubSeq(p, 1, i) \in Seq(S) /\ Len(SubSeq(p, 1, i)) = i
           /\ \A k \in 1 .. i : SubSeq(p, 1, i)[k] = p[k]
<1>1. /\ SubSeq(p, 0 + 1, i) \in Seq(S)
      /\ Len(SubSeq(p, 0 + 1, i)) = IF 0 <= i THEN i - 0 ELSE 0
      /\ \A k \in 1 .. i - 0 : SubSeq(p, 0 + 1, i)[k] = p[0 + k]
  BY PartIs
<1>2. 0 + 1 = 1 /\ i - 0 = i /\ \A k \in 1 .. i : 0 + k = k
  OBVIOUS
<1> QED BY <1>1, <1>2

\* The two parts a piece is cut into make it again.
LEMMA CutAndJoin ==
    ASSUME NEW S, NEW p \in Seq(S), NEW i \in 0 .. Len(p)
    PROVE  SubSeq(p, 1, i) \o SubSeq(p, i + 1, Len(p)) = p
<1> DEFINE u == SubSeq(p, 1, i)
           v == SubSeq(p, i + 1, Len(p))
<1>1. u \in Seq(S) /\ Len(u) = i /\ \A k \in 1 .. i : u[k] = p[k]
  BY FirstPart
<1>2. v \in Seq(S) /\ Len(v) = Len(p) - i /\ \A k \in 1 .. Len(p) - i : v[k] = p[i + k]
  <2>1. i \in Nat /\ Len(p) \in Nat /\ Len(p) <= Len(p) /\ i <= Len(p)
    OBVIOUS
  <2>2. /\ v \in Seq(S) /\ Len(v) = IF i <= Len(p) THEN Len(p) - i ELSE 0
        /\ \A k \in 1 .. Len(p) - i : v[k] = p[i + k]
    BY <2>1, PartIs
  <2> QED BY <2>1, <2>2
<1>3. i + (Len(p) - i) = Len(p)
  OBVIOUS
<1> HIDE DEF u, v
<1>4. u \in Seq(S) /\ v \in Seq(S) /\ Len(p) = Len(u) + Len(v)
  BY <1>1, <1>2, <1>3
<1>5. (\A k \in 1 .. Len(u) : p[k] = u[k]) /\ \A k \in 1 .. Len(v) : p[Len(u) + k] = v[k]
  BY <1>1, <1>2
<1>6. u \o v = p
  <2>1. u \o v = p <=> /\ Len(p) = Len(u) + Len(v)
                       /\ \A k \in 1 .. Len(u) : p[k] = u[k]
                       /\ \A k \in 1 .. Len(v) : p[Len(u) + k] = v[k]
    <3>1. u \in Seq(S) /\ v \in Seq(S)
      BY <1>4
    <3> QED BY <3>1, JoinedEquals
  <2> QED BY <1>4, <1>5, <2>1
<1> QED BY <1>6 DEF u, v

\* A sequence read backwards.
LEMMA ReverseIs ==
    ASSUME NEW S, NEW s \in Seq(S)
    PROVE  /\ Reverse(s) \in Seq(S) /\ Len(Reverse(s)) = Len(s)
           /\ \A k \in 1 .. Len(s) : Reverse(s)[k] = s[Len(s) - k + 1]
<1>1. ASSUME NEW k \in 1 .. Len(s)
      PROVE  s[Len(s) - k + 1] \in S
  <2>1. Len(s) - k + 1 \in 1 .. Len(s)
    OBVIOUS
  <2> QED BY <2>1
<1> QED BY <1>1 DEF Reverse
=============================================================================
