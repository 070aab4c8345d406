---------------------------- MODULE SequenceFacts ---------------------------
(***************************************************************************)
(* Facts about sequences: wait queues, which do not repeat, grow at the    *)
(* end and may lose any of their elements, and sequences that are joined.  *)
(***************************************************************************)
EXTENDS SequencesExt, SequenceTheorems, WellFoundedInduction, TLAPS

-----------------------------------------------------------------------------
(* Wait queues.                                                            *)

\* The community's RemoveFirst removes the element from the one place where it is.
LEMMA RemoveFirstIsRemoveAt ==
    ASSUME NEW S, NEW q \in Seq(S), NEW k \in 1..Len(q), IsInjective(q)
    PROVE  RemoveFirst(q, q[k]) = RemoveAt(q, k)
  <1>1. {i \in 1..Len(q) : q[i] = q[k]} = {k}
    BY DEF IsInjective
  <1>2. Min({k}) = k
    BY DEF Min
  <1> QED
    BY <1>1, <1>2 DEF RemoveFirst, SelectInSeq

\* An execution that leaves the queue leaves everybody else in it, in order.
LEMMA RemoveFromQueue ==
    ASSUME NEW S, NEW q \in Seq(S), NEW r \in ToSet(q), IsInjective(q)
    PROVE  LET rest == RemoveFirst(q, r)
           IN  /\ rest \in Seq(S)
               /\ IsInjective(rest)
               /\ ToSet(rest) = ToSet(q) \ {r}
               /\ q # <<>>
               /\ Head(q) # r => rest # <<>> /\ Head(rest) = Head(q)
               /\ rest # <<>> => Head(rest) \in ToSet(rest)
  <1>1. PICK k \in 1..Len(q) : q[k] = r
    BY DEF ToSet
  <1> DEFINE rest == RemoveAt(q, k)
  <1>2. RemoveFirst(q, r) = rest
    BY <1>1, RemoveFirstIsRemoveAt
  <1>3. /\ rest \in Seq(S)
        /\ Len(rest) = Len(q) - 1
        /\ \A i \in 1..Len(rest) : rest[i] = IF i < k THEN q[i] ELSE q[i + 1]
    <2> DEFINE front == SubSeq(q, 1, k - 1)
               back == SubSeq(q, k + 1, Len(q))
    <2>1. /\ front \in Seq(S)
          /\ Len(front) = k - 1
          /\ \A i \in 1..(k - 1) : front[i] = q[i]
      OBVIOUS
    <2>2. /\ back \in Seq(S)
          /\ Len(back) = Len(q) - k
          /\ \A i \in 1..(Len(q) - k) : back[i] = q[k + i]
      OBVIOUS
    <2> HIDE DEF front, back
    <2>3. /\ front \o back \in Seq(S)
          /\ Len(front \o back) = Len(front) + Len(back)
          /\ \A i \in 1..(Len(front) + Len(back)) :
                 (front \o back)[i] =
                     IF i <= Len(front) THEN front[i] ELSE back[i - Len(front)]
      BY <2>1, <2>2, ConcatProperties
    <2>4. rest = front \o back
      BY DEF RemoveAt, front, back
    <2> HIDE DEF rest
    <2>0. Len(q) \in Nat /\ k \in 1..Len(q)
      OBVIOUS
    <2>5. Len(rest) = Len(q) - 1
      <3>1. Len(rest) = Len(front) + Len(back)
        BY <2>3, <2>4
      <3> QED
        BY <3>1, <2>0, <2>1, <2>2
    <2>6. ASSUME NEW i \in 1..Len(rest), i < k PROVE rest[i] = q[i]
      BY <2>1, <2>2, <2>3, <2>4, <2>6
    <2>7. ASSUME NEW i \in 1..Len(rest), ~(i < k) PROVE rest[i] = q[i + 1]
      <3>1. i \in 1..(Len(front) + Len(back)) /\ ~(i <= Len(front))
        BY <2>0, <2>1, <2>2, <2>5, <2>7
      <3>2. rest[i] = back[i - Len(front)]
        BY <3>1, <2>3, <2>4
      <3>3. i - Len(front) \in 1..(Len(q) - k) /\ k + (i - Len(front)) = i + 1
        BY <3>1, <2>0, <2>1, <2>2
      <3> QED
        BY <3>2, <3>3, <2>2
    <2> QED
      BY <2>3, <2>4, <2>5, <2>6, <2>7
  <1> HIDE DEF rest
  <1>4. IsInjective(rest)
    <2>1. ASSUME NEW i \in 1..Len(rest), NEW j \in 1..Len(rest), i < j
          PROVE  rest[i] # rest[j]
      <3> DEFINE at(n) == IF n < k THEN n ELSE n + 1
      <3>1. /\ at(i) \in 1..Len(q) /\ at(j) \in 1..Len(q) /\ at(i) < at(j)
            /\ rest[i] = q[at(i)] /\ rest[j] = q[at(j)]
        BY <1>3, <2>1
      <3> HIDE DEF at
      <3> QED
        BY <3>1 DEF IsInjective
    <2>2. DOMAIN rest = 1..Len(rest) /\ Len(rest) \in Nat
      BY <1>3
    <2>3. ASSUME NEW i \in DOMAIN rest, NEW j \in DOMAIN rest, rest[i] = rest[j]
          PROVE  i = j
      <3>1. i \in Int /\ j \in Int /\ ~(i < j) /\ ~(j < i)
        BY <2>1, <2>2, <2>3
      <3> QED
        BY <3>1
    <2> QED
      BY <2>3 DEF IsInjective
  <1>5. ToSet(rest) = ToSet(q) \ {r}
    <2>1. ASSUME NEW i \in 1..Len(rest) PROVE rest[i] \in ToSet(q) \ {r}
      BY <1>1, <1>3 DEF ToSet, IsInjective
    <2>2. ASSUME NEW i \in 1..Len(q), q[i] # r PROVE q[i] \in ToSet(rest)
      <3>1. CASE i < k
        BY <3>1, <1>3 DEF ToSet
      <3>2. CASE i > k
        <4>1. i - 1 \in 1..Len(rest) /\ rest[i - 1] = q[i]
          BY <3>2, <1>3
        <4> QED
          BY <4>1, <1>3 DEF ToSet
      <3> QED
        BY <3>1, <3>2, <2>2, <1>1
    <2> QED
      BY <2>1, <2>2, <1>3 DEF ToSet
  <1>6. Head(q) # r => rest # <<>> /\ Head(rest) = Head(q)
    BY <1>1, <1>3
  <1>7. rest # <<>> => Head(rest) \in ToSet(rest)
    BY <1>3 DEF ToSet
  <1> QED
    BY <1>1, <1>2, <1>3, <1>4, <1>5, <1>6, <1>7

\* An execution that joins the queue joins its end.
LEMMA AppendToQueue ==
    ASSUME NEW S, NEW q \in Seq(S), NEW r \in S, r \notin ToSet(q), IsInjective(q)
    PROVE  /\ Append(q, r) \in Seq(S)
           /\ IsInjective(Append(q, r))
           /\ ToSet(Append(q, r)) = ToSet(q) \cup {r}
           /\ q # <<>> => Head(Append(q, r)) = Head(q)
  <1>1. /\ Append(q, r) \in Seq(S)
        /\ Len(Append(q, r)) = Len(q) + 1
        /\ \A i \in 1..Len(q) : Append(q, r)[i] = q[i]
        /\ Append(q, r)[Len(q) + 1] = r
    OBVIOUS
  <1>2. IsInjective(Append(q, r))
    BY <1>1 DEF IsInjective, ToSet
  <1>3. ToSet(Append(q, r)) = ToSet(q) \cup {r}
    BY <1>1 DEF ToSet
  <1>4. q # <<>> => Head(Append(q, r)) = Head(q)
    BY <1>1
  <1> QED
    BY <1>1, <1>2, <1>3, <1>4

-----------------------------------------------------------------------------
(* Induction over numbers.                                                 *)

LessThan == {p \in Nat \X Nat : p[1] < p[2]}

\* A set of numbers that is not empty has a least one.
LEMMA LeastElement ==
    ASSUME NEW S \in SUBSET Nat, S # {}
    PROVE  \E n \in S : \A m \in S : n <= m
<1>1. OpToRel(<, Nat) = {p \in Nat \X Nat : p[1] < p[2]}
  BY Zenon DEF OpToRel
<1>2. IsWellFoundedOn(LessThan, Nat)
  BY NatLessThanWellFounded, <1>1 DEF LessThan
<1>3. PICK n \in S : \A m \in S : <<m, n>> \notin LessThan
  BY <1>2, WFMin
<1>4. ASSUME NEW m \in S PROVE n <= m
  <2>1. <<m, n>> \in LessThan \/ ~(m < n)
    BY DEF LessThan
  <2>2. QED  BY <1>3, <2>1
<1>5. QED  BY <1>4

\* What holds of 0, and of each number up to n that follows one it holds of, holds up to
\* n: induction, stated of a set because no prover here can instantiate an operator.
LEMMA UpTo ==
    ASSUME NEW n \in Nat, NEW S, 0 \in S, \A i \in 0 .. n - 1 : i \in S => i + 1 \in S
    PROVE  0 .. n \subseteq S
<1> DEFINE T == (0 .. n) \ S
<1>1. SUFFICES ASSUME T # {} PROVE FALSE
  OBVIOUS
<1>2. PICK m \in T : \A k \in T : m <= k
  <2>1. T \in SUBSET Nat
    OBVIOUS
  <2>2. QED  BY <1>1, <2>1, LeastElement
<1>3. m # 0 /\ m - 1 \in 0 .. n - 1
  OBVIOUS
<1>4. m - 1 \in S
  BY <1>2, <1>3
<1>5. QED  BY <1>3, <1>4

\* The greatest of the numbers up to n is n, where it is one of them.
LEMMA MaxIs ==
  ASSUME NEW n \in Nat, NEW s \in SUBSET (1 .. n), n \in s
  PROVE  Max(s) = n
<1>1. \A y \in s : n >= y
  OBVIOUS
<1>2. \A x \in s : (\A y \in s : x >= y) => x = n
  OBVIOUS
<1> QED  BY <1>1, <1>2 DEF Max

\* A set of numbers that are bounded, and not empty, has a greatest one.
LEMMA GreatestElement ==
    ASSUME NEW n \in Nat, NEW S \in SUBSET (1 .. n), S # {}
    PROVE  Max(S) \in S /\ \A m \in S : m <= Max(S)
<1> DEFINE T == {m \in Nat : n - m \in S}
<1>1. PICK x \in S : TRUE
  OBVIOUS
<1>2. n - x \in Nat /\ n - (n - x) = x
  OBVIOUS
<1>3. n - x \in T
  BY <1>2
<1>4. T \in SUBSET Nat /\ T # {}
  BY <1>3
<1>5. PICK t \in T : \A m \in T : t <= m
  BY <1>4, LeastElement
<1>6. n - t \in S /\ n - t \in Nat
  BY <1>5
<1>7. ASSUME NEW m \in S PROVE m <= n - t
  <2>1. n - m \in Nat /\ n - (n - m) = m
    OBVIOUS
  <2>2. n - m \in T
    BY <2>1
  <2>3. t <= n - m /\ t \in Nat
    BY <1>5, <2>2
  <2> QED  BY <2>3
<1> HIDE DEF T
<1> DEFINE g == n - t
<1>8. g \in S /\ g \in Nat /\ \A m \in S : m <= g
  BY <1>6, <1>7
<1> HIDE DEF g
<1>9. S \in SUBSET (1 .. g)
  BY <1>8
<1>10. Max(S) = g
  BY <1>8, <1>9, MaxIs
<1> QED  BY <1>8, <1>10

\* A number above all of them becomes the greatest.
LEMMA NewGreatest ==
    ASSUME NEW S \in SUBSET Nat, NEW l \in Nat, \A m \in S : 0 < m /\ m < l, 0 < l
    PROVE  Max(S \cup {l}) = l
<1>1. S \cup {l} \in SUBSET (1 .. l) /\ l \in S \cup {l}
  OBVIOUS
<1> QED  BY <1>1, MaxIs

-----------------------------------------------------------------------------
(* Sequences that are joined.                                              *)

\* The equation that defines FlattenSeq has a solution ...
LEMMA FlattenEquation ==
  ASSUME NEW S, NEW ss \in Seq(Seq(S)), ss # <<>>
  PROVE  \E f : f = [i \in 1 .. Len(ss) |-> IF i = 1 THEN ss[i] ELSE f[i-1] \o ss[i]]
<1> DEFINE Flattens(f, n) ==
             f \in [1 .. n -> Seq(S)] /\ \A i \in 1 .. n : f[i] = IF i = 1 THEN ss[i] ELSE f[i-1] \o ss[i]
           OK == {n \in Nat : \E f : Flattens(f, n + 1)}
<1>0. \A i \in 1 .. Len(ss) : ss[i] \in Seq(S)
  OBVIOUS
<1>1. 0 \in OK
  <2>1. Flattens([i \in 1 .. 1 |-> ss[1]], 1)
    BY <1>0
  <2>2. 0 + 1 = 1
    OBVIOUS
  <2> HIDE DEF Flattens
  <2> QED BY <2>1, <2>2
<1>2. ASSUME NEW n \in 0 .. (Len(ss) - 1) - 1, n \in OK PROVE n + 1 \in OK
  <2>0. n \in Nat
    OBVIOUS
  <2>1. PICK f : Flattens(f, n + 1)
    BY <1>2
  <2> DEFINE last == f[n + 1] \o ss[n + 2]
             g == [i \in 1 .. n + 2 |-> IF i = n + 2 THEN last ELSE f[i]]
  <2>2. (\A i \in 1 .. n + 1 : g[i] = f[i]) /\ g[n + 2] = last
    <3> HIDE DEF last
    <3> QED BY <2>0
  <2>3. last \in Seq(S)
    BY <1>0, <2>1
  <2>4. g \in [1 .. n + 2 -> Seq(S)]
    BY <2>1, <2>3
  <2> HIDE DEF g
  <2>5. ASSUME NEW i \in 1 .. n + 2 PROVE g[i] = IF i = 1 THEN ss[i] ELSE g[i-1] \o ss[i]
    <3>0. n \in Nat
      OBVIOUS
    <3>1. CASE i = 1
      <4>1. i \in 1 .. n + 1
        BY <3>0, <3>1
      <4> QED BY <3>1, <4>1, <2>1, <2>2
    <3>2. CASE i = n + 2
      <4>1. n + 1 \in 1 .. n + 1 /\ i # 1 /\ i - 1 = n + 1
        BY <3>0, <3>2
      <4>2. g[n + 1] = f[n + 1]
        BY <4>1, <2>2
      <4> QED BY <3>2, <2>2, <4>1, <4>2
    <3>3. CASE i # 1 /\ i # n + 2
      <4>1. i \in 1 .. n + 1 /\ i - 1 \in 1 .. n + 1
        BY <3>0, <3>3
      <4>2. f[i] = f[i - 1] \o ss[i]
        BY <4>1, <3>3, <2>1
      <4>3. g[i] = f[i] /\ g[i - 1] = f[i - 1]
        BY <4>1, <2>2
      <4> QED BY <3>3, <4>2, <4>3
    <3> QED BY <3>1, <3>2, <3>3
  <2>6. Flattens(g, n + 2)
    BY <2>4, <2>5
  <2>7. n + 1 \in Nat /\ (n + 1) + 1 = n + 2
    OBVIOUS
  <2> HIDE DEF Flattens
  <2> QED BY <2>6, <2>7
<1>3. Len(ss) - 1 \in OK
  <2>0. Len(ss) - 1 \in Nat
    OBVIOUS
  <2> HIDE DEF OK
  <2>1. 0 .. Len(ss) - 1 \subseteq OK
    BY <2>0, <1>1, <1>2, UpTo
  <2> QED BY <2>0, <2>1
<1>4. (Len(ss) - 1) + 1 = Len(ss)
  OBVIOUS
<1>5. PICK f : Flattens(f, Len(ss))
  BY <1>3, <1>4
<1>6. f = [i \in 1 .. Len(ss) |-> IF i = 1 THEN ss[i] ELSE f[i-1] \o ss[i]]
  BY <1>5
<1> QED  BY <1>5, <1>6

\* ... so FlattenSeq joins one sequence after the other.
LEMMA FlattenSteps ==
  ASSUME NEW S, NEW ss \in Seq(Seq(S))
  PROVE  \E f \in [0 .. Len(ss) -> Seq(S)] :
            /\ f[0] = <<>>
            /\ \A i \in 1 .. Len(ss) : f[i] = f[i-1] \o ss[i]
            /\ FlattenSeq(ss) = f[Len(ss)]
<1>0. \A i \in 1 .. Len(ss) : ss[i] \in Seq(S)
  OBVIOUS
<1>1. CASE ss = <<>>
  <2>1. FlattenSeq(ss) = <<>> /\ Len(ss) = 0
    BY <1>1 DEF FlattenSeq
  <2> WITNESS [i \in 0 .. Len(ss) |-> <<>>] \in [0 .. Len(ss) -> Seq(S)]
  <2> QED BY <2>1
<1>2. CASE ss # <<>>
  <2> DEFINE flatten == CHOOSE f : f = [i \in 1 .. Len(ss) |-> IF i = 1 THEN ss[i] ELSE f[i-1] \o ss[i]]
  <2>1. flatten = [i \in 1 .. Len(ss) |-> IF i = 1 THEN ss[i] ELSE flatten[i-1] \o ss[i]]
    BY <1>2, FlattenEquation, Zenon
  <2>2. FlattenSeq(ss) = flatten[Len(ss)]
    BY <1>2 DEF FlattenSeq
  <2> HIDE DEF flatten
  <2>3. \A i \in 1 .. Len(ss) : flatten[i] = IF i = 1 THEN ss[i] ELSE flatten[i-1] \o ss[i]
    BY <2>1
  <2> DEFINE T == {i \in 0 .. Len(ss) : i # 0 => flatten[i] \in Seq(S)}
  <2>5. 0 .. Len(ss) \subseteq T
    <3>0. Len(ss) \in Nat
      OBVIOUS
    <3>1. 0 \in T
      OBVIOUS
    <3>2. ASSUME NEW i \in 0 .. Len(ss) - 1, i \in T PROVE i + 1 \in T
      <4>1. i + 1 \in 1 .. Len(ss) /\ (i + 1) - 1 = i
        BY <3>0
      <4>2. ss[i + 1] \in Seq(S)
        BY <4>1, <1>0
      <4>3. flatten[i + 1] = IF i + 1 = 1 THEN ss[i + 1] ELSE flatten[i] \o ss[i + 1]
        BY <4>1, <2>3
      <4>4. i # 0 => flatten[i] \in Seq(S)
        BY <3>2
      <4>5. flatten[i + 1] \in Seq(S)
        BY <4>2, <4>3, <4>4
      <4> QED BY <4>1, <4>5
    <3> HIDE DEF T
    <3> QED BY <3>0, <3>1, <3>2, UpTo
  <2> DEFINE f == [i \in 0 .. Len(ss) |-> IF i = 0 THEN <<>> ELSE flatten[i]]
  <2>6. f \in [0 .. Len(ss) -> Seq(S)]
    BY <2>5
  <2>7. \A i \in 1 .. Len(ss) : f[i] = f[i-1] \o ss[i]
    <3> SUFFICES ASSUME NEW i \in 1 .. Len(ss) PROVE f[i] = f[i-1] \o ss[i]
      OBVIOUS
    <3>0. /\ i \in 0 .. Len(ss) /\ i - 1 \in 0 .. Len(ss) /\ i # 0
          /\ i = 1 <=> i - 1 = 0
      OBVIOUS
    <3>1. f[i] = flatten[i] /\ f[i - 1] = IF i = 1 THEN <<>> ELSE flatten[i - 1]
      BY <3>0
    <3>2. <<>> \o ss[i] = ss[i]
      BY <1>0
    <3> HIDE DEF f
    <3> QED BY <3>1, <3>2, <2>3
  <2>8. f[0] = <<>> /\ FlattenSeq(ss) = f[Len(ss)]
    BY <1>2, <2>2
  <2> HIDE DEF f
  <2> QED BY <2>6, <2>7, <2>8
<1> QED  BY <1>1, <1>2

\* A sequence that is added is joined at the end.
LEMMA FlattenAppend ==
  ASSUME NEW S, NEW ss \in Seq(Seq(S)), NEW s \in Seq(S)
  PROVE  FlattenSeq(Append(ss, s)) = FlattenSeq(ss) \o s
<1> DEFINE tt == Append(ss, s)
<1>0. /\ tt \in Seq(Seq(S)) /\ Len(tt) = Len(ss) + 1 /\ Len(ss) \in Nat
      /\ \A i \in 1 .. Len(ss) : tt[i] = ss[i]
      /\ tt[Len(ss) + 1] = s
  OBVIOUS
<1> HIDE DEF tt
<1>1. PICK f \in [0 .. Len(ss) -> Seq(S)] :
        /\ f[0] = <<>>
        /\ \A i \in 1 .. Len(ss) : f[i] = f[i-1] \o ss[i]
        /\ FlattenSeq(ss) = f[Len(ss)]
  BY FlattenSteps
<1>2. PICK g \in [0 .. Len(tt) -> Seq(S)] :
        /\ g[0] = <<>>
        /\ \A i \in 1 .. Len(tt) : g[i] = g[i-1] \o tt[i]
        /\ FlattenSeq(tt) = g[Len(tt)]
  BY <1>0, FlattenSteps
<1> DEFINE T == {i \in 0 .. Len(ss) : f[i] = g[i]}
<1>3. 0 \in T
  BY <1>0, <1>1, <1>2
<1>4. ASSUME NEW i \in 0 .. Len(ss) - 1, i \in T PROVE i + 1 \in T
  <2>1. i + 1 \in 1 .. Len(ss) /\ i + 1 \in 1 .. Len(tt) /\ (i + 1) - 1 = i
    BY <1>0
  <2>2. f[i + 1] = f[i] \o ss[i + 1] /\ g[i + 1] = g[i] \o tt[i + 1]
    BY <1>1, <1>2, <2>1
  <2>3. i + 1 \in 0 .. Len(ss) /\ ss[i + 1] = tt[i + 1]
    BY <1>0, <2>1
  <2> QED BY <1>4, <2>2, <2>3
<1>5. Len(ss) \in T
  <2> HIDE DEF T
  <2>1. 0 .. Len(ss) \subseteq T
    BY <1>0, <1>3, <1>4, UpTo
  <2>2. Len(ss) \in 0 .. Len(ss)
    BY <1>0
  <2> QED BY <2>1, <2>2
<1>6. g[Len(ss) + 1] = g[Len(ss)] \o s
  <2>1. Len(ss) + 1 \in 1 .. Len(tt) /\ (Len(ss) + 1) - 1 = Len(ss)
    BY <1>0
  <2> QED BY <1>0, <1>2, <2>1
<1> QED  BY <1>0, <1>1, <1>2, <1>5, <1>6 DEF tt

\* What is joined is a sequence of the same elements, nothing if there is nothing to join.
LEMMA FlattenIsSeq ==
  ASSUME NEW S, NEW ss \in Seq(Seq(S))
  PROVE  FlattenSeq(ss) \in Seq(S) /\ FlattenSeq(<<>>) = <<>>
<1>1. FlattenSeq(ss) \in Seq(S)
  <2>1. PICK f \in [0 .. Len(ss) -> Seq(S)] : FlattenSeq(ss) = f[Len(ss)]
    BY FlattenSteps
  <2>2. Len(ss) \in 0 .. Len(ss)
    OBVIOUS
  <2> QED BY <2>1, <2>2
<1>2. FlattenSeq(<<>>) = <<>>
  BY DEF FlattenSeq
<1> QED  BY <1>1, <1>2

\* Two sequences joined have the elements of both, ...
LEMMA ConcatElements ==
  ASSUME NEW S, NEW s \in Seq(S), NEW t \in Seq(S)
  PROVE  ToSet(s \o t) = ToSet(s) \cup ToSet(t)
<1>1. /\ s \o t \in Seq(S) /\ Len(s \o t) = Len(s) + Len(t)
      /\ \A i \in 1 .. Len(s) + Len(t) : (s \o t)[i] = IF i <= Len(s) THEN s[i] ELSE t[i - Len(s)]
  BY ConcatProperties
<1>2. ASSUME NEW x \in ToSet(s \o t) PROVE x \in ToSet(s) \cup ToSet(t)
  <2>1. PICK i \in 1 .. Len(s) + Len(t) : x = (s \o t)[i]
    BY <1>1 DEF ToSet
  <2>2. CASE i <= Len(s)
    <3>1. i \in 1 .. Len(s)
      BY <2>2
    <3> QED BY <1>1, <2>1, <2>2, <3>1 DEF ToSet
  <2>3. CASE i > Len(s)
    <3>1. i - Len(s) \in 1 .. Len(t) /\ ~(i <= Len(s))
      BY <2>3
    <3> QED BY <1>1, <2>1, <2>3, <3>1 DEF ToSet
  <2> QED BY <2>2, <2>3
<1>3. ASSUME NEW x \in ToSet(s) PROVE x \in ToSet(s \o t)
  <2>1. PICK i \in 1 .. Len(s) : x = s[i]
    BY DEF ToSet
  <2>2. i \in 1 .. Len(s) + Len(t) /\ i <= Len(s)
    OBVIOUS
  <2> QED BY <1>1, <2>1, <2>2 DEF ToSet
<1>4. ASSUME NEW x \in ToSet(t) PROVE x \in ToSet(s \o t)
  <2>1. PICK i \in 1 .. Len(t) : x = t[i]
    BY DEF ToSet
  <2>2. /\ i + Len(s) \in 1 .. Len(s) + Len(t) /\ ~(i + Len(s) <= Len(s))
        /\ (i + Len(s)) - Len(s) = i
    OBVIOUS
  <2> QED BY <1>1, <2>1, <2>2 DEF ToSet
<1> QED  BY <1>2, <1>3, <1>4

\* ... any number of them those of all, ...
LEMMA FlattenElements ==
  ASSUME NEW S, NEW ss \in Seq(Seq(S))
  PROVE  ToSet(FlattenSeq(ss)) = UNION {ToSet(ss[i]) : i \in 1 .. Len(ss)}
<1>1. PICK f \in [0 .. Len(ss) -> Seq(S)] :
        /\ f[0] = <<>>
        /\ \A i \in 1 .. Len(ss) : f[i] = f[i-1] \o ss[i]
        /\ FlattenSeq(ss) = f[Len(ss)]
  BY FlattenSteps
<1> DEFINE U(n) == UNION {ToSet(ss[i]) : i \in 1 .. n}
           T == {n \in 0 .. Len(ss) : ToSet(f[n]) = U(n)}
<1>2. 0 \in T
  <2>1. ToSet(<<>>) = {} /\ U(0) = {}
    BY DEF ToSet
  <2> QED BY <1>1, <2>1
<1>3. ASSUME NEW n \in 0 .. Len(ss) - 1, n \in T PROVE n + 1 \in T
  <2>1. n + 1 \in 1 .. Len(ss) /\ (n + 1) - 1 = n /\ ss[n + 1] \in Seq(S) /\ n \in 0 .. Len(ss)
    OBVIOUS
  <2>2. ToSet(f[n + 1]) = ToSet(f[n]) \cup ToSet(ss[n + 1])
    <3>1. f[n] \in Seq(S)
      BY <2>1
    <3>2. f[n + 1] = f[n] \o ss[n + 1]
      BY <1>1, <2>1
    <3>3. ToSet(f[n] \o ss[n + 1]) = ToSet(f[n]) \cup ToSet(ss[n + 1])
      BY <2>1, <3>1, ConcatElements
    <3> QED BY <3>2, <3>3
  <2>3. U(n + 1) = U(n) \cup ToSet(ss[n + 1])
    <3>1. 1 .. n + 1 = (1 .. n) \cup {n + 1}
      OBVIOUS
    <3> QED BY <3>1
  <2>4. n + 1 \in 0 .. Len(ss)
    OBVIOUS
  <2> HIDE DEF U
  <2> QED BY <1>3, <2>2, <2>3, <2>4
<1>4. Len(ss) \in T
  <2>0. Len(ss) \in Nat
    OBVIOUS
  <2> HIDE DEF T
  <2>1. 0 .. Len(ss) \subseteq T
    BY <2>0, <1>2, <1>3, UpTo
  <2> QED BY <2>0, <2>1
<1> QED  BY <1>1, <1>4

\* ... and one with an element more has one element more.
LEMMA AppendElements ==
  ASSUME NEW S, NEW s \in Seq(S), NEW x
  PROVE  ToSet(Append(s, x)) = ToSet(s) \cup {x}
<1>1. /\ DOMAIN Append(s, x) = 1 .. Len(s) + 1
      /\ \A i \in 1 .. Len(s) : Append(s, x)[i] = s[i]
      /\ Append(s, x)[Len(s) + 1] = x
  OBVIOUS
<1>2. 1 .. Len(s) + 1 = (1 .. Len(s)) \cup {Len(s) + 1}
  OBVIOUS
<1>3. DOMAIN s = 1 .. Len(s)
  OBVIOUS
<1> QED  BY <1>1, <1>2, <1>3 DEF ToSet
=============================================================================
