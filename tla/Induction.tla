--------------------------- MODULE Induction ---------------------------
(***************************************************************************)
(* Induction and recursion over the natural numbers for the proofs of this  *)
(* project, with sets and functions in place of operator parameters: a      *)
(* property is given as the set of numbers that have it, a recursion by the *)
(* function that makes one step of it.  What FlattenSeq computes follows    *)
(* from there.                                                             *)
(***************************************************************************)
EXTENDS Integers, SequencesExt, SequenceTheorems, WellFoundedInduction, TLAPS

LEMMA LessIsWellFounded ==
  LET R == {pair \in Nat \X Nat : pair[1] < pair[2]} IN IsWellFoundedOn(R, Nat)
  BY NatLessThanWellFounded, Zenon DEF OpToRel

\* A set of numbers that is not empty has a least one.
LEMMA LeastNatural ==
  ASSUME NEW T, T \subseteq Nat, T # {}
  PROVE  \E n \in T : \A k \in T : n <= k
<1> DEFINE R == {pair \in Nat \X Nat : pair[1] < pair[2]}
<1>1. \A x, y \in Nat : x < y => <<x, y>> \in R
  OBVIOUS
<1>2. IsWellFoundedOn(R, Nat)
  BY LessIsWellFounded, Zenon
<1> HIDE DEF R
<1>3. PICK n \in T : \A k \in T : ~(<<k, n>> \in R)
  BY <1>2, WFMin
<1>4. ASSUME NEW k \in T PROVE n <= k
  <2>1. n \in Nat /\ k \in Nat /\ ~(<<k, n>> \in R)
    BY <1>3
  <2>2. ~(k < n)
    BY <1>1, <2>1
  <2> QED BY <2>1, <2>2
<1> QED BY <1>4

\* Induction, for the set of numbers that have a property.
THEOREM SetInduction ==
  ASSUME NEW S, 0 \in S, \A n \in Nat : n \in S => n + 1 \in S
  PROVE  \A n \in Nat : n \in S
<1> DEFINE T == Nat \ S
<1>1. SUFFICES ASSUME T # {} PROVE FALSE
  OBVIOUS
<1>2. PICK n \in T : \A k \in T : n <= k
  BY <1>1, LeastNatural
<1>3. n \in Nat /\ n # 0
  BY <1>2
<1>4. n - 1 \in Nat /\ n - 1 \notin T
  BY <1>2, <1>3
<1>5. n - 1 + 1 \in S
  BY <1>4
<1> QED BY <1>2, <1>3, <1>5

-----------------------------------------------------------------------------
(* Recursion *)

\* f is what the recursion computes up to m.
Computes(f, m, V, base, step) ==
  /\ f \in [0 .. m -> V]
  /\ f[0] = base
  /\ \A n \in 0 .. m - 1 : f[n + 1] = step[<<n, f[n]>>]

LEMMA ComputesNext ==
  ASSUME NEW V, NEW base \in V, NEW step \in [Nat \X V -> V], NEW m \in Nat,
         NEW f, Computes(f, m, V, base, step)
  PROVE  \E g : Computes(g, m + 1, V, base, step)
<1> DEFINE g == [n \in 0 .. m + 1 |-> IF n <= m THEN f[n] ELSE step[<<m, f[m]>>]]
<1>1. f[m] \in V /\ step[<<m, f[m]>>] \in V
  BY DEF Computes
<1>2. g \in [0 .. m + 1 -> V]
  BY <1>1 DEF Computes
<1>3. g[0] = base
  BY DEF Computes
<1>4. ASSUME NEW n \in 0 .. m PROVE g[n + 1] = step[<<n, g[n]>>]
  <2>1. CASE n = m
    BY <2>1
  <2>2. CASE n # m
    <3>1. n \in 0 .. m - 1 /\ n + 1 \in 0 .. m
      BY <2>2
    <3> QED BY <3>1 DEF Computes
  <2> QED BY <2>1, <2>2
<1>5. m + 1 - 1 = m
  OBVIOUS
<1> HIDE DEF g
<1> QED BY <1>2, <1>3, <1>4, <1>5 DEF Computes

LEMMA ComputesExists ==
  ASSUME NEW V, NEW base \in V, NEW step \in [Nat \X V -> V]
  PROVE  \A m \in Nat : \E f : Computes(f, m, V, base, step)
<1> DEFINE S == {m \in Nat : \E f : Computes(f, m, V, base, step)}
<1>1. 0 \in S
  <2>1. Computes([n \in 0 .. 0 |-> base], 0, V, base, step)
    BY DEF Computes
  <2> QED BY <2>1
<1>2. \A m \in Nat : m \in S => m + 1 \in S
  BY ComputesNext
<1> HIDE DEF S
<1>3. \A m \in Nat : m \in S
  BY <1>1, <1>2, SetInduction
<1> QED BY <1>3 DEF S

\* f goes from base by steps of step.
Recurs(f, V, base, step) ==
  /\ f \in [Nat -> V]
  /\ f[0] = base
  /\ \A n \in Nat : f[n + 1] = step[<<n, f[n]>>]

\* A function that makes a step from each number and value to a value defines
\* the sequence of values that starts with base.
THEOREM Recursion ==
  ASSUME NEW V, NEW base \in V, NEW step \in [Nat \X V -> V]
  PROVE  \E f : Recurs(f, V, base, step)
<1> DEFINE upTo(m) == CHOOSE g : Computes(g, m, V, base, step)
           f == [n \in Nat |-> upTo(n)[n]]
<1>1. \A m \in Nat : Computes(upTo(m), m, V, base, step)
  BY ComputesExists
<1> HIDE DEF upTo
<1>2. f \in [Nat -> V]
  BY <1>1 DEF Computes
<1>3. f[0] = base
  BY <1>1 DEF Computes
<1>4. ASSUME NEW n \in Nat PROVE f[n + 1] = step[<<n, f[n]>>]
  <2> DEFINE l == upTo(n)
             r == upTo(n + 1)
             S == {i \in Nat : i <= n => l[i] = r[i]}
  <2>1. /\ l[0] = base /\ \A i \in 0 .. n - 1 : l[i + 1] = step[<<i, l[i]>>]
        /\ r[0] = base /\ \A i \in 0 .. n : r[i + 1] = step[<<i, r[i]>>]
    <3>1. n + 1 \in Nat /\ n + 1 - 1 = n
      OBVIOUS
    <3> QED BY <1>1, <3>1 DEF Computes
  <2> HIDE DEF l, r
  <2>2. 0 \in S
    BY <2>1
  <2>3. ASSUME NEW i \in Nat, i \in S PROVE i + 1 \in S
    <3>1. SUFFICES ASSUME i + 1 <= n PROVE l[i + 1] = r[i + 1]
      OBVIOUS
    <3>2. i \in 0 .. n - 1 /\ i \in 0 .. n /\ l[i] = r[i]
      BY <2>3, <3>1
    <3> QED BY <2>1, <3>2
  <2> HIDE DEF S
  <2>4. n \in S
    BY <2>2, <2>3, SetInduction
  <2>5. l[n] = r[n]
    BY <2>4 DEF S
  <2>6. r[n + 1] = step[<<n, r[n]>>]
    BY <2>1
  <2> QED BY <2>5, <2>6 DEF l, r
<1> HIDE DEF f
<1> QED BY <1>2, <1>3, <1>4 DEF Recurs

\* f is the values that the rounds 1 to N of a loop go through, from base on.
Rounds(f, N, V, base, round) ==
  /\ f \in [0 .. N -> V]
  /\ \A n \in 0 .. N : f[n] = IF n = 0 THEN base ELSE round[<<n, f[n - 1]>>]

\* The same for a loop of N rounds, which may be numbered from 1.
THEOREM Iteration ==
  ASSUME NEW V, NEW base \in V, NEW round \in [Nat \X V -> V], NEW N \in Nat
  PROVE  \E f : Rounds(f, N, V, base, round)
<1> DEFINE step == [pair \in Nat \X V |-> round[<<pair[1] + 1, pair[2]>>]]
<1>1. step \in [Nat \X V -> V]
  <2>1. ASSUME NEW pair \in Nat \X V PROVE round[<<pair[1] + 1, pair[2]>>] \in V
    <3>1. <<pair[1] + 1, pair[2]>> \in Nat \X V
      OBVIOUS
    <3> QED BY <3>1
  <2> QED BY <2>1
<1>2. \A n \in Nat, v \in V : step[<<n, v>>] = round[<<n + 1, v>>]
  OBVIOUS
<1> HIDE DEF step
<1>3. PICK g : Recurs(g, V, base, step)
  BY <1>1, Recursion
<1> DEFINE f == [n \in 0 .. N |-> g[n]]
<1>4. f \in [0 .. N -> V] /\ f[0] = base
  BY <1>3 DEF Recurs
<1>5. ASSUME NEW n \in 0 .. N, n # 0 PROVE f[n] = round[<<n, f[n - 1]>>]
  <2>1. n - 1 \in Nat /\ n - 1 \in 0 .. N /\ n - 1 + 1 = n
    BY <1>5
  <2>2. g[n] = step[<<n - 1, g[n - 1]>>] /\ g[n - 1] \in V
    BY <1>3, <2>1 DEF Recurs
  <2> QED BY <1>2, <2>1, <2>2
<1> HIDE DEF f
<1>6. Rounds(f, N, V, base, round)
  BY <1>4, <1>5 DEF Rounds
<1> QED BY <1>6

-----------------------------------------------------------------------------
(* Tail recursion: a loop *)

\* f is what the loop computes from the states from which it takes fewer than n
\* rounds.
Loops(f, n, X, R, next, done, out, measure) ==
  /\ f \in [X -> R]
  /\ \A x \in X : measure[x] < n => f[x] = IF x \in done THEN out[x] ELSE f[next[x]]

\* f is what the loop computes from every state.
LoopsOn(f, X, R, next, done, out) ==
  /\ f \in [X -> R]
  /\ \A x \in X : f[x] = IF x \in done THEN out[x] ELSE f[next[x]]

\* A loop on the states X that stops in the states done, and whose measure each
\* round decreases, computes a result from every state.
THEOREM TailRecursion ==
  ASSUME NEW X, NEW R, NEW next \in [X -> X], NEW done, NEW out \in [X -> R],
         NEW measure \in [X -> Nat],
         \A x \in X : x \notin done => measure[next[x]] < measure[x]
  PROVE  \E f : LoopsOn(f, X, R, next, done, out)
<1> DEFINE Solves(f, n) == Loops(f, n, X, R, next, done, out, measure)
           S == {n \in Nat : \E f : Solves(f, n)}
<1>1. 0 \in S
  <2>1. Solves(out, 0)
    BY DEF Loops
  <2> QED BY <2>1
<1>2. ASSUME NEW n \in Nat, n \in S PROVE n + 1 \in S
  <2>1. PICK f : Solves(f, n)
    BY <1>2
  <2> DEFINE g == [x \in X |-> IF measure[x] < n THEN f[x]
                               ELSE IF x \in done THEN out[x] ELSE f[next[x]]]
  <2>2. g \in [X -> R]
    BY <2>1 DEF Loops
  <2>3. ASSUME NEW x \in X, measure[x] < n + 1
        PROVE  g[x] = IF x \in done THEN out[x] ELSE g[next[x]]
    <3>1. measure[x] \in Nat
      OBVIOUS
    <3>2. CASE x \in done
      BY <2>1, <3>2 DEF Loops
    <3>3. CASE x \notin done
      <4>1. next[x] \in X /\ measure[next[x]] \in Nat /\ measure[next[x]] < n
        BY <2>3, <3>1, <3>3
      <4>2. g[next[x]] = f[next[x]]
        BY <4>1
      <4>3. g[x] = f[next[x]]
        BY <2>1, <3>3 DEF Loops
      <4> QED BY <3>3, <4>2, <4>3
    <3> QED BY <3>2, <3>3
  <2> HIDE DEF g
  <2>4. Solves(g, n + 1)
    BY <2>2, <2>3 DEF Loops
  <2> QED BY <2>4
<1> HIDE DEF S
<1>3. \A n \in Nat : n \in S
  BY <1>1, <1>2, SetInduction
<1> DEFINE upTo(n) == CHOOSE f : Solves(f, n)
<1>4. \A n \in Nat : Solves(upTo(n), n)
  BY <1>3 DEF S
<1> HIDE DEF upTo
\* Two of these functions agree where both are the loop's.
<1>5. ASSUME NEW m \in Nat, NEW n \in Nat
      PROVE  \A x \in X : measure[x] < m /\ measure[x] < n => upTo(m)[x] = upTo(n)[x]
  <2> DEFINE l == upTo(m)
             r == upTo(n)
             T == {k \in Nat : \A x \in X : measure[x] < k /\ measure[x] < m /\ measure[x] < n
                                              => l[x] = r[x]}
  <2>1. /\ \A x \in X : measure[x] < m => l[x] = IF x \in done THEN out[x] ELSE l[next[x]]
        /\ \A x \in X : measure[x] < n => r[x] = IF x \in done THEN out[x] ELSE r[next[x]]
    BY <1>4 DEF Loops
  <2> HIDE DEF l, r
  <2>2. 0 \in T
    OBVIOUS
  <2>3. ASSUME NEW k \in Nat, k \in T PROVE k + 1 \in T
    <3>1. SUFFICES ASSUME NEW x \in X, measure[x] < k + 1, measure[x] < m, measure[x] < n
                   PROVE  l[x] = r[x]
      OBVIOUS
    <3>2. CASE x \in done
      BY <2>1, <3>1, <3>2
    <3>3. CASE x \notin done
      <4>1. /\ next[x] \in X /\ measure[next[x]] \in Nat /\ measure[x] \in Nat
            /\ measure[next[x]] < measure[x]
        BY <3>3
      <4>2. measure[next[x]] < k /\ measure[next[x]] < m /\ measure[next[x]] < n
        BY <3>1, <4>1
      <4>3. l[next[x]] = r[next[x]]
        BY <2>3, <4>1, <4>2
      <4> QED BY <2>1, <3>1, <3>3, <4>3
    <3> QED BY <3>2, <3>3
  <2> HIDE DEF T
  <2>4. \A k \in Nat : k \in T
    BY <2>2, <2>3, SetInduction
  <2>5. ASSUME NEW x \in X, measure[x] < m, measure[x] < n PROVE l[x] = r[x]
    <3>1. m \in T
      BY <2>4
    <3> QED BY <2>5, <3>1 DEF T
  <2> QED BY <2>5 DEF l, r
<1> DEFINE f == [x \in X |-> upTo(measure[x] + 1)[x]]
<1>6. f \in [X -> R]
  BY <1>4 DEF Loops
<1>7. ASSUME NEW x \in X PROVE f[x] = IF x \in done THEN out[x] ELSE f[next[x]]
  <2>1. measure[x] \in Nat /\ measure[x] + 1 \in Nat /\ measure[x] < measure[x] + 1
    OBVIOUS
  <2>2. upTo(measure[x] + 1)[x] = IF x \in done THEN out[x] ELSE upTo(measure[x] + 1)[next[x]]
    BY <1>4, <2>1 DEF Loops
  <2>3. CASE x \in done
    BY <2>2, <2>3
  <2>4. CASE x \notin done
    <3>1. /\ next[x] \in X /\ measure[next[x]] \in Nat /\ measure[next[x]] + 1 \in Nat
          /\ measure[next[x]] < measure[x] + 1 /\ measure[next[x]] < measure[next[x]] + 1
      BY <2>1, <2>4
    <3>2. upTo(measure[next[x]] + 1)[next[x]] = upTo(measure[x] + 1)[next[x]]
      BY <1>5, <2>1, <3>1
    <3> QED BY <2>2, <2>4, <3>1, <3>2
  <2> QED BY <2>3, <2>4
<1> HIDE DEF f
<1>8. LoopsOn(f, X, R, next, done, out)
  BY <1>6, <1>7 DEF LoopsOn
<1> QED BY <1>8

-----------------------------------------------------------------------------
(* Sequences that are flattened *)

IsFlatten(f, seqs) ==
  f = [i \in 1 .. Len(seqs) |-> IF i = 1 THEN seqs[i] ELSE f[i - 1] \o seqs[i]]
Flatten(seqs) == CHOOSE f : IsFlatten(f, seqs)

LEMMA FlattenStep ==
  ASSUME NEW seqs, NEW f, IsFlatten(f, seqs), NEW i \in 1 .. Len(seqs)
  PROVE  (i = 1 => f[i] = seqs[i]) /\ (i # 1 => f[i] = f[i - 1] \o seqs[i])
  BY DEF IsFlatten

LEMMA FlattenSeqIsFlatten ==
  \A seqs : FlattenSeq(seqs) = IF Len(seqs) = 0 THEN seqs ELSE Flatten(seqs)[Len(seqs)]
  BY Zenon DEF FlattenSeq, Flatten, IsFlatten

LEMMA ElementOf ==
  ASSUME NEW S, NEW s \in Seq(S), NEW i \in 1 .. Len(s)
  PROVE  s[i] \in S
  OBVIOUS

\* What a function makes of each element of a sequence is a sequence.
LEMMA MapIsSeq ==
  ASSUME NEW S, NEW s, Len(s) \in Nat, DOMAIN s = 1 .. Len(s), NEW g,
         g = [i \in DOMAIN s |-> g[i]], \A i \in 1 .. Len(s) : g[i] \in S
  PROVE  g \in Seq(S) /\ Len(g) = Len(s) /\ DOMAIN g = 1 .. Len(s)
<1>1. g \in [1 .. Len(s) -> S]
  OBVIOUS
<1> QED BY <1>1, SeqDef

LEMMA FlattenExists ==
  ASSUME NEW S, NEW seqs \in Seq(Seq(S))
  PROVE  /\ IsFlatten(Flatten(seqs), seqs)
         /\ \A i \in 1 .. Len(seqs) : Flatten(seqs)[i] \in Seq(S)
<1> DEFINE N == Len(seqs)
           V == Seq(S)
           round == [pair \in Nat \X V |->
                       IF pair[1] \in 1 .. N THEN pair[2] \o seqs[pair[1]] ELSE pair[2]]
<1>1. N \in Nat /\ <<>> \in V
  OBVIOUS
<1>2. \A i \in 1 .. N : seqs[i] \in V
  BY ElementOf
<1>3. \A s, t \in V : s \o t \in V /\ <<>> \o t = t
  OBVIOUS
<1>4. \A n \in Nat, v \in V : round[<<n, v>>] = IF n \in 1 .. N THEN v \o seqs[n] ELSE v
  OBVIOUS
<1>5. round \in [Nat \X V -> V]
  <2> HIDE DEF V, N
  <2>1. ASSUME NEW pair \in Nat \X V
        PROVE  (IF pair[1] \in 1 .. N THEN pair[2] \o seqs[pair[1]] ELSE pair[2]) \in V
    BY <1>2, <1>3
  <2> QED BY <2>1
<1> HIDE DEF round, V, N
<1>6. PICK f : Rounds(f, N, V, <<>>, round)
  BY <1>1, <1>5, Iteration
<1> DEFINE g == [i \in 1 .. N |-> f[i]]
<1>7. ASSUME NEW i \in 1 .. N
      PROVE  g[i] \in V /\ (i = 1 => g[i] = seqs[i]) /\ (i # 1 => g[i] = g[i - 1] \o seqs[i])
  <2>1. /\ i \in 0 .. N /\ i - 1 \in 0 .. N /\ i \in Nat /\ i # 0
        /\ i # 1 => i - 1 \in 1 .. N
    BY <1>1
  <2>2. f[i] \in V /\ f[i - 1] \in V /\ f[i] = round[<<i, f[i - 1]>>]
    BY <1>6, <2>1 DEF Rounds
  <2>3. f[i] = f[i - 1] \o seqs[i]
    BY <1>4, <2>1, <2>2
  <2>4. f[0] = <<>>
    <3>1. 0 \in 0 .. N
      BY <1>1
    <3>2. f[0] = IF 0 = 0 THEN <<>> ELSE round[<<0, f[0 - 1]>>]
      BY <1>6, <3>1, Zenon DEF Rounds
    <3> QED BY <3>2
  <2>5. CASE i = 1
    <3>1. i - 1 = 0
      BY <2>5
    <3>2. f[i] = <<>> \o seqs[i]
      BY <2>3, <2>4, <3>1
    <3> QED BY <1>2, <1>3, <2>2, <2>5, <3>2
  <2>6. CASE i # 1
    BY <2>1, <2>2, <2>3, <2>6
  <2> QED BY <2>5, <2>6
<1>8. g = [i \in 1 .. N |-> IF i = 1 THEN seqs[i] ELSE g[i - 1] \o seqs[i]]
  <2> DEFINE h == [i \in 1 .. N |-> IF i = 1 THEN seqs[i] ELSE g[i - 1] \o seqs[i]]
  <2>1. \A i \in 1 .. N : g[i] = h[i]
    BY <1>7
  <2>2. DOMAIN g = 1 .. N /\ DOMAIN h = 1 .. N
    OBVIOUS
  <2> QED BY <2>1, <2>2
<1> HIDE DEF g
<1>9. IsFlatten(g, seqs)
  BY <1>8 DEF IsFlatten, N
<1>10. IsFlatten(Flatten(seqs), seqs)
  BY <1>9 DEF Flatten
<1>11. ASSUME NEW h, IsFlatten(h, seqs) PROVE \A i \in 1 .. N : h[i] = g[i]
  <2> DEFINE T == {i \in Nat : i \in 1 .. N => h[i] = g[i]}
  <2>1. \A i \in 1 .. N : (i = 1 => h[i] = seqs[i]) /\ (i # 1 => h[i] = h[i - 1] \o seqs[i])
    BY <1>11 DEF IsFlatten, N
  <2>0. ASSUME NEW i \in 1 .. N, i # 1, h[i - 1] = g[i - 1] PROVE h[i] = g[i]
    <3>1. h[i] = h[i - 1] \o seqs[i] /\ g[i] = g[i - 1] \o seqs[i]
      BY <1>7, <2>0, <2>1, Zenon
    <3> QED BY <2>0, <3>1
  <2>2. 0 \in T
    OBVIOUS
  <2>3. ASSUME NEW i \in Nat, i \in T PROVE i + 1 \in T
    <3>1. SUFFICES ASSUME i + 1 \in 1 .. N PROVE h[i + 1] = g[i + 1]
      OBVIOUS
    <3>2. i + 1 - 1 = i /\ (i + 1 # 1 => i \in 1 .. N)
      BY <1>1, <3>1
    <3>3. i + 1 # 1 => h[i] = g[i]
      BY <2>3, <3>2
    <3>4. CASE i + 1 = 1
      BY <1>7, <2>1, <3>1, <3>4
    <3>5. CASE i + 1 # 1
      BY <2>0, <3>1, <3>2, <3>3, <3>5
    <3> QED BY <3>4, <3>5
  <2> HIDE DEF T
  <2>4. \A i \in Nat : i \in T
    BY <2>2, <2>3, SetInduction
  <2>5. 1 .. N \subseteq Nat
    OBVIOUS
  <2> QED BY <2>4, <2>5 DEF T
<1> QED BY <1>7, <1>10, <1>11 DEF N, V

\* What FlattenSeq makes of no sequence and of one more.
LEMMA FlattenNone == FlattenSeq(<<>>) = <<>>
  BY DEF FlattenSeq

THEOREM FlattenAppend ==
  ASSUME NEW S, NEW seqs \in Seq(Seq(S)), NEW s \in Seq(S)
  PROVE  /\ FlattenSeq(seqs) \in Seq(S)
         /\ FlattenSeq(Append(seqs, s)) = FlattenSeq(seqs) \o s
<1> DEFINE more == Append(seqs, s)
           N == Len(seqs)
           f == Flatten(seqs)
           g == Flatten(more)
<1>1. /\ more \in Seq(Seq(S)) /\ N \in Nat /\ Len(more) = N + 1 /\ more[N + 1] = s
      /\ \A i \in 1 .. N : more[i] = seqs[i]
  OBVIOUS
<1> HIDE DEF more
<1>2. /\ \A i \in 1 .. N :
           (i = 1 => f[i] = seqs[i]) /\ (i # 1 => f[i] = f[i - 1] \o seqs[i])
      /\ \A i \in 1 .. N : f[i] \in Seq(S)
  <2>1. IsFlatten(f, seqs) /\ \A i \in 1 .. N : f[i] \in Seq(S)
    BY FlattenExists
  <2> HIDE DEF f
  <2> QED BY <2>1, FlattenStep, Zenon DEF N
<1>3. \A i \in 1 .. N + 1 :
        (i = 1 => g[i] = more[i]) /\ (i # 1 => g[i] = g[i - 1] \o more[i])
  <2>1. IsFlatten(g, more)
    BY <1>1, FlattenExists
  <2>2. 1 .. N + 1 = 1 .. Len(more)
    BY <1>1
  <2> HIDE DEF g, N
  <2> QED BY <2>1, <2>2, FlattenStep, Zenon
<1> HIDE DEF f, g
<1>0. ASSUME NEW i \in 1 .. N, i # 1, g[i - 1] = f[i - 1] PROVE g[i] = f[i]
  <2>1. f[i] = f[i - 1] \o seqs[i]
    BY <1>0, <1>2, Zenon
  <2>2. i \in 1 .. N + 1
    BY <1>1
  <2>3. g[i] = g[i - 1] \o more[i]
    BY <1>0, <1>3, <2>2, Zenon
  <2> QED BY <1>0, <1>1, <2>1, <2>3
<1> DEFINE T == {i \in Nat : i \in 1 .. N => g[i] = f[i]}
<1>4. 0 \in T
  OBVIOUS
<1>5. ASSUME NEW i \in Nat, i \in T PROVE i + 1 \in T
  <2>1. SUFFICES ASSUME i + 1 \in 1 .. N PROVE g[i + 1] = f[i + 1]
    OBVIOUS
  <2>2. i + 1 - 1 = i /\ (i + 1 # 1 => i \in 1 .. N) /\ i + 1 \in 1 .. N + 1
    BY <1>1, <2>1
  <2>3. (i + 1 # 1 => g[i] = f[i]) /\ more[i + 1] = seqs[i + 1]
    BY <1>1, <1>5, <2>1, <2>2
  <2>4. CASE i + 1 = 1
    BY <1>2, <1>3, <2>1, <2>2, <2>3, <2>4
  <2>5. CASE i + 1 # 1
    BY <1>0, <2>1, <2>2, <2>3, <2>5
  <2> QED BY <2>4, <2>5
<1> HIDE DEF T
<1>6. \A i \in Nat : i \in T
  BY <1>4, <1>5, SetInduction
<1>7. FlattenSeq(more) = g[N + 1]
  BY <1>1, FlattenSeqIsFlatten DEF g
<1>8. CASE N = 0
  <2>1. seqs = <<>>
    BY <1>8
  <2>2. FlattenSeq(seqs) = <<>>
    BY <2>1, FlattenNone
  <2>3. g[N + 1] = s /\ <<>> \o s = s
    BY <1>1, <1>3, <1>8
  <2> QED BY <1>7, <2>2, <2>3 DEF more
<1>9. CASE N # 0
  <2>1. FlattenSeq(seqs) = f[N]
    BY <1>9, FlattenSeqIsFlatten DEF f, N
  <2>2. N \in 1 .. N /\ N + 1 \in 1 .. N + 1 /\ N + 1 # 1 /\ N + 1 - 1 = N
    BY <1>1, <1>9
  <2>3. g[N] = f[N]
    BY <1>1, <1>6, <2>2 DEF T
  <2>4. ASSUME NEW i \in 1 .. N + 1, i # 1 PROVE g[i] = g[i - 1] \o more[i]
    BY <1>3, <2>4, Zenon
  <2>5. g[N + 1] = f[N] \o s
    <3> DEFINE i == N + 1
    <3>1. i \in 1 .. N + 1 /\ i # 1 /\ i - 1 = N /\ more[i] = s
      BY <1>1, <2>2
    <3> HIDE DEF i
    <3>2. g[i] = g[i - 1] \o more[i]
      BY <2>4, <3>1
    <3>3. g[i] = f[N] \o s
      BY <2>3, <3>1, <3>2
    <3> QED BY <3>3 DEF i
  <2> QED BY <1>2, <1>7, <2>1, <2>2, <2>5 DEF more
<1> QED BY <1>8, <1>9

\* How many elements the first k sequences have.
Before(seqs, k) == Len(FlattenSeq(SubSeq(seqs, 1, k)))

LEMMA OneMore ==
  ASSUME NEW S, NEW s \in Seq(S), NEW k \in Nat, k + 1 <= Len(s)
  PROVE  /\ SubSeq(s, 1, k) \in Seq(S)
         /\ SubSeq(s, 1, k + 1) = Append(SubSeq(s, 1, k), s[k + 1])
  OBVIOUS

LEMMA AllOfThem ==
  ASSUME NEW S, NEW s \in Seq(S)
  PROVE  SubSeq(s, 1, Len(s)) = s /\ SubSeq(s, 1, 0) = <<>>
  OBVIOUS

\* Where the elements of the sequences are when they are flattened.
THEOREM FlattenPlaces ==
  ASSUME NEW S, NEW seqs \in Seq(Seq(S))
  PROVE  /\ FlattenSeq(seqs) \in Seq(S)
         /\ \A k \in 0 .. Len(seqs) : Before(seqs, k) \in Nat
         /\ Before(seqs, 0) = 0
         /\ Before(seqs, Len(seqs)) = Len(FlattenSeq(seqs))
         /\ \A k \in 1 .. Len(seqs) :
              /\ Before(seqs, k) = Before(seqs, k - 1) + Len(seqs[k])
              /\ \A m \in 1 .. Len(seqs[k]) :
                   FlattenSeq(seqs)[Before(seqs, k - 1) + m] = seqs[k][m]
<1> DEFINE N == Len(seqs)
           F(n) == FlattenSeq(SubSeq(seqs, 1, n))
           holds(n) == /\ F(n) \in Seq(S)
                       /\ \A k \in 1 .. n :
                            /\ Before(seqs, k) = Before(seqs, k - 1) + Len(seqs[k])
                            /\ Before(seqs, k) <= Before(seqs, n)
                            /\ \A m \in 1 .. Len(seqs[k]) :
                                 F(n)[Before(seqs, k - 1) + m] = seqs[k][m]
           T == {n \in Nat : n <= N => holds(n)}
<1>1. N \in Nat /\ \A i \in 1 .. N : seqs[i] \in Seq(S)
  BY ElementOf
<1>2. \A n : Before(seqs, n) = Len(F(n))
  BY DEF Before
<1>3. F(0) = <<>>
  BY FlattenNone, AllOfThem
<1>4. ASSUME NEW n \in Nat, n + 1 <= N PROVE F(n + 1) = F(n) \o seqs[n + 1] /\ F(n) \in Seq(S)
  <2>1. /\ SubSeq(seqs, 1, n) \in Seq(Seq(S))
        /\ SubSeq(seqs, 1, n + 1) = Append(SubSeq(seqs, 1, n), seqs[n + 1])
    BY <1>4, OneMore
  <2>2. seqs[n + 1] \in Seq(S)
    BY <1>1, <1>4
  <2> QED BY <2>1, <2>2, FlattenAppend
<1>5. F(N) = FlattenSeq(seqs)
  BY AllOfThem
<1> HIDE DEF F, N
<1>6. 0 \in T
  <2>1. F(0) \in Seq(S)
    BY <1>3, EmptySeq
  <2>2. holds(0)
    BY <2>1
  <2> QED BY <2>2
<1>7. ASSUME NEW n \in Nat, n \in T PROVE n + 1 \in T
  <2>1. SUFFICES ASSUME n + 1 <= N PROVE holds(n + 1)
    BY SMTT(30)
  <2>2. holds(n)
    BY <1>1, <1>7, <2>1
  <2> DEFINE s == F(n)
             t == seqs[n + 1]
             u == F(n + 1)
  <2>3. s \in Seq(S) /\ t \in Seq(S) /\ u = s \o t
    BY <1>1, <1>4, <2>1
  <2>4. Before(seqs, n) = Len(s) /\ Before(seqs, n + 1) = Len(u)
    BY <1>2
  <2> HIDE DEF s, t, u
  <2>5. /\ u \in Seq(S) /\ Len(s) \in Nat /\ Len(t) \in Nat
        /\ Len(u) = Len(s) + Len(t)
        /\ \A i \in 1 .. Len(s) + Len(t) : u[i] = IF i <= Len(s) THEN s[i] ELSE t[i - Len(s)]
    <3>1. /\ s \o t \in Seq(S) /\ Len(s \o t) = Len(s) + Len(t)
          /\ \A i \in 1 .. Len(s) + Len(t) :
               (s \o t)[i] = IF i <= Len(s) THEN s[i] ELSE t[i - Len(s)]
      BY <2>3, ConcatProperties, Zenon
    <3>2. Len(s) \in Nat /\ Len(t) \in Nat
      BY <2>3
    <3> QED BY <2>3, <3>1, <3>2
  <2>6. ASSUME NEW k \in 1 .. n + 1
        PROVE  /\ Before(seqs, k) = Before(seqs, k - 1) + Len(seqs[k])
               /\ Before(seqs, k) <= Before(seqs, n + 1)
               /\ \A m \in 1 .. Len(seqs[k]) : u[Before(seqs, k - 1) + m] = seqs[k][m]
    <3>1. CASE k = n + 1
      <4>1. k - 1 = n /\ seqs[k] = t
        BY <3>1 DEF t
      <4>2. \A m \in 1 .. Len(t) : u[Len(s) + m] = t[m]
        <5>1. \A m \in 1 .. Len(t) : Len(s) + m \in 1 .. Len(s) + Len(t) /\ ~(Len(s) + m <= Len(s))
                                       /\ Len(s) + m - Len(s) = m
          BY <2>5
        <5> QED BY <2>5, <5>1
      <4>3. Before(seqs, k) = Len(s) + Len(t) /\ Before(seqs, k - 1) = Len(s)
        BY <2>4, <2>5, <3>1, <4>1
      <4>4. Before(seqs, k) <= Before(seqs, n + 1)
        BY <2>5, <3>1, <4>3
      <4> QED BY <4>1, <4>2, <4>3, <4>4
    <3>2. CASE k # n + 1
      <4>1. k \in 1 .. n
        BY <3>2
      <4>2. /\ Before(seqs, k) = Before(seqs, k - 1) + Len(seqs[k])
            /\ Before(seqs, k) <= Before(seqs, n)
            /\ \A m \in 1 .. Len(seqs[k]) : s[Before(seqs, k - 1) + m] = seqs[k][m]
        BY <2>2, <4>1 DEF s
      <4>3. seqs[k] \in Seq(S) /\ Len(seqs[k]) \in Nat
        <5>1. k \in 1 .. N
          BY <1>1, <2>1, <4>1
        <5>2. seqs[k] \in Seq(S)
          BY <1>1, <5>1
        <5> QED BY <5>2
      <4>4. Before(seqs, k - 1) \in Nat
        <5>1. k - 1 \in Nat /\ k - 1 + 1 <= N
          BY <1>1, <2>1, <4>1
        <5>2. F(k - 1) \in Seq(S)
          BY <1>4, <5>1
        <5> QED BY <1>2, <5>2
      <4>5. ASSUME NEW m \in 1 .. Len(seqs[k])
            PROVE  u[Before(seqs, k - 1) + m] = s[Before(seqs, k - 1) + m]
        <5> DEFINE i == Before(seqs, k - 1) + m
        <5>1. i \in 1 .. Len(s)
          BY <2>4, <2>5, <4>2, <4>3, <4>4, SMTT(30)
        <5> HIDE DEF i
        <5>2. i \in 1 .. Len(s) + Len(t) /\ i <= Len(s)
          BY <2>5, <5>1
        <5>3. u[i] = s[i]
          BY <2>5, <5>2
        <5> QED BY <5>3 DEF i
      <4>6. Before(seqs, k) <= Before(seqs, n + 1)
        BY <2>4, <2>5, <4>2, <4>3, <4>4
      <4> QED BY <4>2, <4>5, <4>6
    <3> QED BY <3>1, <3>2
  <2> QED BY <2>5, <2>6 DEF u
<1> HIDE DEF T
<1>8. \A n \in Nat : n \in T
  BY <1>6, <1>7, SetInduction
<1>9. \A n \in 0 .. N : holds(n)
  <2>1. \A n \in 0 .. N : n \in Nat /\ n <= N
    BY <1>1
  <2> QED BY <1>8, <2>1 DEF T
<1>10. holds(N)
  BY <1>1, <1>9
<1>11. \A n \in 0 .. N : Before(seqs, n) \in Nat
  <2>1. \A n \in 0 .. N : F(n) \in Seq(S)
    BY <1>9
  <2>2. \A n \in 0 .. N : Len(F(n)) \in Nat
    BY <2>1
  <2> QED BY <1>2, <2>2
<1>12. Before(seqs, 0) = 0
  BY <1>2, <1>3
<1> QED BY <1>2, <1>5, <1>10, <1>11, <1>12 DEF N

LEMMA BeforeIncreases ==
  ASSUME NEW S, NEW seqs \in Seq(Seq(S)), NEW a \in 0 .. Len(seqs), NEW b \in a .. Len(seqs)
  PROVE  Before(seqs, a) <= Before(seqs, b)
<1> DEFINE N == Len(seqs)
           T == {n \in Nat : a + n <= N => Before(seqs, a) <= Before(seqs, a + n)}
<1>1. N \in Nat /\ \A k \in 1 .. N : Len(seqs[k]) \in Nat
  <2>1. \A k \in 1 .. N : seqs[k] \in Seq(S)
    BY ElementOf
  <2> QED BY <2>1
<1>2. /\ \A k \in 0 .. N : Before(seqs, k) \in Nat
      /\ \A k \in 1 .. N : Before(seqs, k) = Before(seqs, k - 1) + Len(seqs[k])
  BY FlattenPlaces
<1>3. a \in Nat /\ b \in Nat /\ a <= b /\ b <= N
  BY <1>1
<1> HIDE DEF N
<1>4. 0 \in T
  <2>1. Before(seqs, a) \in Nat /\ a + 0 = a
    BY <1>1, <1>2, <1>3
  <2> QED BY <2>1
<1>5. ASSUME NEW n \in Nat, n \in T PROVE n + 1 \in T
  <2>1. SUFFICES ASSUME a + (n + 1) <= N PROVE Before(seqs, a) <= Before(seqs, a + (n + 1))
    OBVIOUS
  <2> DEFINE l == a + (n + 1)
  <2>2. l \in 1 .. N /\ l - 1 = a + n /\ l - 1 \in 0 .. N /\ a + n <= N
    BY <1>1, <1>3, <2>1
  <2> HIDE DEF l
  <2>3. Before(seqs, a) <= Before(seqs, l - 1)
    BY <1>5, <2>2
  <2>4. Before(seqs, l) = Before(seqs, l - 1) + Len(seqs[l]) /\ Len(seqs[l]) \in Nat
    BY <1>1, <1>2, <2>2
  <2>5. Before(seqs, l - 1) \in Nat /\ Before(seqs, a) \in Nat
    BY <1>1, <1>2, <1>3, <2>2
  <2> QED BY <2>3, <2>4, <2>5 DEF l
<1> HIDE DEF T
<1>6. b - a \in Nat /\ a + (b - a) = b
  BY <1>3
<1>7. b - a \in T
  BY <1>4, <1>5, <1>6, SetInduction
<1> QED BY <1>3, <1>6, <1>7 DEF T
=============================================================================
