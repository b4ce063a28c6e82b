------------------------- MODULE SharedStoreProofs -------------------------
(***************************************************************************)
(* TLAPS proofs about SharedStore, for any writers, processes, objects and  *)
(* titles: what a duplicate title, a wrong uid or a missing table needs,    *)
(* and that SQLite reads from every literal what was written into it.       *)
(***************************************************************************)
EXTENDS SharedStore, Induction, SequenceTheorems

-----------------------------------------------------------------------------
(* A string comes back from SQLite as it went in, whatever quotes are in it:  *)
(* what prepare_string_for_db doubles, the reading of the literal halves.      *)

LEMMA CharAt ==
  ASSUME NEW str \in Seq(Chars), NEW i \in 1 .. Len(str)
  PROVE  str[i] \in Chars
  OBVIOUS

LEMMA QuoteFound ==
  ASSUME NEW str \in Seq(Chars), NEW from \in Nat, FindQuote(str, from) # 0
  PROVE  LET i == FindQuote(str, from) IN i \in 1 .. Len(str) /\ from <= i
<1> DEFINE found == {n \in from .. Len(str) : str[n] = Quote}
           i == FindQuote(str, from)
<1>1. found \subseteq Nat /\ Len(str) \in Nat
  OBVIOUS
<1>2. found # {}
  BY DEF FindQuote
<1>3. \E n \in found : \A k \in found : n <= k
  <2> HIDE DEF found
  <2> QED BY <1>1, <1>2, LeastNatural
<1>4. i \in found
  BY <1>2, <1>3 DEF FindQuote
<1>5. i \in from .. Len(str) /\ i # 0
  BY <1>4
<1> HIDE DEF i, found
<1> QED BY <1>1, <1>5 DEF i

\* The search stops at a quote.
LEMMA FindsHere ==
  ASSUME NEW str \in Seq(Chars), NEW i \in 1 .. Len(str), str[i] = Quote
  PROVE  FindQuote(str, i) = i
<1> DEFINE found == {n \in i .. Len(str) : str[n] = Quote}
<1>1. i \in found /\ \A n \in found : n \in Nat /\ i <= n
  OBVIOUS
<1> HIDE DEF found
<1>2. i \in Nat
  OBVIOUS
<1>3. \A n \in found : (\A k \in found : n <= k) => n = i
  BY <1>1, <1>2
<1>4. (CHOOSE n \in found : \A k \in found : n <= k) = i
  BY <1>1, <1>3
<1> QED BY <1>1, <1>4 DEF FindQuote, found

\* It passes any other character.
LEMMA FindsLater ==
  ASSUME NEW str \in Seq(Chars), NEW i \in 1 .. Len(str), str[i] # Quote
  PROVE  FindQuote(str, i) = FindQuote(str, i + 1)
<1>1. {n \in i .. Len(str) : str[n] = Quote} = {n \in i + 1 .. Len(str) : str[n] = Quote}
  OBVIOUS
<1> DEFINE here == {n \in i .. Len(str) : str[n] = Quote}
           there == {n \in i + 1 .. Len(str) : str[n] = Quote}
<1>2. FindQuote(str, i)
        = IF here = {} THEN 0 ELSE CHOOSE n \in here : \A k \in here : n <= k
  BY DEF FindQuote
<1>3. FindQuote(str, i + 1)
        = IF there = {} THEN 0 ELSE CHOOSE n \in there : \A k \in there : n <= k
  BY DEF FindQuote
<1>4. here = there
  BY <1>1
<1> HIDE DEF here, there
<1> QED BY <1>2, <1>3, <1>4

LEMMA FindsNone ==
  ASSUME NEW str \in Seq(Chars)
  PROVE  FindQuote(str, Len(str) + 1) = 0
<1>1. {n \in Len(str) + 1 .. Len(str) : str[n] = Quote} = {}
  OBVIOUS
<1> QED BY <1>1 DEF FindQuote

LEMMA Doubling ==
  ASSUME NEW str \in Seq(Chars), NEW i \in 1 .. Len(str)
  PROVE  LET new == DoubleAt(str, i)
         IN /\ new \in Seq(Chars)
            /\ Len(new) = Len(str) + 1
            /\ \A n \in 1 .. Len(str) + 1 :
                 new[n] = IF n <= i THEN str[n] ELSE IF n = i + 1 THEN Quote ELSE str[n - 1]
<1> DEFINE left == SubSeq(str, 1, i)
           right == SubSeq(str, i + 1, Len(str))
           middle == <<Quote>>
<1>1. /\ left \in Seq(Chars) /\ Len(left) = i /\ \A n \in 1 .. i : left[n] = str[n]
  OBVIOUS
<1>2. /\ right \in Seq(Chars) /\ Len(right) = Len(str) - i
      /\ \A n \in 1 .. Len(str) - i : right[n] = str[i + n]
  OBVIOUS
<1>3. middle \in Seq(Chars) /\ Len(middle) = 1 /\ middle[1] = Quote
  BY DEF Chars
<1>4. DoubleAt(str, i) = (left \o middle) \o right
  BY DEF DoubleAt
<1> HIDE DEF left, right, middle
<1> DEFINE begin == left \o middle
<1>5. /\ begin \in Seq(Chars) /\ Len(begin) = i + 1
      /\ \A n \in 1 .. i + 1 : begin[n] = IF n <= i THEN left[n] ELSE Quote
  <2>1. /\ begin \in Seq(Chars) /\ Len(begin) = Len(left) + Len(middle)
        /\ \A n \in 1 .. Len(left) + Len(middle) :
             begin[n] = IF n <= Len(left) THEN left[n] ELSE middle[n - Len(left)]
    BY <1>1, <1>3, ConcatProperties, Zenon
  <2> HIDE DEF begin
  <2>2. \A n \in 1 .. i + 1 : n <= i \/ n - i = 1
    OBVIOUS
  <2> QED BY <1>1, <1>3, <2>1, <2>2
<1> HIDE DEF begin
<1> DEFINE all == begin \o right
<1>6. /\ all \in Seq(Chars) /\ Len(all) = Len(str) + 1
      /\ \A n \in 1 .. Len(str) + 1 :
           all[n] = IF n <= i + 1 THEN begin[n] ELSE right[n - (i + 1)]
  <2>1. /\ all \in Seq(Chars) /\ Len(all) = Len(begin) + Len(right)
        /\ \A n \in 1 .. Len(begin) + Len(right) :
             all[n] = IF n <= Len(begin) THEN begin[n] ELSE right[n - Len(begin)]
    BY <1>2, <1>5, ConcatProperties, Zenon
  <2> HIDE DEF all
  <2>2. Len(begin) + Len(right) = Len(str) + 1
    BY <1>2, <1>5
  <2> QED BY <1>5, <2>1, <2>2
<1> HIDE DEF all
<1>7. ASSUME NEW n \in 1 .. Len(str) + 1
      PROVE  all[n]
               = IF n <= i THEN str[n] ELSE IF n = i + 1 THEN Quote ELSE str[n - 1]
  <2>1. CASE n <= i + 1
    BY <1>1, <1>5, <1>6, <2>1
  <2>2. CASE n > i + 1
    <3>1. n - (i + 1) \in 1 .. Len(str) - i /\ i + (n - (i + 1)) = n - 1
      BY <2>2
    <3>2. ~(n <= i) /\ n # i + 1 /\ all[n] = right[n - (i + 1)]
      BY <1>6, <2>2
    <3> QED BY <1>2, <3>1, <3>2
  <2> QED BY <2>1, <2>2
<1> QED BY <1>4, <1>6, <1>7 DEF begin, all

-----------------------------------------------------------------------------
(* The loop of prepare_string_for_db *)

States == Seq(Chars) \X Nat

IsLoop(loop) ==
  loop = [state \in Seq(Chars) \X Nat |->
            LET ret == state[1]  i == FindQuote(ret, state[2])
            IN IF i = 0 THEN ret ELSE loop[<<DoubleAt(ret, i), i + 2>>]]

LEMMA LoopExists == \E loop : IsLoop(loop)
<1> DEFINE at(x) == FindQuote(x[1], x[2])
           done == {x \in States : at(x) = 0}
           next == [x \in States |-> IF x \in done THEN x ELSE <<DoubleAt(x[1], at(x)), at(x) + 2>>]
           out == [x \in States |-> x[1]]
           measure == [x \in States |->
                         IF x[2] <= Len(x[1]) THEN Len(x[1]) + 2 - x[2] ELSE 1]
<1>1. ASSUME NEW x \in States, x \notin done
      PROVE  /\ at(x) \in 1 .. Len(x[1]) /\ x[2] <= at(x)
             /\ DoubleAt(x[1], at(x)) \in Seq(Chars)
             /\ Len(DoubleAt(x[1], at(x))) = Len(x[1]) + 1
  <2>1. x[1] \in Seq(Chars) /\ x[2] \in Nat /\ at(x) # 0
    BY <1>1 DEF States
  <2>2. at(x) \in 1 .. Len(x[1]) /\ x[2] <= at(x)
    BY <2>1, QuoteFound
  <2> QED BY <2>1, <2>2, Doubling
<1> HIDE DEF at
<1>2. next \in [States -> States]
  <2>1. ASSUME NEW x \in States, x \notin done
        PROVE  <<DoubleAt(x[1], at(x)), at(x) + 2>> \in States
    <3>1. at(x) + 2 \in Nat
      BY <1>1, <2>1 DEF States
    <3> QED BY <1>1, <2>1, <3>1 DEF States
  <2> HIDE DEF done
  <2> QED BY <2>1
<1>3. out \in [States -> Seq(Chars)]
  BY DEF States
<1>4. measure \in [States -> Nat]
  BY DEF States
<1>5. ASSUME NEW x \in States, x \notin done PROVE measure[next[x]] < measure[x]
  <2> DEFINE y == <<DoubleAt(x[1], at(x)), at(x) + 2>>
  <2>1. next[x] = y /\ next[x] \in States
    BY <1>2, <1>5
  <2>2. /\ Len(y[1]) = Len(x[1]) + 1 /\ y[2] = at(x) + 2
        /\ at(x) \in Nat /\ at(x) <= Len(x[1]) /\ x[2] <= at(x)
        /\ x[2] \in Nat /\ Len(x[1]) \in Nat
    BY <1>1, <1>5 DEF States
  <2> HIDE DEF y
  <2>3. measure[y] = IF y[2] <= Len(y[1]) THEN Len(y[1]) + 2 - y[2] ELSE 1
    BY <2>1
  <2>4. measure[x] = Len(x[1]) + 2 - x[2]
    BY <2>2
  <2> HIDE DEF measure, next
  <2> QED BY <2>1, <2>2, <2>3, <2>4
<1>6. \A x \in States : x \in done <=> at(x) = 0
  OBVIOUS
<1>7. \A x \in States : x \notin done => next[x] = <<DoubleAt(x[1], at(x)), at(x) + 2>>
  OBVIOUS
<1>8. \A x \in States : out[x] = x[1]
  OBVIOUS
<1> HIDE DEF done, next, out, measure
<1>9. PICK f : LoopsOn(f, States, Seq(Chars), next, done, out)
  BY <1>2, <1>3, <1>4, <1>5, TailRecursion
<1>10. \A x \in States :
         f[x] = IF FindQuote(x[1], x[2]) = 0 THEN x[1]
                ELSE f[<<DoubleAt(x[1], FindQuote(x[1], x[2])), FindQuote(x[1], x[2]) + 2>>]
  BY <1>6, <1>7, <1>8, <1>9 DEF at, LoopsOn
<1>11. IsLoop(f)
  BY <1>9, <1>10 DEF IsLoop, States, LoopsOn
<1> QED BY <1>11

Loop == CHOOSE loop : IsLoop(loop)

LEMMA PrepareIsLoop == \A str : PrepareStringForDb(str) = Loop[<<str, 1>>]
  BY Zenon DEF PrepareStringForDb, Loop, IsLoop

LEMMA LoopStep ==
  ASSUME NEW ret \in Seq(Chars), NEW from \in Nat
  PROVE  Loop[<<ret, from>>] =
           LET i == FindQuote(ret, from)
           IN IF i = 0 THEN ret ELSE Loop[<<DoubleAt(ret, i), i + 2>>]
<1>1. IsLoop(Loop)
  BY LoopExists DEF Loop
<1> HIDE DEF Loop
<1>2. <<ret, from>> \in Seq(Chars) \X Nat
  OBVIOUS
<1> QED BY <1>1, <1>2 DEF IsLoop

-----------------------------------------------------------------------------
(* The reading of a literal *)

Places(text) == (1 .. Len(text) + 1) \X Seq(Chars)
Plain(text, place) == place[1] <= Len(text) /\ text[place[1]] # Quote
Pair(text, place) ==
  place[1] < Len(text) /\ text[place[1]] = Quote /\ text[place[1] + 1] = Quote

IsReading(text, read) ==
  read = [state \in (1 .. Len(text) + 1) \X Seq(Chars) |->
            LET i == state[1]  value == state[2]
            IN IF i > Len(text) THEN Malformed
               ELSE IF text[i] # Quote THEN read[<<i + 1, Append(value, text[i])>>]
               ELSE IF i < Len(text) /\ text[i + 1] = Quote
                    THEN read[<<i + 2, Append(value, Quote)>>]
               ELSE IF i = Len(text) THEN value ELSE Malformed]

LEMMA ReadingExists == ASSUME NEW text \in Seq(Chars) PROVE \E read : IsReading(text, read)
<1> DEFINE X == Places(text)
           done == {x \in X : ~Plain(text, x) /\ ~Pair(text, x)}
           next == [x \in X |->
                      IF Plain(text, x) THEN <<x[1] + 1, Append(x[2], text[x[1]])>>
                      ELSE IF Pair(text, x) THEN <<x[1] + 2, Append(x[2], Quote)>> ELSE x]
           out == [x \in X |-> IF x[1] = Len(text) THEN x[2] ELSE Malformed]
           measure == [x \in X |-> Len(text) + 1 - x[1]]
           R == Seq(Chars) \cup {Malformed}
<1>0. Len(text) \in Nat /\ Quote \in Chars
  BY DEF Chars
<1>1. ASSUME NEW x \in X
      PROVE  x[1] \in 1 .. Len(text) + 1 /\ x[2] \in Seq(Chars)
  BY DEF Places
<1>2. ASSUME NEW x \in X, Plain(text, x)
      PROVE  <<x[1] + 1, Append(x[2], text[x[1]])>> \in X
  <2>1. x[1] \in 1 .. Len(text) /\ text[x[1]] \in Chars
    BY <1>0, <1>1, <1>2, CharAt DEF Plain
  <2>2. Append(x[2], text[x[1]]) \in Seq(Chars) /\ x[1] + 1 \in 1 .. Len(text) + 1
    BY <1>0, <1>1, <2>1
  <2> QED BY <2>2 DEF Places
<1>3. ASSUME NEW x \in X, Pair(text, x)
      PROVE  <<x[1] + 2, Append(x[2], Quote)>> \in X
  <2>1. Append(x[2], Quote) \in Seq(Chars) /\ x[1] + 2 \in 1 .. Len(text) + 1
    BY <1>0, <1>1, <1>3 DEF Pair
  <2> QED BY <2>1 DEF Places
<1>4. next \in [X -> X]
  BY <1>2, <1>3
<1>5. out \in [X -> R]
  BY <1>1
<1>6. measure \in [X -> Nat]
  BY <1>0, <1>1
<1>7. ASSUME NEW x \in X, x \notin done PROVE measure[next[x]] < measure[x]
  <2>1. next[x] \in X /\ (next[x][1] = x[1] + 1 \/ next[x][1] = x[1] + 2)
    BY <1>4, <1>7
  <2>2. measure[next[x]] = Len(text) + 1 - next[x][1] /\ measure[x] = Len(text) + 1 - x[1]
    BY <2>1
  <2> HIDE DEF measure, next
  <2> QED BY <1>0, <1>1, <2>1, <2>2
<1>8. ASSUME NEW x \in X
      PROVE  /\ x \in done <=> ~Plain(text, x) /\ ~Pair(text, x)
             /\ Plain(text, x) => next[x] = <<x[1] + 1, Append(x[2], text[x[1]])>>
             /\ ~Plain(text, x) /\ Pair(text, x) => next[x] = <<x[1] + 2, Append(x[2], Quote)>>
             /\ out[x] = IF x[1] = Len(text) THEN x[2] ELSE Malformed
  OBVIOUS
<1> HIDE DEF done, next, out, measure, R, X
<1>9. PICK f : LoopsOn(f, X, R, next, done, out)
  BY <1>4, <1>5, <1>6, <1>7, TailRecursion
<1>10. ASSUME NEW x \in X
       PROVE  f[x] = IF x[1] > Len(text) THEN Malformed
                     ELSE IF text[x[1]] # Quote THEN f[<<x[1] + 1, Append(x[2], text[x[1]])>>]
                     ELSE IF x[1] < Len(text) /\ text[x[1] + 1] = Quote
                          THEN f[<<x[1] + 2, Append(x[2], Quote)>>]
                     ELSE IF x[1] = Len(text) THEN x[2] ELSE Malformed
  <2>1. f[x] = IF x \in done THEN out[x] ELSE f[next[x]]
    BY <1>9 DEF LoopsOn
  <2>2. x[1] \in Nat
    BY <1>1
  <2>3. CASE Plain(text, x)
    <3>1. f[x] = f[<<x[1] + 1, Append(x[2], text[x[1]])>>]
      BY <1>8, <2>1, <2>3
    <3>2. ~(x[1] > Len(text)) /\ text[x[1]] # Quote
      BY <1>0, <2>2, <2>3 DEF Plain
    <3> QED BY <3>1, <3>2
  <2>4. CASE ~Plain(text, x) /\ Pair(text, x)
    <3>1. f[x] = f[<<x[1] + 2, Append(x[2], Quote)>>]
      BY <1>8, <2>1, <2>4
    <3>2. ~(x[1] > Len(text)) /\ text[x[1]] = Quote /\ x[1] < Len(text) /\ text[x[1] + 1] = Quote
      BY <1>0, <2>2, <2>4 DEF Pair
    <3> QED BY <3>1, <3>2
  <2>5. CASE ~Plain(text, x) /\ ~Pair(text, x)
    BY <1>0, <1>8, <2>1, <2>2, <2>5 DEF Plain, Pair
  <2> QED BY <2>3, <2>4, <2>5
<1>11. IsReading(text, f)
  BY <1>9, <1>10 DEF IsReading, X, Places, LoopsOn
<1> QED BY <1>11

Reading(text) == CHOOSE read : IsReading(text, read)

LEMMA ReadIsReading ==
  ASSUME NEW text, text # <<>>, text[1] = Quote
  PROVE  ReadLiteral(text) = Reading(text)[<<2, <<>>>>]
  BY Zenon DEF ReadLiteral, Reading, IsReading

LEMMA ReadStep ==
  ASSUME NEW text \in Seq(Chars), NEW i \in 1 .. Len(text), NEW value \in Seq(Chars)
  PROVE  /\ text[i] # Quote =>
              Reading(text)[<<i, value>>] = Reading(text)[<<i + 1, Append(value, text[i])>>]
         /\ text[i] = Quote /\ i < Len(text) /\ text[i + 1] = Quote =>
              Reading(text)[<<i, value>>] = Reading(text)[<<i + 2, Append(value, Quote)>>]
         /\ text[i] = Quote /\ i = Len(text) => Reading(text)[<<i, value>>] = value
<1>1. IsReading(text, Reading(text))
  BY ReadingExists DEF Reading
<1> HIDE DEF Reading
<1>2. <<i, value>> \in (1 .. Len(text) + 1) \X Seq(Chars) /\ ~(i > Len(text)) /\ ~(Len(text) < Len(text))
  OBVIOUS
<1> QED BY <1>1, <1>2 DEF IsReading

-----------------------------------------------------------------------------
(* Where each character goes *)

\* The place of the last of the characters that stand for str[n].
Positions(pos, str) ==
  /\ pos \in [0 .. Len(str) -> Nat]
  /\ \A n \in 0 .. Len(str) :
       pos[n] = IF n = 0 THEN 0 ELSE pos[n - 1] + (IF str[n] = Quote THEN 2 ELSE 1)

LEMMA PositionsExist == ASSUME NEW str \in Seq(Chars) PROVE \E pos : Positions(pos, str)
<1> DEFINE round == [pair \in Nat \X Nat |-> pair[2] + (IF str[pair[1]] = Quote THEN 2 ELSE 1)]
           N == Len(str)
<1>1. N \in Nat /\ round \in [Nat \X Nat -> Nat]
  OBVIOUS
<1>2. \A n, p \in Nat : round[<<n, p>>] = p + (IF str[n] = Quote THEN 2 ELSE 1)
  OBVIOUS
<1> HIDE DEF round, N
<1>3. PICK f : Rounds(f, N, Nat, 0, round)
  BY <1>1, Iteration
<1>4. ASSUME NEW n \in 0 .. N, n # 0
      PROVE  f[n] = f[n - 1] + (IF str[n] = Quote THEN 2 ELSE 1)
  <2>1. n \in Nat /\ n - 1 \in 0 .. N
    BY <1>1, <1>4
  <2>2. f[n] = round[<<n, f[n - 1]>>] /\ f[n - 1] \in Nat
    BY <1>3, <1>4, <2>1 DEF Rounds
  <2> QED BY <1>2, <2>1, <2>2
<1>5. Positions(f, str)
  BY <1>3, <1>4 DEF Rounds, Positions, N
<1> QED BY <1>5

LEMMA PositionsStep ==
  ASSUME NEW str \in Seq(Chars), NEW pos, Positions(pos, str), NEW n \in 0 .. Len(str) - 1
  PROVE  /\ n + 1 \in 1 .. Len(str) /\ pos[n] \in Nat /\ pos[n + 1] \in Nat
         /\ pos[n + 1] = pos[n] + (IF str[n + 1] = Quote THEN 2 ELSE 1)
<1>1. n + 1 \in 1 .. Len(str) /\ n + 1 \in 0 .. Len(str) /\ n + 1 # 0 /\ n + 1 - 1 = n
  OBVIOUS
<1> QED BY <1>1 DEF Positions

LEMMA PositionsGrow ==
  ASSUME NEW str \in Seq(Chars), NEW pos, Positions(pos, str)
  PROVE  \A j, k \in 0 .. Len(str) : j <= k => pos[j] <= pos[k]
<1> DEFINE S == {k \in Nat : k <= Len(str) => \A j \in 0 .. k : pos[j] <= pos[k]}
<1>1. 0 \in S
  BY DEF Positions
<1>2. ASSUME NEW k \in Nat, k \in S PROVE k + 1 \in S
  <2>1. SUFFICES ASSUME k + 1 <= Len(str), NEW j \in 0 .. k + 1 PROVE pos[j] <= pos[k + 1]
    OBVIOUS
  <2>2. k \in 0 .. Len(str) - 1 /\ k <= Len(str)
    BY <2>1
  <2>3. pos[k] \in Nat /\ pos[k + 1] \in Nat /\ pos[k] <= pos[k + 1]
    BY <2>2, PositionsStep
  <2>4. CASE j = k + 1
    BY <2>3, <2>4
  <2>5. CASE j # k + 1
    <3>1. j \in 0 .. k /\ j \in 0 .. Len(str)
      BY <2>1, <2>5
    <3>2. pos[j] <= pos[k] /\ pos[j] \in Nat
      BY <1>2, <2>2, <3>1 DEF Positions
    <3> QED BY <2>3, <3>2
  <2> QED BY <2>4, <2>5
<1> HIDE DEF S
<1>3. \A k \in Nat : k \in S
  BY <1>1, <1>2, SetInduction
<1> QED
  <2>1. ASSUME NEW j \in 0 .. Len(str), NEW k \in 0 .. Len(str), j <= k PROVE pos[j] <= pos[k]
    <3>1. k \in Nat /\ k \in S /\ k <= Len(str) /\ j \in 0 .. k
      BY <1>3, <2>1
    <3> QED BY <3>1 DEF S
  <2> QED BY <2>1

\* ret is str with the quotes of its first k characters doubled.
Doubled(ret, k, str, pos) ==
  /\ ret \in Seq(Chars)
  /\ Len(ret) = pos[k] + Len(str) - k
  /\ \A j \in 1 .. k : ret[pos[j]] = str[j] /\ (str[j] = Quote => ret[pos[j] - 1] = Quote)
  /\ \A j \in k + 1 .. Len(str) : ret[pos[k] + j - k] = str[j]

LEMMA PlaceOf ==
  ASSUME NEW str \in Seq(Chars), NEW pos, Positions(pos, str), NEW k \in 0 .. Len(str),
         NEW j \in 1 .. k
  PROVE  /\ pos[j] \in 1 .. pos[k] /\ pos[k] \in Nat
         /\ str[j] = Quote => pos[j] - 1 \in 1 .. pos[k]
<1>1. j - 1 \in 0 .. Len(str) - 1 /\ j \in 0 .. Len(str) /\ j - 1 + 1 = j /\ j <= k
  OBVIOUS
<1>2. pos[j - 1] \in Nat /\ pos[j] = pos[j - 1] + (IF str[j] = Quote THEN 2 ELSE 1)
  BY <1>1, PositionsStep
<1>3. pos[j] <= pos[k] /\ pos[k] \in Nat
  BY <1>1, PositionsGrow DEF Positions
<1> QED BY <1>2, <1>3

LEMMA Shifted ==
  ASSUME NEW p \in Nat, NEW n \in Nat, NEW k \in Nat
  PROVE  p + 1 + n - (k + 1) = p + n - k /\ p + 1 + 1 + n - (k + 1) = p + n - k + 1
  OBVIOUS

LEMMA Behind ==
  ASSUME NEW p \in Nat, NEW n \in Nat, NEW k \in Nat, NEW j \in k + 2 .. n
  PROVE  LET m == p + 1 + 1 + j - (k + 1)
         IN m \in 1 .. p + n - k + 1 /\ ~(m <= p + 1) /\ m # p + 1 + 1 /\ m - 1 = p + j - k
  OBVIOUS

\* The loop gets from one character to the next.
LEMMA DoubledStep ==
  ASSUME NEW str \in Seq(Chars), NEW pos, Positions(pos, str), NEW k \in 0 .. Len(str) - 1,
         NEW ret, Doubled(ret, k, str, pos)
  PROVE  \E new : /\ Doubled(new, k + 1, str, pos)
                  /\ Loop[<<ret, pos[k] + 1>>] = Loop[<<new, pos[k + 1] + 1>>]
<1> DEFINE i == pos[k] + 1
<1>1. /\ k + 1 \in 1 .. Len(str) /\ pos[k] \in Nat /\ pos[k + 1] \in Nat
      /\ pos[k + 1] = pos[k] + (IF str[k + 1] = Quote THEN 2 ELSE 1)
  BY PositionsStep
<1>2. /\ ret \in Seq(Chars) /\ Len(ret) = pos[k] + Len(str) - k
      /\ \A j \in 1 .. k : ret[pos[j]] = str[j] /\ (str[j] = Quote => ret[pos[j] - 1] = Quote)
      /\ \A j \in k + 1 .. Len(str) : ret[pos[k] + j - k] = str[j]
  BY DEF Doubled
<1>3. i \in 1 .. Len(ret) /\ i \in Nat /\ i + 1 \in Nat /\ Len(str) \in Nat
  <2>1. /\ pos[k] \in Nat /\ Len(str) \in Nat /\ k \in Nat /\ k < Len(str)
        /\ Len(ret) \in Nat /\ Len(ret) = pos[k] + Len(str) - k
    BY <1>1, <1>2
  <2>2. pos[k] + 1 <= Len(ret)
    BY <2>1
  <2> QED BY <2>1, <2>2
<1>4. k \in Nat /\ Len(ret) \in Nat /\ Len(ret) = pos[k] + Len(str) - k
  BY <1>1, <1>2
<1>5. pos[k] \in Nat /\ Len(str) \in Nat
  BY <1>1, <1>3
<1>6. ret[i] = str[k + 1]
  <2>1. k + 1 \in k + 1 .. Len(str) /\ pos[k] + (k + 1) - k = i
    BY <1>1
  <2> QED BY <1>2, <2>1
<1>7. ASSUME NEW j \in 1 .. k
      PROVE  pos[j] \in 1 .. pos[k] /\ (str[j] = Quote => pos[j] - 1 \in 1 .. pos[k])
  <2>1. k \in 0 .. Len(str)
    OBVIOUS
  <2> QED BY <2>1, PlaceOf
<1>8. \A j \in 1 .. k + 1 : j \in 1 .. k \/ j = k + 1
  BY <1>3
<1>9. CASE str[k + 1] # Quote
  <2>1. FindQuote(ret, i) = FindQuote(ret, i + 1)
    BY <1>2, <1>3, <1>6, <1>9, FindsLater
  <2>2. Loop[<<ret, i>>] = Loop[<<ret, i + 1>>]
    <3> DEFINE q == FindQuote(ret, i)
    <3>1. Loop[<<ret, i>>] = IF q = 0 THEN ret ELSE Loop[<<DoubleAt(ret, q), q + 2>>]
      BY <1>2, <1>3, LoopStep
    <3>2. Loop[<<ret, i + 1>>] = IF q = 0 THEN ret ELSE Loop[<<DoubleAt(ret, q), q + 2>>]
      BY <1>2, <1>3, <2>1, LoopStep
    <3> QED BY <3>1, <3>2
  <2>3. pos[k + 1] = i
    BY <1>1, <1>9
  <2>4. ASSUME NEW j \in k + 2 .. Len(str) PROVE ret[i + j - (k + 1)] = str[j]
    <3>1. j \in Nat /\ j \in k + 1 .. Len(str)
      BY <1>4, <1>5
    <3>2. pos[k] + 1 + j - (k + 1) = pos[k] + j - k
      BY <1>4, <1>5, <3>1, Shifted
    <3> QED BY <1>2, <3>1, <3>2
  <2>5. ASSUME NEW j \in 1 .. k + 1
        PROVE  ret[pos[j]] = str[j] /\ (str[j] = Quote => ret[pos[j] - 1] = Quote)
    BY <1>2, <1>6, <1>8, <1>9, <2>3
  <2>6. Len(ret) = i + Len(str) - (k + 1)
    <3>1. pos[k] + 1 + Len(str) - (k + 1) = pos[k] + Len(str) - k
      BY <1>4, <1>5, Shifted
    <3> QED BY <1>4, <3>1
  <2>7. k + 1 + 1 = k + 2
    OBVIOUS
  <2> HIDE DEF i
  <2>8. Doubled(ret, k + 1, str, pos)
    BY <1>2, <2>3, <2>4, <2>5, <2>6, <2>7 DEF Doubled
  <2> QED BY <2>2, <2>3, <2>8 DEF i
<1>10. CASE str[k + 1] = Quote
  <2> DEFINE new == DoubleAt(ret, i)
  <2>1. Loop[<<ret, i>>] = Loop[<<new, i + 2>>]
    <3>1. FindQuote(ret, i) = i /\ i # 0
      BY <1>2, <1>3, <1>6, <1>10, FindsHere
    <3> QED BY <1>2, <1>3, <3>1, LoopStep
  <2>2. pos[k + 1] = i + 1 /\ i + 1 + 1 = i + 2
    BY <1>1, <1>10
  <2>3. /\ new \in Seq(Chars) /\ Len(new) = Len(ret) + 1
        /\ \A n \in 1 .. Len(ret) + 1 :
             new[n] = IF n <= i THEN ret[n] ELSE IF n = i + 1 THEN Quote ELSE ret[n - 1]
    BY <1>2, <1>3, Doubling
  <2> HIDE DEF new
  <2>4. Len(ret) \in Nat /\ \A n \in 1 .. pos[k] : n \in 1 .. Len(ret) + 1 /\ n <= i
    <3>1. i \in Nat /\ i <= Len(ret) /\ Len(ret) \in Nat /\ pos[k] \in Nat
      BY <1>3, <1>4, <1>5
    <3> QED BY <3>1
  <2>5. ASSUME NEW j \in 1 .. k
        PROVE  new[pos[j]] = str[j] /\ (str[j] = Quote => new[pos[j] - 1] = Quote)
    <3>1. new[pos[j]] = ret[pos[j]]
      BY <1>7, <2>3, <2>4
    <3>2. str[j] = Quote => new[pos[j] - 1] = ret[pos[j] - 1]
      BY <1>7, <2>3, <2>4
    <3> QED BY <1>2, <3>1, <3>2
  <2>6. new[i + 1] = Quote /\ new[i] = Quote
    <3>1. i \in 1 .. Len(ret) + 1 /\ i + 1 \in 1 .. Len(ret) + 1 /\ ~(i + 1 <= i)
      BY <1>3, <2>4
    <3> QED BY <1>3, <1>6, <1>10, <2>3, <3>1
  <2>7. ASSUME NEW j \in 1 .. k + 1
        PROVE  new[pos[j]] = str[j] /\ (str[j] = Quote => new[pos[j] - 1] = Quote)
    <3>1. CASE j \in 1 .. k
      BY <2>5, <3>1
    <3>2. CASE j = k + 1
      <4>1. pos[j] = i + 1 /\ pos[j] - 1 = i
        BY <1>3, <2>2, <3>2
      <4> QED BY <1>10, <2>6, <3>2, <4>1
    <3> QED BY <1>8, <3>1, <3>2
  <2>8. ASSUME NEW j \in k + 2 .. Len(str) PROVE new[i + 1 + j - (k + 1)] = str[j]
    <3> DEFINE n == i + 1 + j - (k + 1)
    <3>1. n \in 1 .. Len(ret) + 1 /\ ~(n <= i) /\ n # i + 1 /\ n - 1 = pos[k] + j - k
      <4>1. /\ n \in 1 .. pos[k] + Len(str) - k + 1
            /\ ~(n <= i) /\ n # i + 1 /\ n - 1 = pos[k] + j - k
        <5> DEFINE p == pos[k]
                   N == Len(str)
        <5>1. p \in Nat /\ N \in Nat /\ k \in Nat /\ j \in k + 2 .. N
          BY <1>4, <1>5
        <5> HIDE DEF p, N
        <5>2. LET m == p + 1 + 1 + j - (k + 1)
              IN m \in 1 .. p + N - k + 1 /\ ~(m <= p + 1) /\ m # p + 1 + 1 /\ m - 1 = p + j - k
          BY <5>1, Behind
        <5> QED BY <5>2 DEF p, N
      <4> HIDE DEF n
      <4> QED BY <1>4, <4>1
    <3>2. new[n] = ret[pos[k] + j - k]
      BY <2>3, <3>1
    <3>3. j \in k + 1 .. Len(str)
      OBVIOUS
    <3> QED BY <1>2, <3>2, <3>3
  <2>9. Len(new) = i + 1 + Len(str) - (k + 1)
    <3>1. Len(new) = Len(ret) + 1
      BY <2>3
    <3>2. i + 1 + Len(str) - (k + 1) = Len(ret) + 1
      <4>1. pos[k] + 1 + 1 + Len(str) - (k + 1) = pos[k] + Len(str) - k + 1
        BY <1>4, <1>5, Shifted
      <4> QED BY <1>4, <4>1
    <3> QED BY <3>1, <3>2
  <2>10. k + 1 + 1 = k + 2
    OBVIOUS
  <2> HIDE DEF i
  <2>11. Doubled(new, k + 1, str, pos)
    BY <2>2, <2>3, <2>7, <2>8, <2>9, <2>10 DEF Doubled
  <2> QED BY <2>1, <2>2, <2>11 DEF i
<1> QED BY <1>9, <1>10

\* prepare_string_for_db doubles every quote of a string, and nothing else.
THEOREM PrepareDoubles ==
  ASSUME NEW str \in Seq(Chars), NEW pos, Positions(pos, str)
  PROVE  Doubled(PrepareStringForDb(str), Len(str), str, pos)
<1> DEFINE To(k) == \E ret : /\ Doubled(ret, k, str, pos)
                             /\ Loop[<<str, 1>>] = Loop[<<ret, pos[k] + 1>>]
           S == {k \in Nat : k <= Len(str) => To(k)}
<1>1. 0 \in S
  <2>1. pos[0] = 0 /\ pos[0] + 1 = 1 /\ Len(str) \in Nat
    BY DEF Positions
  <2>2. \A j \in 1 .. Len(str) : 0 + j - 0 = j
    OBVIOUS
  <2>3. Doubled(str, 0, str, pos)
    BY <2>1, <2>2 DEF Doubled
  <2> QED BY <2>1, <2>3
<1>2. ASSUME NEW k \in Nat, k \in S PROVE k + 1 \in S
  <2> HIDE DEF To
  <2>1. SUFFICES ASSUME k + 1 <= Len(str) PROVE To(k + 1)
    OBVIOUS
  <2>2. k \in 0 .. Len(str) - 1 /\ To(k)
    BY <1>2, <2>1
  <2>3. PICK ret : /\ Doubled(ret, k, str, pos)
                   /\ Loop[<<str, 1>>] = Loop[<<ret, pos[k] + 1>>]
    BY <2>2 DEF To
  <2> QED BY <2>2, <2>3, DoubledStep DEF To
<1> HIDE DEF S
<1>3. Len(str) \in Nat /\ Len(str) \in S
  BY <1>1, <1>2, SetInduction
<1>4. PICK ret : /\ Doubled(ret, Len(str), str, pos)
                 /\ Loop[<<str, 1>>] = Loop[<<ret, pos[Len(str)] + 1>>]
  <2> HIDE DEF To
  <2>1. To(Len(str))
    BY <1>3 DEF S
  <2> QED BY <2>1 DEF To
<1>5. ret \in Seq(Chars) /\ Len(ret) = pos[Len(str)] /\ Len(ret) + 1 \in Nat
  <2>1. pos[Len(str)] \in Nat
    BY <1>3 DEF Positions
  <2> QED BY <1>3, <1>4, <2>1 DEF Doubled
<1>6. Loop[<<ret, Len(ret) + 1>>] = ret
  BY <1>5, FindsNone, LoopStep
<1>7. PrepareStringForDb(str) = ret
  BY <1>4, <1>5, <1>6, PrepareIsLoop
<1> QED BY <1>4, <1>7

-----------------------------------------------------------------------------
(* Out again *)

\* text is ret between two quotes.
Quotes(text, ret) ==
  /\ text \in Seq(Chars) /\ text # <<>>
  /\ Len(text) = Len(ret) + 2
  /\ text[1] = Quote /\ text[Len(ret) + 2] = Quote
  /\ \A j \in 1 .. Len(ret) : text[j + 1] = ret[j]

LEMMA Quoted ==
  ASSUME NEW ret \in Seq(Chars)
  PROVE  Quotes(<<Quote>> \o ret \o <<Quote>>, ret)
<1> DEFINE quote == <<Quote>>
           begin == quote \o ret
           text == begin \o quote
<1>1. quote \in Seq(Chars) /\ Len(quote) = 1 /\ quote[1] = Quote /\ Len(ret) \in Nat
  BY DEF Chars
<1> HIDE DEF quote
<1>2. /\ begin \in Seq(Chars) /\ Len(begin) = Len(quote) + Len(ret)
      /\ \A n \in 1 .. Len(quote) + Len(ret) :
           begin[n] = IF n <= Len(quote) THEN quote[n] ELSE ret[n - Len(quote)]
  BY <1>1, ConcatProperties, Zenon
<1> HIDE DEF begin
<1>3. /\ text \in Seq(Chars) /\ Len(text) = Len(begin) + Len(quote)
      /\ \A n \in 1 .. Len(begin) + Len(quote) :
           text[n] = IF n <= Len(begin) THEN begin[n] ELSE quote[n - Len(begin)]
  <2>1. begin \in Seq(Chars) /\ quote \in Seq(Chars)
    BY <1>1, <1>2
  <2> QED BY <2>1, ConcatProperties, Zenon
<1> HIDE DEF text
<1>4. Len(begin) = Len(ret) + 1 /\ Len(text) = Len(ret) + 2
  BY <1>1, <1>2, <1>3
<1>5. text[1] = Quote
  <2>1. 1 \in 1 .. Len(begin) + Len(quote) /\ 1 \in 1 .. Len(quote) + Len(ret)
        /\ 1 <= Len(begin) /\ 1 <= Len(quote)
    BY <1>1, <1>4
  <2> QED BY <1>1, <1>2, <1>3, <2>1
<1>6. text[Len(ret) + 2] = Quote
  <2> DEFINE n == Len(ret) + 2
  <2>1. n \in 1 .. Len(begin) + Len(quote) /\ ~(n <= Len(begin)) /\ n - Len(begin) = 1
    BY <1>1, <1>4
  <2> QED BY <1>1, <1>3, <2>1
<1>7. ASSUME NEW j \in 1 .. Len(ret) PROVE text[j + 1] = ret[j]
  <2> DEFINE n == j + 1
  <2>1. /\ n \in 1 .. Len(begin) + Len(quote) /\ n <= Len(begin)
        /\ n \in 1 .. Len(quote) + Len(ret) /\ ~(n <= Len(quote)) /\ n - Len(quote) = j
    BY <1>1, <1>4
  <2> HIDE DEF n
  <2>2. text[n] = ret[j]
    BY <1>2, <1>3, <2>1
  <2> QED BY <2>2 DEF n
<1>8. text # <<>>
  BY <1>1, <1>3, <1>4
<1> QED BY <1>3, <1>4, <1>5, <1>6, <1>7, <1>8 DEF text, begin, quote, Quotes

LEMMA Longer ==
  ASSUME NEW str \in Seq(Chars), NEW k \in 0 .. Len(str) - 1
  PROVE  /\ SubSeq(str, 1, k) \in Seq(Chars)
         /\ Append(SubSeq(str, 1, k), str[k + 1]) = SubSeq(str, 1, k + 1)
  OBVIOUS

LEMMA Whole == ASSUME NEW str \in Seq(Chars) PROVE SubSeq(str, 1, Len(str)) = str
  OBVIOUS

\* The reading gets from one character of the string to the next.
LEMMA ReadsOne ==
  ASSUME NEW str \in Seq(Chars), NEW pos, Positions(pos, str),
         NEW ret, Doubled(ret, Len(str), str, pos),
         NEW text, Quotes(text, ret),
         NEW k \in 0 .. Len(str) - 1
  PROVE  Reading(text)[<<pos[k] + 2, SubSeq(str, 1, k)>>]
           = Reading(text)[<<pos[k + 1] + 2, SubSeq(str, 1, k + 1)>>]
<1> DEFINE i == pos[k] + 2
           value == SubSeq(str, 1, k)
<1>1. /\ text \in Seq(Chars) /\ Len(text) = Len(ret) + 2
      /\ \A j \in 1 .. Len(ret) : text[j + 1] = ret[j]
  BY DEF Quotes
<1>2. /\ k + 1 \in 1 .. Len(str) /\ pos[k] \in Nat /\ pos[k + 1] \in Nat
      /\ pos[k + 1] = pos[k] + (IF str[k + 1] = Quote THEN 2 ELSE 1)
  BY PositionsStep
<1>3. Len(str) \in Nat /\ Len(str) \in 0 .. Len(str) /\ k + 1 \in 1 .. Len(str)
  OBVIOUS
<1>4. /\ pos[k + 1] \in 1 .. pos[Len(str)] /\ pos[Len(str)] \in Nat
      /\ str[k + 1] = Quote => pos[k + 1] - 1 \in 1 .. pos[Len(str)]
  BY <1>3, PlaceOf
<1>5. ret \in Seq(Chars) /\ Len(ret) = pos[Len(str)]
  <2>1. pos[Len(str)] + Len(str) - Len(str) = pos[Len(str)]
    BY <1>3, <1>4
  <2> QED BY <2>1 DEF Doubled
<1>6. ret[pos[k + 1]] = str[k + 1] /\ (str[k + 1] = Quote => ret[pos[k + 1] - 1] = Quote)
  BY <1>3 DEF Doubled
<1>7. /\ text[pos[k + 1] + 1] = str[k + 1]
      /\ str[k + 1] = Quote => text[pos[k + 1]] = Quote
  <2>1. text[pos[k + 1] + 1] = ret[pos[k + 1]]
    BY <1>1, <1>4, <1>5
  <2>2. str[k + 1] = Quote => text[pos[k + 1] - 1 + 1] = ret[pos[k + 1] - 1]
    BY <1>1, <1>4, <1>5
  <2>3. pos[k + 1] - 1 + 1 = pos[k + 1]
    BY <1>2
  <2> QED BY <1>6, <2>1, <2>2, <2>3
<1>8. value \in Seq(Chars) /\ Append(value, str[k + 1]) = SubSeq(str, 1, k + 1)
  BY Longer
<1> HIDE DEF value
<1>9. i \in 1 .. Len(text) /\ i < Len(text)
  <2>1. pos[k] < pos[k + 1] /\ pos[k + 1] <= pos[Len(str)]
    BY <1>2, <1>4
  <2>2. Len(text) = pos[Len(str)] + 2
    BY <1>1, <1>5
  <2> QED BY <1>2, <1>4, <2>1, <2>2
<1>10. CASE str[k + 1] # Quote
  <2>1. pos[k + 1] + 1 = i /\ i + 1 = pos[k + 1] + 2
    BY <1>2, <1>10
  <2>2. text[i] = str[k + 1]
    BY <1>7, <2>1
  <2>3. Reading(text)[<<i, value>>] = Reading(text)[<<i + 1, Append(value, text[i])>>]
    <3>1. text \in Seq(Chars) /\ text[i] # Quote
      BY <1>1, <1>10, <2>2
    <3> HIDE DEF i
    <3> QED BY <1>8, <1>9, <3>1, ReadStep
  <2> QED BY <1>8, <2>1, <2>2, <2>3 DEF value
<1>11. CASE str[k + 1] = Quote
  <2>1. pos[k + 1] = i /\ pos[k + 1] + 1 = i + 1 /\ i + 2 = pos[k + 1] + 2
    BY <1>2, <1>11
  <2>2. text[i] = Quote /\ text[i + 1] = Quote
    BY <1>7, <1>11, <2>1
  <2>3. Reading(text)[<<i, value>>] = Reading(text)[<<i + 2, Append(value, Quote)>>]
    BY <1>1, <1>8, <1>9, <2>2, ReadStep
  <2> QED BY <1>8, <1>11, <2>1, <2>3 DEF value
<1> QED BY <1>10, <1>11

\* A string comes back from SQLite as it is, whatever quotes it has.
THEOREM SqlReturns == ASSUME NEW str \in Seq(Chars) PROVE Sql(str) = str
<1>1. PICK pos : Positions(pos, str)
  BY PositionsExist
<1> DEFINE ret == PrepareStringForDb(str)
           text == <<Quote>> \o ret \o <<Quote>>
           N == Len(str)
<1>2. Doubled(ret, N, str, pos)
  BY <1>1, PrepareDoubles
<1> HIDE DEF ret
<1>3. ret \in Seq(Chars) /\ N \in Nat
  BY <1>2 DEF Doubled
<1>4. Quotes(text, ret)
  BY <1>3, Quoted
<1>5. Sql(str) = ReadLiteral(text)
  BY DEF Sql, Literal, ret
<1> HIDE DEF text
<1> DEFINE After(k) == Reading(text)[<<pos[k] + 2, SubSeq(str, 1, k)>>]
           S == {k \in Nat : k <= N => Reading(text)[<<2, <<>>>>] = After(k)}
<1>6. 0 \in S
  <2>1. pos[0] + 2 = 2 /\ SubSeq(str, 1, 0) = <<>>
    BY <1>1 DEF Positions
  <2> QED BY <2>1
<1>7. ASSUME NEW k \in Nat, k \in S PROVE k + 1 \in S
  <2>1. ASSUME k + 1 <= N PROVE k <= N /\ After(k) = After(k + 1)
    <3>1. k \in 0 .. Len(str) - 1 /\ k <= N
      BY <1>3, <2>1
    <3>2. Doubled(ret, Len(str), str, pos)
      BY <1>2
    <3> HIDE DEF After, N
    <3>3. Reading(text)[<<pos[k] + 2, SubSeq(str, 1, k)>>]
            = Reading(text)[<<pos[k + 1] + 2, SubSeq(str, 1, k + 1)>>]
      BY <1>1, <1>4, <3>1, <3>2, ReadsOne
    <3>4. After(k) = After(k + 1)
      BY <3>3 DEF After
    <3> QED BY <3>1, <3>4
  <2> HIDE DEF After
  <2> QED BY <1>7, <2>1
<1>8. N \in S
  <2> HIDE DEF S
  <2> QED BY <1>3, <1>6, <1>7, SetInduction
<1>9. Reading(text)[<<2, <<>>>>] = After(N)
  BY <1>3, <1>8
<1>10. pos[N] + 2 = Len(text) /\ pos[N] + 2 \in 1 .. Len(text)
  <2>1. pos[N] \in Nat
    BY <1>1, <1>3 DEF Positions
  <2>2. Len(ret) = pos[N] + N - N
    BY <1>2 DEF Doubled
  <2> QED BY <1>3, <1>4, <2>1, <2>2 DEF Quotes
<1>11. After(N) = str
  <2>1. SubSeq(str, 1, N) = str
    BY Whole
  <2>2. text[pos[N] + 2] = Quote /\ text \in Seq(Chars)
    BY <1>4, <1>10 DEF Quotes
  <2>3. text[Len(text)] = Quote /\ Len(text) \in 1 .. Len(text)
    BY <1>10, <2>2
  <2>4. Reading(text)[<<Len(text), str>>] = str
    BY <2>2, <2>3, ReadStep
  <2> QED BY <1>10, <2>1, <2>4
<1> QED BY <1>4, <1>5, <1>9, <1>11, ReadIsReading DEF Quotes

-----------------------------------------------------------------------------
(* The writers *)

\* The row a writer inserts.
NewRow(w) ==
  [title |-> SqlOf[item[w]], item |-> item[w], writer |-> w, asked |-> asked[w]]

LEMMA Assumed ==
  /\ ProcessOf \in [Writers -> Processes]
  /\ \A w, x \in Writers : Shares(w, x) => ProcessOf[w] = ProcessOf[x]
  /\ NoWriter \notin Writers
  /\ TitleOf \in [Objects -> Titles]
  /\ MaxDbFaults \in Nat /\ MaxCrashes \in Nat
  /\ \A w \in Writers : ObjectOf[w] # NoObject => ObjectOf[w] \in Objects
  BY ProcessOfAssumption, ObjectsAreLocal, NoWriterAssumption, TitlesAssumption,
     StoreBoundsAssumption DEF Shares, Objects

\* A row goes behind the rows there are.
LEMMA RowAdded ==
  ASSUME TypeOK, NEW w \in Writers, Insert(w)
  PROVE  /\ article' \in Seq(Rows)
         /\ Len(article) \in Nat
         /\ Len(article') = Len(article) + 1
         /\ DOMAIN article = 1 .. Len(article)
         /\ DOMAIN article' = 1 .. Len(article) + 1
         /\ \A u \in DOMAIN article : article'[u] = article[u]
         /\ article'[Len(article) + 1].title = SqlOf[item[w]]
         /\ article'[Len(article) + 1].item = item[w]
         /\ article'[Len(article) + 1].writer = w
         /\ article'[Len(article) + 1].asked = asked[w]
<1>1. article \in Seq(Rows) /\ Len(article) \in Nat /\ DOMAIN article = 1 .. Len(article)
  BY LenProperties DEF TypeOK
<1>2. asked[w] \in Nat /\ item[w] \in Titles
  BY <1>1 DEF TypeOK
<1>3. NewRow(w) \in Rows
  BY <1>2 DEF NewRow, Rows
<1>4. article' = Append(article, NewRow(w))
  BY DEF Insert, NewRow
<1>5. /\ article' \in Seq(Rows) /\ Len(article') = Len(article) + 1
      /\ \A u \in 1 .. Len(article) : article'[u] = article[u]
      /\ article'[Len(article) + 1] = NewRow(w)
  BY <1>1, <1>3, <1>4, AppendProperties
<1>6. DOMAIN article' = 1 .. Len(article) + 1
  BY <1>5, LenProperties
<1> QED
  BY <1>1, <1>5, <1>6 DEF NewRow

\* One operation leaves the rows alone, or it is an insert.
LEMMA RowsKept ==
  ASSUME [Next]_vars, ~(\E w \in Writers : Insert(w))
  PROVE  article' = article
  BY DEF Next, Start, InitProcess, Look, Open, OpenFails, CreateDatabase, Crash, Call, Work,
     Lock, ExistsOrFails, ExistsNot, InsertFails, SelectUid, vars, storeVars

-----------------------------------------------------------------------------
(* The inductive invariant *)

\* A row has the title SQLite made of its item.
RowsAreTitled == \A u \in DOMAIN article : article[u].title = SqlOf[article[u].item]

\* A writer inside insert_if_not_exist holds the mutex of its object.
OwnersAreInside ==
  \A w \in Writers : Inside(w) /\ ObjectOf[w] # NoObject => owner[ObjectOf[w]] = w

\* Between exist() and insert(), only others that do not share the mutex can
\* have stored the title.
AnswersHold ==
  \A w \in Writers : stage[w] = "insert" =>
    \A u \in DOMAIN article : article[u].title = SqlOf[item[w]] =>
      asked[w] < u /\ article[u].writer # w /\ ~Shares(article[u].writer, w)

\* The uid is read back by the writer of a row.
RowsAreRead ==
  \A w \in Writers : stage[w] = "select" =>
    row[w] \in DOMAIN article /\ article[row[w]].item = item[w]

IInv ==
  TypeOK /\ RowsAreTitled /\ OwnersAreInside /\ AnswersHold /\ RowsAreRead /\ DuplicatesAreRaces

-----------------------------------------------------------------------------
(* Type correctness *)

LEMMA TypeInit == Init => TypeOK
<1> SUFFICES ASSUME Init PROVE TypeOK
  OBVIOUS
<1>1. article = <<>> /\ article \in Seq(Rows) /\ Len(article) = 0
  BY DEF Init
<1>2. item \in [Writers -> Titles]
  BY DEF Init
<1>3. /\ pstage \in [Processes -> ProcessStages] /\ stage \in [Writers -> Stages]
      /\ asked \in [Writers -> 0 .. Len(article)] /\ row \in [Writers -> 0 .. Len(article)]
      /\ owner \in [Objects -> Writers \cup {NoWriter}]
  BY <1>1 DEF Init, ProcessStages, Stages
<1>4. told \subseteq [uid : DOMAIN article, row : DOMAIN article]
  BY DEF Init
<1>5. dbFaults \in 0 .. MaxDbFaults /\ crashes \in 0 .. MaxCrashes
  BY Assumed DEF Init
<1> QED
  BY <1>1, <1>2, <1>3, <1>4, <1>5 DEF Init, TypeOK

LEMMA TypeProcess ==
  ASSUME TypeOK, NEW process \in Processes, Start(process) \/ InitProcess(process) \/ Crash(process)
  PROVE  TypeOK'
<1> USE Assumed DEF TypeOK
<1>1. CASE Start(process)
  BY <1>1 DEF Start, At, storeVars, others, writerVars, ProcessStages
<1>2. CASE Look(process)
  BY <1>2 DEF Look, At, storeVars, others, writerVars, ProcessStages
<1>3. CASE Open(process)
  BY <1>3 DEF Open, At, others, writerVars, ProcessStages
<1>f. ASSUME DbFault \/ NoDbFault PROVE dbFaults' \in 0 .. MaxDbFaults
  BY <1>f DEF DbFault, NoDbFault
<1>4. CASE OpenFails(process)
  <2>1. pstage' \in [Processes -> ProcessStages]
    BY <1>4 DEF OpenFails, At, ProcessStages
  <2> QED
    BY <1>4, <1>f, <2>1 DEF OpenFails, storeVars, others, writerVars
<1>5. CASE CreateDatabase(process)
  <2>1. pstage' \in [Processes -> ProcessStages]
    BY <1>5 DEF CreateDatabase, At, ProcessStages
  <2>2. tables' \subseteq {"newspaper", "article"} /\ dbFaults' \in 0 .. MaxDbFaults
    BY <1>5, <1>f DEF CreateDatabase, CreateTable
  <2> QED
    BY <1>5, <2>1, <2>2 DEF CreateDatabase, others, writerVars
<1>6. CASE Crash(process)
  BY <1>6 DEF Crash, storeVars, ProcessStages, Stages
<1> QED
  BY <1>1, <1>2, <1>3, <1>4, <1>5, <1>6 DEF InitProcess

LEMMA TypeWriter ==
  ASSUME TypeOK, RowsAreRead, NEW w \in Writers, Call(w) \/ Work(w)
  PROVE  TypeOK'
<1> USE Assumed DEF TypeOK
<1>a. Len(article) \in Nat /\ DOMAIN article = 1 .. Len(article)
  BY LenProperties
<1>1. CASE Call(w)
  <2>1. item' \in [Writers -> Titles]
    <3>1. ObjectOf[w] # NoObject => TitleOf[ObjectOf[w]] \in Titles
      OBVIOUS
    <3>2. \E title \in Titles : item' = [item EXCEPT ![w] = title]
      BY <1>1, <3>1 DEF Call
    <3> QED
      BY <3>2
  <2>2. Goes(w, "idle", "exist") \/ Goes(w, "idle", "lock")
    BY <1>1 DEF Call
  <2>3. stage' \in [Writers -> Stages]
    BY <2>2 DEF Goes, Stages
  <2> QED
    BY <1>1, <2>1, <2>3 DEF Call, storeVars
<1>2. CASE Lock(w)
  <2>1. stage' \in [Writers -> Stages]
    BY <1>2 DEF Lock, Goes, Stages
  <2>2. owner' \in [Objects -> Writers \cup {NoWriter}]
    BY <1>2 DEF Lock
  <2> QED
    BY <1>2, <2>1, <2>2 DEF Lock, storeVars
<1>u. ASSUME Unlock(w) PROVE owner' \in [Objects -> Writers \cup {NoWriter}]
  BY <1>u DEF Unlock
<1>3. CASE ExistsOrFails(w)
  <2>1. stage' \in [Writers -> Stages] /\ owner' \in [Objects -> Writers \cup {NoWriter}]
    BY <1>3, <1>u DEF ExistsOrFails, Goes, Stages
  <2>2. dbFaults' \in 0 .. MaxDbFaults
    BY <1>3 DEF ExistsOrFails, Rejected, DbFault, NoDbFault
  <2> QED
    BY <1>3, <2>1, <2>2 DEF ExistsOrFails, storeVars
<1>4. CASE ExistsNot(w)
  BY <1>4, <1>a DEF ExistsNot, Goes, NoDbFault, storeVars, Stages
<1>5. CASE Insert(w)
  <2>1. article' \in Seq(Rows) /\ Len(article') = Len(article) + 1
    BY <1>5, RowAdded
  <2>2. row' \in [Writers -> 0 .. Len(article')] /\ asked' \in [Writers -> 0 .. Len(article')]
    BY <1>5, <1>a, <2>1 DEF Insert
  <2>3. told' \subseteq [uid : DOMAIN article', row : DOMAIN article']
    BY <1>5, <1>a, RowAdded DEF Insert
  <2> QED
    BY <1>5, <2>1, <2>2, <2>3 DEF Insert, Goes, NoDbFault, Stages
<1>6. CASE InsertFails(w)
  <2>1. stage' \in [Writers -> Stages] /\ owner' \in [Objects -> Writers \cup {NoWriter}]
    BY <1>6, <1>u DEF InsertFails, Goes, Stages
  <2>2. dbFaults' \in 0 .. MaxDbFaults
    BY <1>6 DEF InsertFails, Rejected, DbFault, NoDbFault
  <2> QED
    BY <1>6, <2>1, <2>2 DEF InsertFails, storeVars
<1>7. CASE SelectUid(w)
  <2>1. stage' \in [Writers -> Stages] /\ owner' \in [Objects -> Writers \cup {NoWriter}]
    BY <1>7, <1>u DEF SelectUid, Goes, Stages
  <2>2. dbFaults' \in 0 .. MaxDbFaults
    BY <1>7 DEF SelectUid, Rejected, DbFault, NoDbFault
  <2>3. ASSUME NEW uid \in Found(item[w]), row[w] \in DOMAIN article
        PROVE  [uid |-> uid, row |-> row[w]] \in [uid : DOMAIN article, row : DOMAIN article]
    BY <2>3 DEF Found
  <2>4. stage[w] = "select"
    BY <1>7 DEF SelectUid, Goes
  <2>5. told' \subseteq [uid : DOMAIN article, row : DOMAIN article]
    BY <1>7, <2>3, <2>4 DEF SelectUid, RowsAreRead
  <2> QED
    BY <1>7, <2>1, <2>2, <2>5 DEF SelectUid, storeVars
<1> QED
  BY <1>1, <1>2, <1>3, <1>4, <1>5, <1>6, <1>7 DEF Work

LEMMA TypeNext == TypeOK /\ RowsAreRead /\ [Next]_vars => TypeOK'
<1> SUFFICES ASSUME TypeOK, RowsAreRead, [Next]_vars PROVE TypeOK'
  OBVIOUS
<1>1. CASE UNCHANGED vars
  BY <1>1 DEF TypeOK, vars, storeVars, writerVars
<1> QED
  BY <1>1, TypeProcess, TypeWriter DEF Next

-----------------------------------------------------------------------------
(* The invariant is kept *)

\* A stage that a step reaches for a writer, it reaches by that writer's own
\* action; everything else leaves the writer where it is or ends it.
LEMMA OtherStages ==
  ASSUME TypeOK, [Next]_vars, NEW w \in Writers,
         ~Call(w), ~Lock(w), ~ExistsNot(w), ~Insert(w)
  PROVE  /\ stage'[w] = stage[w] \/ stage'[w] = "idle"
         /\ item'[w] = item[w] /\ asked'[w] = asked[w] /\ row'[w] = row[w]
<1> USE DEF TypeOK
<1>1. CASE UNCHANGED vars
  BY <1>1 DEF vars, writerVars
<1>2. ASSUME NEW process \in Processes, Start(process) \/ InitProcess(process)
      PROVE  UNCHANGED writerVars
  BY <1>2 DEF Start, InitProcess, Look, Open, OpenFails, CreateDatabase, others
<1>3. ASSUME NEW process \in Processes, Crash(process)
      PROVE  /\ stage'[w] = stage[w] \/ stage'[w] = "idle"
             /\ UNCHANGED <<item, asked, row>>
  BY <1>3 DEF Crash
<1>4. ASSUME NEW x \in Writers, x # w, Call(x) \/ Work(x)
      PROVE  /\ stage'[w] = stage[w]
             /\ item'[w] = item[w] /\ asked'[w] = asked[w] /\ row'[w] = row[w]
  BY <1>4 DEF Call, Work, Lock, ExistsOrFails, ExistsNot, Insert, InsertFails, SelectUid, Goes
<1>5. ASSUME ExistsOrFails(w) \/ InsertFails(w) \/ SelectUid(w)
      PROVE  stage'[w] = "idle" /\ UNCHANGED <<item, asked, row>>
  BY <1>5 DEF ExistsOrFails, InsertFails, SelectUid, Goes
<1> QED
  BY <1>1, <1>2, <1>3, <1>4, <1>5 DEF Next, Work, writerVars

LEMMA TitledNext == IInv /\ [Next]_vars => RowsAreTitled'
<1> SUFFICES ASSUME IInv, [Next]_vars PROVE RowsAreTitled'
  OBVIOUS
<1>1. CASE \E w \in Writers : Insert(w)
  <2> PICK w \in Writers : Insert(w)
    BY <1>1
  <2> QED
    BY RowAdded DEF IInv, RowsAreTitled, Insert
<1>2. CASE ~(\E w \in Writers : Insert(w))
  BY <1>2, RowsKept DEF IInv, RowsAreTitled
<1> QED
  BY <1>1, <1>2

\* The mutex: whoever is inside holds it, so two sharers are never inside.
LEMMA SharersExclude ==
  ASSUME OwnersAreInside, NEW w \in Writers, NEW x \in Writers, Inside(w), Inside(x), Shares(w, x)
  PROVE  w = x
  BY DEF OwnersAreInside, Shares

LEMMA OwnersNext == IInv /\ [Next]_vars => OwnersAreInside'
<1> SUFFICES ASSUME TypeOK, OwnersAreInside, [Next]_vars,
                    NEW w \in Writers, Inside(w)', ObjectOf[w] # NoObject
             PROVE  owner'[ObjectOf[w]] = w
  BY DEF IInv, OwnersAreInside
<1> USE Assumed DEF TypeOK
<1>1. CASE UNCHANGED vars
  BY <1>1 DEF vars, writerVars, OwnersAreInside, Inside
<1>2. ASSUME NEW process \in Processes, Start(process) \/ InitProcess(process)
      PROVE  owner'[ObjectOf[w]] = w
  <2>1. UNCHANGED <<stage, owner>>
    BY <1>2 DEF Start, InitProcess, Look, Open, OpenFails, CreateDatabase, others, writerVars
  <2> QED
    BY <2>1 DEF OwnersAreInside, Inside
<1>3. ASSUME NEW process \in Processes, Crash(process) PROVE owner'[ObjectOf[w]] = w
  <2>1. ProcessOf[w] # process /\ stage[w] = stage'[w]
    BY <1>3 DEF Crash, Inside
  <2>2. ~(\E x \in Writers : ObjectOf[x] = ObjectOf[w] /\ ProcessOf[x] = process)
    BY <2>1 DEF Shares
  <2>3. owner'[ObjectOf[w]] = owner[ObjectOf[w]]
    BY <1>3, <2>2 DEF Crash
  <2> QED
    BY <2>1, <2>3 DEF OwnersAreInside, Inside
<1>4. ASSUME NEW x \in Writers, Call(x) PROVE owner'[ObjectOf[w]] = w
  <2>1. w # x
    BY <1>4 DEF Call, Goes, Inside
  <2> QED
    BY <1>4, <2>1 DEF Call, Goes, OwnersAreInside, Inside
<1>5. ASSUME NEW x \in Writers, Lock(x) PROVE owner'[ObjectOf[w]] = w
  <2>1. CASE w = x
    BY <1>5, <2>1 DEF Lock
  <2>2. CASE w # x
    <3>1. stage[w] = stage'[w]
      BY <1>5, <2>2 DEF Lock, Goes
    <3>2. owner[ObjectOf[w]] = w
      BY <3>1 DEF OwnersAreInside, Inside
    <3>3. ObjectOf[x] # ObjectOf[w]
      BY <1>5, <3>2 DEF Lock
    <3> QED
      BY <1>5, <3>2, <3>3 DEF Lock
  <2> QED
    BY <2>1, <2>2
<1>6. ASSUME NEW x \in Writers, ExistsNot(x) \/ Insert(x) PROVE owner'[ObjectOf[w]] = w
  <2>1. Inside(w) /\ owner' = owner
    BY <1>6 DEF ExistsNot, Insert, Goes, Inside
  <2> QED
    BY <2>1 DEF OwnersAreInside
<1>7. ASSUME NEW x \in Writers, ExistsOrFails(x) \/ InsertFails(x) \/ SelectUid(x)
      PROVE  owner'[ObjectOf[w]] = w
  <2>1. Inside(x) /\ Unlock(x) /\ w # x /\ Inside(w)
    BY <1>7 DEF ExistsOrFails, InsertFails, SelectUid, Goes, Inside
  <2>2. ~Shares(w, x)
    BY <2>1, SharersExclude
  <2>3. owner'[ObjectOf[w]] = owner[ObjectOf[w]]
    BY <2>1, <2>2 DEF Unlock, Shares
  <2> QED
    BY <2>1, <2>3 DEF OwnersAreInside
<1> QED
  BY <1>1, <1>2, <1>3, <1>4, <1>5, <1>6, <1>7 DEF Next, Work

LEMMA AnswersNext == IInv /\ [Next]_vars => AnswersHold'
<1> SUFFICES ASSUME IInv, [Next]_vars, NEW w \in Writers, stage'[w] = "insert",
                    NEW u \in DOMAIN article', article'[u].title = SqlOf[item'[w]]
             PROVE  asked'[w] < u /\ article'[u].writer # w /\ ~Shares(article'[u].writer, w)
  BY DEF AnswersHold
<1>1. CASE ExistsNot(w)
  BY <1>1 DEF ExistsNot, Found, storeVars
<1>2. CASE ~ExistsNot(w)
  <2>1. ~Call(w) /\ ~Lock(w) /\ ~Insert(w)
    BY DEF Call, Lock, Insert, Goes, IInv, TypeOK
  <2>2. stage[w] = "insert" /\ item'[w] = item[w] /\ asked'[w] = asked[w]
    BY <1>2, <2>1, OtherStages DEF IInv
  <2>3. CASE article' = article
    BY <2>2, <2>3 DEF IInv, AnswersHold
  <2>4. ASSUME NEW x \in Writers, Insert(x)
        PROVE  asked'[w] < u /\ article'[u].writer # w /\ ~Shares(article'[u].writer, w)
    <3>1. x # w /\ stage[x] = "insert"
      BY <2>1, <2>4 DEF Insert, Goes
    <3>2. CASE u \in DOMAIN article
      BY <2>2, <2>4, <3>2, RowAdded DEF IInv, AnswersHold
    <3>3. CASE u = Len(article) + 1
      <4>1. article'[u].writer = x
        BY <2>4, <3>3, RowAdded DEF IInv
      <4>2. asked[w] \in 0 .. Len(article) /\ Len(article) \in Nat
        BY <2>4, RowAdded DEF IInv, TypeOK
      <4>3. ~Shares(x, w)
        BY <2>2, <3>1, SharersExclude DEF IInv, Inside
      <4> QED
        BY <2>2, <3>1, <3>3, <4>1, <4>2, <4>3
    <3> QED
      BY <2>4, <3>2, <3>3, RowAdded DEF IInv
  <2> QED
    BY <2>3, <2>4, RowsKept
<1> QED
  BY <1>1, <1>2

LEMMA ReadNext == IInv /\ [Next]_vars => RowsAreRead'
<1> SUFFICES ASSUME IInv, [Next]_vars, NEW w \in Writers, stage'[w] = "select"
             PROVE  row'[w] \in DOMAIN article' /\ article'[row'[w]].item = item'[w]
  BY DEF RowsAreRead
<1>1. CASE Insert(w)
  <2>1. row'[w] = Len(article) + 1 /\ item' = item
    BY <1>1 DEF Insert, IInv, TypeOK
  <2> QED
    BY <1>1, <2>1, RowAdded DEF IInv
<1>2. CASE ~Insert(w)
  <2>1. ~Call(w) /\ ~Lock(w) /\ ~ExistsNot(w)
    BY DEF Call, Lock, ExistsNot, Goes, IInv, TypeOK
  <2>2. stage[w] = "select" /\ item'[w] = item[w] /\ row'[w] = row[w]
    BY <1>2, <2>1, OtherStages DEF IInv
  <2>3. CASE article' = article
    BY <2>2, <2>3 DEF IInv, RowsAreRead
  <2>4. ASSUME NEW x \in Writers, Insert(x)
        PROVE  row'[w] \in DOMAIN article' /\ article'[row'[w]].item = item'[w]
    BY <2>2, <2>4, RowAdded DEF IInv, RowsAreRead
  <2> QED
    BY <2>3, <2>4, RowsKept
<1> QED
  BY <1>1, <1>2

LEMMA DuplicatesNext == IInv /\ [Next]_vars => DuplicatesAreRaces'
<1> SUFFICES ASSUME IInv, [Next]_vars, NEW u \in DOMAIN article', NEW v \in DOMAIN article',
                    u < v, article'[u].title = article'[v].title
             PROVE  /\ article'[v].asked < u
                    /\ article'[u].writer # article'[v].writer
                    /\ ~Shares(article'[u].writer, article'[v].writer)
  BY DEF DuplicatesAreRaces
<1>1. CASE article' = article
  BY <1>1 DEF IInv, DuplicatesAreRaces
<1>2. ASSUME NEW w \in Writers, Insert(w)
      PROVE  /\ article'[v].asked < u
             /\ article'[u].writer # article'[v].writer
             /\ ~Shares(article'[u].writer, article'[v].writer)
  <2>1. u \in DOMAIN article
    BY <1>2, RowAdded DEF IInv
  <2>2. CASE v \in DOMAIN article
    BY <1>2, <2>1, <2>2, RowAdded DEF IInv, DuplicatesAreRaces
  <2>3. CASE v = Len(article) + 1
    <3>1. /\ article'[v].title = SqlOf[item[w]] /\ article'[v].writer = w
          /\ article'[v].asked = asked[w] /\ article'[u] = article[u]
      BY <1>2, <2>1, <2>3, RowAdded DEF IInv
    <3>2. stage[w] = "insert" /\ article[u].title = SqlOf[item[w]]
      BY <1>2, <3>1 DEF Insert, Goes
    <3>3. asked[w] < u /\ article[u].writer # w /\ ~Shares(article[u].writer, w)
      BY <2>1, <3>2 DEF IInv, AnswersHold
    <3> QED
      BY <3>1, <3>3
  <2> QED
    BY <1>2, <2>2, <2>3, RowAdded DEF IInv
<1> QED
  BY <1>1, <1>2, RowsKept

LEMMA InitInv == Init => IInv
<1> SUFFICES ASSUME Init PROVE IInv
  OBVIOUS
<1>1. DOMAIN article = {}
  BY DEF Init
<1>2. RowsAreTitled /\ DuplicatesAreRaces
  BY <1>1 DEF RowsAreTitled, DuplicatesAreRaces
<1>3. OwnersAreInside /\ AnswersHold /\ RowsAreRead
  BY DEF Init, OwnersAreInside, AnswersHold, RowsAreRead, Inside
<1> QED
  BY <1>2, <1>3, TypeInit DEF IInv

LEMMA NextInv == IInv /\ [Next]_vars => IInv'
<1>1. IInv => TypeOK /\ RowsAreRead
  BY DEF IInv
<1> QED
  BY <1>1, TypeNext, TitledNext, OwnersNext, AnswersNext, ReadNext, DuplicatesNext DEF IInv

LEMMA InvHolds == Spec => []IInv
  BY InitInv, NextInv, PTL DEF Spec

\* Every variable keeps its type.
THEOREM TypeCorrect == Spec => []TypeOK
<1>1. IInv => TypeOK
  BY DEF IInv
<1> QED
  BY <1>1, InvHolds, PTL

\* However many processes and threads store articles, a title is stored twice
\* only by two writers without a common mutex, the later of which had asked
\* exist() before the earlier row was there.
THEOREM OnlyRacesDuplicate == Spec => []DuplicatesAreRaces
<1>1. IInv => DuplicatesAreRaces
  BY DEF IInv
<1> QED
  BY <1>1, InvHolds, PTL

-----------------------------------------------------------------------------
(* The uid that is read back *)

\* Two titles are the same to SQLite only if they are the same.
LEMMA TitlesSurvive == \A title \in Titles : SqlOf[title] = title
  BY TitlesAssumption, SqlReturns DEF SqlOf

LEMMA UidNext == IInv /\ UidIsOfItsTitle /\ [Next]_vars => UidIsOfItsTitle'
<1> SUFFICES ASSUME IInv, UidIsOfItsTitle, [Next]_vars, NEW n \in told'
             PROVE  /\ article'[n.uid].item = article'[n.row].item
                    /\ n.uid # n.row => n.uid < n.row /\ article'[n.row].asked < n.uid
  BY DEF UidIsOfItsTitle
<1>1. ASSUME NEW w \in Writers, SelectUid(w), n \notin told
      PROVE  /\ article'[n.uid].item = article'[n.row].item
             /\ n.uid # n.row => n.uid < n.row /\ article'[n.row].asked < n.uid
  <2> DEFINE title == SqlOf[item[w]]
  <2>1. PICK uid \in Found(item[w]) :
          (\A v \in Found(item[w]) : uid <= v) /\ n = [uid |-> uid, row |-> row[w]]
    BY <1>1 DEF SelectUid
  <2>2. article' = article /\ stage[w] = "select"
    BY <1>1 DEF SelectUid, Goes, storeVars
  <2>3. row[w] \in DOMAIN article /\ article[row[w]].item = item[w]
    BY <2>2 DEF IInv, RowsAreRead
  <2>4. article[row[w]].title = title
    BY <2>3 DEF IInv, RowsAreTitled
  <2>5. uid \in DOMAIN article /\ article[uid].title = title /\ uid <= row[w]
    BY <2>1, <2>3, <2>4 DEF Found
  <2>6. uid \in Nat /\ row[w] \in Nat
    BY <2>3, <2>5, LenProperties DEF IInv, TypeOK
  <2>7. article[uid].item = item[w]
    <3>1. article[uid] \in Rows
      BY <2>5, ElementOfSeq, LenProperties DEF IInv, TypeOK
    <3>2. article[uid].item \in Titles /\ item[w] \in Titles
      BY <3>1 DEF IInv, TypeOK, Rows
    <3>3. SqlOf[article[uid].item] = SqlOf[item[w]]
      BY <2>5 DEF IInv, RowsAreTitled
    <3> QED
      BY <3>2, <3>3, TitlesSurvive
  <2>8. uid # row[w] => uid < row[w] /\ article[row[w]].asked < uid
    BY <2>3, <2>4, <2>5, <2>6 DEF IInv, DuplicatesAreRaces
  <2> QED
    BY <2>1, <2>2, <2>3, <2>7, <2>8
<1>2. CASE n \in told
  <2>1. n.uid \in DOMAIN article /\ n.row \in DOMAIN article
    BY <1>2 DEF IInv, TypeOK
  <2>2. article'[n.uid] = article[n.uid] /\ article'[n.row] = article[n.row]
    BY <2>1, RowsKept, RowAdded DEF IInv
  <2> QED
    BY <1>2, <2>2 DEF UidIsOfItsTitle
<1>3. ~(\E w \in Writers : SelectUid(w)) => told' = told
  BY DEF Next, Start, InitProcess, Look, Open, OpenFails, CreateDatabase, Crash, Call, Work,
     Lock, ExistsOrFails, ExistsNot, Insert, InsertFails, vars, storeVars, others
<1> QED
  BY <1>1, <1>2, <1>3

\* The uid a writer announces is that of a row with its title, and of another's
\* row only after a race.
THEOREM UidsAreOfTheirTitles == Spec => []UidIsOfItsTitle
<1>1. Init => UidIsOfItsTitle
  BY DEF Init, UidIsOfItsTitle
<1>2. IInv /\ UidIsOfItsTitle /\ [Next]_vars => UidIsOfItsTitle'
  BY UidNext
<1> QED
  BY <1>1, <1>2, InvHolds, PTL DEF Spec

\* The title in each row is the one the feed gave, whatever quotes it has.
THEOREM TitlesAreStored == Spec => []TitlesAreStoredAsTheyAre
<1>1. IInv => TitlesAreStoredAsTheyAre
  <2> SUFFICES ASSUME IInv, NEW u \in DOMAIN article PROVE article[u].title = article[u].item
    BY DEF TitlesAreStoredAsTheyAre
  <2>1. article[u] \in Rows
    BY ElementOfSeq, LenProperties DEF IInv, TypeOK
  <2>2. article[u].item \in Titles /\ article[u].title = SqlOf[article[u].item]
    BY <2>1 DEF IInv, RowsAreTitled, Rows
  <2> QED
    BY <2>2, TitlesSurvive
<1> QED
  BY <1>1, InvHolds, PTL

-----------------------------------------------------------------------------
(* The tables of a new file *)

\* As long as nothing failed, a missing table is still to be created by a
\* process that is in create_database.
TablesFollow ==
  /\ \A process \in Processes : pstage[process] \notin {"down", "look", "openNew"} => dbFile
  /\ dbFaults = 0 /\ crashes = 0 /\ dbFile =>
       /\ "newspaper" \in tables \/ \E process \in Processes : pstage[process] = "createNewspaper"
       /\ \/ "article" \in tables
          \/ \E process \in Processes : pstage[process] \in {"createNewspaper", "createArticle"}

LEMMA TablesNext == TypeOK /\ TablesFollow /\ [Next]_vars => TablesFollow'
<1> SUFFICES ASSUME TypeOK, TablesFollow, [Next]_vars PROVE TablesFollow'
  OBVIOUS
<1>0. dbFaults \in Nat /\ crashes \in Nat
  BY Assumed DEF TypeOK
<1>1. CASE UNCHANGED vars
  BY <1>1 DEF vars, storeVars, TablesFollow
<1>2. ASSUME NEW w \in Writers, Call(w) \/ Work(w) PROVE TablesFollow'
  <2>1. UNCHANGED <<dbFile, tables, pstage, crashes>> /\ (dbFaults' = 0 => dbFaults = 0)
    BY <1>0, <1>2 DEF Call, Work, Lock, ExistsOrFails, ExistsNot, Insert, InsertFails, SelectUid,
       Rejected, DbFault, NoDbFault, storeVars
  <2> QED
    BY <2>1 DEF TablesFollow
<1>3. ASSUME NEW process \in Processes, Start(process) PROVE TablesFollow'
  BY <1>3 DEF Start, At, storeVars, others, TablesFollow, TypeOK
<1>4. ASSUME NEW process \in Processes, Look(process) PROVE TablesFollow'
  BY <1>4 DEF Look, At, storeVars, others, TablesFollow, TypeOK
<1>5. ASSUME NEW process \in Processes, Open(process) PROVE TablesFollow'
  <2>1. dbFile' /\ UNCHANGED <<tables, dbFaults, crashes>>
    BY <1>5 DEF Open, others
  <2>2. CASE dbFile
    BY <1>5, <2>1, <2>2 DEF Open, At, TablesFollow, TypeOK
  <2>3. CASE ~dbFile
    <3>1. pstage'[process] = "createNewspaper"
      BY <1>5, <2>3 DEF Open, At, TablesFollow, TypeOK
    <3> QED
      BY <2>1, <3>1 DEF TablesFollow
  <2> QED
    BY <2>2, <2>3
<1>6. ASSUME NEW process \in Processes, OpenFails(process) PROVE TablesFollow'
  <2>1. dbFaults' # 0 /\ dbFile' = dbFile
    BY <1>0, <1>6 DEF OpenFails, DbFault, storeVars
  <2>2. pstage' = [pstage EXCEPT ![process] = "down"]
    BY <1>6 DEF OpenFails, At
  <2> QED
    BY <2>1, <2>2 DEF TablesFollow, TypeOK
<1>7. ASSUME NEW process \in Processes, CreateDatabase(process) PROVE TablesFollow'
  <2>1. CASE DbFault
    BY <1>0, <1>7, <2>1 DEF CreateDatabase, At, DbFault, TablesFollow, TypeOK
  <2>2. CASE At(process, "createNewspaper", "createArticle") /\ tables' = tables \cup {"newspaper"}
    BY <1>0, <1>7, <2>2 DEF CreateDatabase, CreateTable, At, DbFault, NoDbFault, others, TablesFollow, TypeOK
  <2>3. CASE At(process, "createArticle", "up") /\ tables' = tables \cup {"article"}
    BY <1>0, <1>7, <2>3 DEF CreateDatabase, CreateTable, At, DbFault, NoDbFault, others, TablesFollow, TypeOK
  <2> QED
    BY <1>7, <2>1, <2>2, <2>3 DEF CreateDatabase, CreateTable
<1>8. ASSUME NEW process \in Processes, Crash(process) PROVE TablesFollow'
  BY <1>0, <1>8 DEF Crash, storeVars, TablesFollow, TypeOK
<1> QED
  BY <1>1, <1>2, <1>3, <1>4, <1>5, <1>6, <1>7, <1>8 DEF Next, InitProcess

\* Whatever number of processes start on a new file in whatever order, once the
\* ones that create tables are through, both tables are there.
THEOREM TablesAreCreated == Spec => []SomebodyCreatesTheTables
<1>1. Init => TablesFollow
  BY DEF Init, TablesFollow
<1>2. TypeOK /\ TablesFollow => SomebodyCreatesTheTables
  BY DEF TypeOK, TablesFollow, SomebodyCreatesTheTables
<1> QED
  BY <1>1, <1>2, TablesNext, TypeCorrect, PTL DEF Spec
=============================================================================
