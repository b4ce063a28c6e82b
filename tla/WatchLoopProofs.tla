-------------------------- MODULE WatchLoopProofs --------------------------
(***************************************************************************)
(* TLAPS proofs about WatchLoop, for any settings, any resolution of the    *)
(* clock and any way it is set: polls keep their distance, and a negative   *)
(* setting is a distance of almost a whole word of seconds.                *)
(***************************************************************************)
EXTENDS WatchLoop, Induction

\* Whole seconds: what division gives the deadline and the clock.
LEMMA Seconds ==
  ASSUME NEW ticks \in Int
  PROVE  /\ SecondOf(ticks) \in Int
         /\ TicksPerSecond * SecondOf(ticks) <= ticks
         /\ ticks < TicksPerSecond * SecondOf(ticks) + TicksPerSecond
  BY ClockAssumption DEF SecondOf

LEMMA Monotonic ==
  ASSUME NEW a \in Int, NEW b \in Int, a <= b
  PROVE  TicksPerSecond * a <= TicksPerSecond * b
  BY ClockAssumption

LEMMA Products ==
  ASSUME NEW a \in Int
  PROVE  TicksPerSecond * a \in Int /\ a * TicksPerSecond = TicksPerSecond * a
         /\ (a - 1) * TicksPerSecond = TicksPerSecond * a - TicksPerSecond
         /\ TicksPerSecond * (a - 1) = TicksPerSecond * a - TicksPerSecond
  BY ClockAssumption

-----------------------------------------------------------------------------
(* atoi *)

\* The value after each symbol.
Values(str, value) ==
  value = [i \in 0 .. Len(str) |->
             IF i = 0 THEN 0
             ELSE IF Counts(str, i) THEN 10 * value[i - 1] + str[i] ELSE value[i - 1]]

LEMMA CountedDigit ==
  ASSUME NEW str \in Settings, NEW i \in 1 .. Len(str), Counts(str, i)
  PROVE  str[i] \in Nat
<1>1. str \in Seq(Symbols)
  BY SettingsAssumption
<1>2. i \in DOMAIN str
  BY <1>1
<1>3. str[i] \in Digits
  BY <1>2 DEF Counts
<1> QED BY <1>3 DEF Digits

LEMMA ValuesExist ==
  ASSUME NEW str \in Settings
  PROVE  \E value : value \in [0 .. Len(str) -> Nat] /\ Values(str, value)
<1> DEFINE N == Len(str)
           After(i, before) ==
             IF i \in 1 .. N /\ Counts(str, i) THEN 10 * before + str[i] ELSE before
           round == [pair \in Nat \X Nat |-> After(pair[1], pair[2])]
<1>1. N \in Nat
  <2>1. str \in Seq(Symbols)
    BY SettingsAssumption
  <2> QED BY <2>1
<1>2. \A i \in Nat, before \in Nat : After(i, before) \in Nat
  BY CountedDigit
<1> HIDE DEF After
<1>3. round \in [Nat \X Nat -> Nat]
  BY <1>2
<1>4. \A i \in Nat, before \in Nat : round[<<i, before>>] = After(i, before)
  OBVIOUS
<1> HIDE DEF round
<1>5. PICK f : Rounds(f, N, Nat, 0, round)
  BY <1>1, <1>3, Iteration
<1>6. ASSUME NEW i \in 0 .. N, i # 0
      PROVE  f[i] = IF Counts(str, i) THEN 10 * f[i - 1] + str[i] ELSE f[i - 1]
  <2>1. i \in Nat /\ i \in 1 .. N /\ i - 1 \in 0 .. N
    BY <1>1, <1>6
  <2>2. f[i] = round[<<i, f[i - 1]>>] /\ f[i - 1] \in Nat
    BY <1>5, <1>6, <2>1 DEF Rounds
  <2> QED BY <1>4, <2>1, <2>2 DEF After
<1>7. Values(str, f)
  BY <1>5, <1>6 DEF Rounds, Values
<1> QED BY <1>5, <1>7 DEF Rounds

\* The digits of a setting are a natural number, however many there are.
THEOREM MagnitudeIsNatural ==
  ASSUME NEW str \in Settings
  PROVE  Magnitude(str) \in Nat
<1> DEFINE f == CHOOSE value : Values(str, value)
<1>1. Values(str, f)
  BY ValuesExist
<1>2. Magnitude(str) = f[Len(str)]
  BY Zenon DEF Magnitude, Values
<1> HIDE DEF f
<1>3. Len(str) \in Nat
  <2>1. str \in Seq(Symbols)
    BY SettingsAssumption
  <2> QED BY <2>1
<1> DEFINE S == {i \in Nat : i <= Len(str) => f[i] \in Nat}
<1>4. 0 \in S
  BY <1>1, <1>3 DEF Values
<1>5. ASSUME NEW i \in Nat, i \in S PROVE i + 1 \in S
  <2>1. SUFFICES ASSUME i + 1 <= Len(str) PROVE f[i + 1] \in Nat
    OBVIOUS
  <2>2. i + 1 \in 1 .. Len(str) /\ i + 1 \in 0 .. Len(str) /\ i + 1 - 1 = i /\ i + 1 # 0
    BY <1>3, <2>1
  <2>3. f[i] \in Nat
    BY <1>3, <1>5, <2>1
  <2>4. f[i + 1] = IF Counts(str, i + 1) THEN 10 * f[i] + str[i + 1] ELSE f[i]
    BY <1>1, <2>2 DEF Values
  <2> QED BY <2>2, <2>3, <2>4, CountedDigit
<1> HIDE DEF S
<1>6. Len(str) \in S
  BY <1>3, <1>4, <1>5, SetInduction
<1> QED BY <1>2, <1>3, <1>6 DEF S

-----------------------------------------------------------------------------
(* The inductive invariant *)

\* In a cycle the clock has gone on by the time that passed and the jumps, and
\* the deadline is the watch time after the stamp.
Timed ==
  stage \in {"feeds", "test", "sleep"} =>
    clock = stamp + elapsed + jumped /\ xt = stamp + TicksPerSecond * m_watch_time

\* The watch time is the constructor's.
WatchTimeIsSet == stage # "construct" => m_watch_time = WatchTime(setting)

IInv == TypeOK /\ Timed /\ WatchTimeIsSet

LEMMA WatchTimeIsAWord == \A str \in Settings : WatchTime(str) \in 0 .. WordSize - 1
<1> SUFFICES ASSUME NEW str \in Settings PROVE WatchTime(str) \in 0 .. WordSize - 1
  OBVIOUS
<1>1. (IF str # <<>> THEN Atoi(str) ELSE 300) \in Int
  BY MagnitudeIsNatural DEF Atoi
<1> QED
  BY <1>1, ClockAssumption DEF WatchTime

LEMMA InitInv == Init => IInv
  BY ClockAssumption, WatchBoundsAssumption DEF Init, IInv, TypeOK, Timed, WatchTimeIsSet, Stages

LEMMA NextInv == IInv /\ [Next]_vars => IInv'
<1> SUFFICES ASSUME TypeOK, Timed, WatchTimeIsSet, [Next]_vars
             PROVE  TypeOK' /\ Timed' /\ WatchTimeIsSet'
  BY DEF IInv
<1> USE ClockAssumption, WatchBoundsAssumption DEF TypeOK, WatchTimeIsSet
<1>1. CASE Construct
  BY <1>1, WatchTimeIsAWord DEF Construct, Goes, Timed, timeVars, Stages
<1>2. CASE Stamp
  <2>1. clock' \in 0 .. TicksPerSecond - 1
    BY <1>2 DEF Stamp
  <2>2. TicksPerSecond * m_watch_time \in Int /\ xt' = clock' + TicksPerSecond * m_watch_time
    BY <1>2, Products DEF Stamp
  <2> QED
    BY <1>2, <2>1, <2>2 DEF Stamp, Goes, Timed, Stages
<1>3. CASE GetFeeds \/ Test \/ Wake
  BY <1>3 DEF GetFeeds, Test, Wake, Goes, Timed, timeVars, Stages
<1>4. CASE Tick
  BY <1>4 DEF Tick, Timed
<1>5. CASE SetClock
  <2> PICK ticks \in Jumps : clock' = clock + ticks /\ jumped' = jumped + ticks
    BY <1>5 DEF SetClock
  <2> QED
    BY <1>5 DEF SetClock, Timed
<1>6. CASE UNCHANGED vars
  BY <1>6 DEF vars, timeVars, Timed
<1> QED
  BY <1>1, <1>2, <1>3, <1>4, <1>5, <1>6 DEF Next, Watch

LEMMA InvHolds == Spec => []IInv
  BY InitInv, NextInv, PTL DEF Spec

\* Every variable keeps its type; the watch time is an unsigned word.
THEOREM TypeCorrect == Spec => []TypeOK
<1>1. IInv => TypeOK
  BY DEF IInv
<1> QED
  BY <1>1, InvHolds, PTL

-----------------------------------------------------------------------------
(* The distance of two polls *)

\* No second left: the clock has reached the second of the deadline.
LEMMA DeadlineReached ==
  ASSUME IInv, stage = "test", ~(SecondsLeft > 0)
  PROVE  TicksPerSecond * m_watch_time <= clock
<1> USE ClockAssumption DEF IInv, TypeOK
<1>1. xt >= TicksPerSecond * m_watch_time
  BY Products DEF Timed
<1>2. m_watch_time <= SecondOf(xt)
  <2>1. SUFFICES ASSUME SecondOf(xt) + 1 <= m_watch_time PROVE FALSE
    BY Seconds
  <2>2. TicksPerSecond * (SecondOf(xt) + 1) <= TicksPerSecond * m_watch_time
    BY <2>1, Seconds, Monotonic
  <2>3. TicksPerSecond * (SecondOf(xt) + 1) = TicksPerSecond * SecondOf(xt) + TicksPerSecond
    BY Seconds
  <2> QED
    BY <1>1, <2>2, <2>3, Seconds, Products
<1>3. SecondOf(clock) \in Int /\ SecondOf(xt) \in Int
  BY Seconds
<1>4. m_watch_time <= SecondOf(clock)
  BY <1>2, <1>3 DEF SecondsLeft
<1>5. TicksPerSecond * m_watch_time <= TicksPerSecond * SecondOf(clock)
  BY <1>3, <1>4, Monotonic
<1> QED
  BY <1>3, <1>5, Seconds, Products

LEMMA EarlyStep ==
  IInv /\ [Next]_vars =>
    (PollsNext => elapsed + jumped > (m_watch_time - 1) * TicksPerSecond)
<1> SUFFICES ASSUME IInv, [Next]_vars, PollsNext
             PROVE  elapsed + jumped > (m_watch_time - 1) * TicksPerSecond
  OBVIOUS
<1> USE ClockAssumption DEF IInv, TypeOK
<1>1. clock = stamp + elapsed + jumped /\ xt = stamp + TicksPerSecond * m_watch_time
  BY DEF PollsNext, Timed
<1>2. TicksPerSecond * m_watch_time <= clock
  <2>1. CASE Test
    <3>1. stage = "test" /\ ~(SecondsLeft > 0)
      BY <2>1 DEF Test, Goes, PollsNext
    <3> QED
      BY <3>1, DeadlineReached
  <2>2. CASE Wake
    BY <1>1, <2>2, Products DEF Wake
  <2>3. ~(Construct \/ Stamp \/ GetFeeds \/ Tick \/ SetClock \/ UNCHANGED vars)
    BY DEF PollsNext, Construct, Stamp, GetFeeds, Tick, SetClock, Goes, vars
  <2> QED
    BY <2>1, <2>2, <2>3 DEF Next, Watch
<1>3. /\ (m_watch_time - 1) * TicksPerSecond = TicksPerSecond * m_watch_time - TicksPerSecond
      /\ TicksPerSecond * m_watch_time \in Int
  BY Products
<1> QED
  BY <1>1, <1>2, <1>3

\* Whatever the setting, the resolution of the clock and the time a cycle
\* takes, two polls are less than one second closer than the watch time, or the
\* clock was set forward by as much.
THEOREM PollsKeepTheirDistance == Spec => NeverTooEarly
  BY InvHolds, EarlyStep, PTL DEF NeverTooEarly, Spec

-----------------------------------------------------------------------------
(* Negative settings *)

LEMMA NegativeWord ==
  ASSUME NEW n \in Nat, n > 0
  PROVE  WordSize - n <= (-n) % WordSize
<1> DEFINE q == (-n) \div WordSize
           r == (-n) % WordSize
<1>1. q \in Int /\ r \in 0 .. WordSize - 1 /\ -n = WordSize * q + r
  BY ClockAssumption
<1>2. q <= -1
  <2>1. SUFFICES ASSUME q >= 0 PROVE FALSE
    BY <1>1
  <2>2. WordSize * q >= 0
    BY <1>1, <2>1, ClockAssumption
  <2>3. WordSize * q \in Int
    BY <1>1, ClockAssumption
  <2> HIDE DEF q, r
  <2> QED
    BY <1>1, <2>2, <2>3
<1>3. WordSize * q <= -WordSize
  BY <1>1, <1>2, ClockAssumption
<1>4. WordSize * q \in Int
  BY <1>1, ClockAssumption
<1> HIDE DEF q
<1>5. WordSize - n <= r
  BY <1>1, <1>3, <1>4, ClockAssumption
<1> QED
  BY <1>5

LEMMA NegativeSetting ==
  ASSUME NEW str \in Settings, Atoi(str) < 0
  PROVE  /\ Magnitude(str) \in Nat
         /\ WordSize - Magnitude(str) <= WatchTime(str)
<1>1. Magnitude(str) \in Nat
  BY MagnitudeIsNatural
<1>2. Negative(str) /\ Atoi(str) = -Magnitude(str) /\ Magnitude(str) > 0
  BY <1>1 DEF Atoi
<1>3. str # <<>>
  <2>1. SUFFICES ASSUME str = <<>> PROVE FALSE
    OBVIOUS
  <2>2. Skip(str) = {1}
    BY <2>1 DEF Skip
  <2>3. FirstOf(str) = 1
    BY <2>2 DEF FirstOf
  <2> QED
    BY <1>2, <2>1, <2>3 DEF Negative
<1>4. WatchTime(str) = (-Magnitude(str)) % WordSize
  BY <1>2, <1>3 DEF WatchTime
<1> QED
  BY <1>1, <1>2, <1>4, NegativeWord

LEMMA NegativeStep ==
  IInv /\ [Next]_vars =>
    (PollsNext /\ Atoi(setting) < 0 /\ jumped <= 0 =>
       elapsed > (WordSize - Magnitude(setting) - 1) * TicksPerSecond)
<1> SUFFICES ASSUME IInv, [Next]_vars, PollsNext, Atoi(setting) < 0, jumped <= 0
             PROVE  elapsed > (WordSize - Magnitude(setting) - 1) * TicksPerSecond
  OBVIOUS
<1> USE ClockAssumption DEF IInv, TypeOK
<1> DEFINE least == WordSize - Magnitude(setting)
<1>1. elapsed + jumped > (m_watch_time - 1) * TicksPerSecond
  BY EarlyStep
<1>2. m_watch_time = WatchTime(setting)
  BY DEF PollsNext, WatchTimeIsSet
<1>3. least \in Int /\ least <= m_watch_time
  BY <1>2, NegativeSetting
<1> HIDE DEF least
<1>4. TicksPerSecond * least <= TicksPerSecond * m_watch_time
  BY <1>3, Monotonic
<1>5. /\ (least - 1) * TicksPerSecond = TicksPerSecond * least - TicksPerSecond
      /\ (m_watch_time - 1) * TicksPerSecond = TicksPerSecond * m_watch_time - TicksPerSecond
      /\ TicksPerSecond * least \in Int /\ TicksPerSecond * m_watch_time \in Int
  BY <1>3, Products
<1>6. elapsed > (least - 1) * TicksPerSecond
  BY <1>1, <1>4, <1>5
<1> QED
  BY <1>6 DEF least

\* With a negative setting the second poll is a word of seconds, less the
\* setting's value and one, away, unless the clock is set forward.
THEOREM NegativeSettingsStop == Spec => NegativeSettingStops
  BY InvHolds, NegativeStep, PTL DEF NegativeSettingStops, Spec
=============================================================================
