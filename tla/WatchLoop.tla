----------------------------- MODULE WatchLoop -----------------------------
(***************************************************************************)
(* When feed_watcher::watch polls: the deadline is the time before          *)
(* get_feeds() plus the watch time, and after it the loop sleeps until the  *)
(* deadline if whole seconds are left.  The time is the wall clock, which   *)
(* somebody may set in the meantime.                                       *)
(*                                                                         *)
(* A setting is a sequence of digits and other symbols; a second has        *)
(* TicksPerSecond ticks.  The clock counts from the second of the last      *)
(* stamp, so that its values stay small.                                   *)
(***************************************************************************)
EXTENDS Integers, Sequences

CONSTANTS
  Settings,        \* what m_watch_cycle may hold
  TicksPerSecond,
  WordSize,        \* m_watch_time is an unsigned int: 2^32, less in an instance
  MaxWork,         \* bound: ticks of one get_feeds()
  Jumps,           \* by how many ticks the clock may be set
  MaxJumps         \* bound: how often in one cycle

Digits == 0 .. 9
Minus == 10
Space == 11
Letter == 12
Symbols == 0 .. 12

ASSUME SettingsAssumption == Settings \subseteq Seq(Symbols)
ASSUME ClockAssumption == TicksPerSecond \in Nat \ {0} /\ WordSize \in Nat \ {0} /\ Jumps \subseteq Int
ASSUME WatchBoundsAssumption == MaxWork \in Nat /\ MaxJumps \in Nat

VARIABLES
  setting,        \* configuration::m_watch_cycle
  m_watch_time,
  stage,          \* where watch() is
  clock,          \* what xtime_get returns
  stamp,          \* history: the clock when the cycle began
  xt,             \* the deadline
  elapsed,        \* history: ticks since the cycle began
  jumped,         \* history: the sum of the jumps since then
  jumps

timeVars == <<clock, stamp, xt, elapsed, jumped, jumps>>
vars == <<setting, m_watch_time, stage, timeVars>>

-----------------------------------------------------------------------------
(* feed_watcher::feed_watcher *)

Skip(str) == {i \in 1 .. Len(str) + 1 : \A k \in 1 .. i - 1 : str[k] = Space}

\* The first symbol that is no white space, or the end.
FirstOf(str) == CHOOSE i \in Skip(str) : \A k \in Skip(str) : k <= i

Negative(str) == FirstOf(str) <= Len(str) /\ str[FirstOf(str)] = Minus

\* Whether the symbol at i is one of the digits that count: those that follow,
\* up to the first other symbol.
Counts(str, i) ==
  LET from == IF Negative(str) THEN FirstOf(str) + 1 ELSE FirstOf(str)
  IN from <= i /\ \A k \in DOMAIN str : from <= k /\ k <= i => str[k] \in Digits

Magnitude(str) ==
  LET value[i \in 0 .. Len(str)] ==
        IF i = 0 THEN 0
        ELSE IF Counts(str, i) THEN 10 * value[i - 1] + str[i] ELSE value[i - 1]
  IN value[Len(str)]

Atoi(str) == IF Negative(str) THEN -Magnitude(str) ELSE Magnitude(str)

\* (mutation) m_watch_time would be an int.
WatchTimeSigned(str) == IF str # <<>> THEN Atoi(str) ELSE 300

\* The conversion from int to unsigned int.
WatchTime(str) == (IF str # <<>> THEN Atoi(str) ELSE 300) % WordSize

Stages == {"construct", "stamp", "feeds", "test", "sleep"}

TypeOK ==
  /\ setting \in Settings
  /\ m_watch_time \in 0 .. WordSize - 1
  /\ stage \in Stages
  /\ clock \in Int /\ xt \in Int /\ jumped \in Int
  /\ stamp \in 0 .. TicksPerSecond - 1
  /\ elapsed \in Nat
  /\ jumps \in 0 .. MaxJumps

Init ==
  /\ setting \in Settings
  /\ m_watch_time = 0
  /\ stage = "construct"
  /\ clock \in 0 .. TicksPerSecond - 1
  /\ stamp = 0 /\ xt = 0 /\ elapsed = 0 /\ jumped = 0 /\ jumps = 0

Goes(from, to) == stage = from /\ stage' = to

Construct ==
  /\ Goes("construct", "stamp")
  /\ m_watch_time' = WatchTime(setting)
  /\ UNCHANGED <<setting, timeVars>>

-----------------------------------------------------------------------------
(* feed_watcher::watch *)

\* (mutation) The next deadline would follow the last one, not the clock.
StampFromDeadline ==
  /\ Goes("stamp", "feeds")
  /\ clock' = clock % TicksPerSecond
  /\ stamp' = clock'
  /\ xt' = xt - (clock - clock') + m_watch_time * TicksPerSecond
  /\ elapsed' = 0 /\ jumped' = 0 /\ jumps' = 0
  /\ UNCHANGED <<setting, m_watch_time>>

Stamp ==
  /\ Goes("stamp", "feeds")
  /\ clock' = clock % TicksPerSecond
  /\ stamp' = clock'
  /\ xt' = clock' + m_watch_time * TicksPerSecond
  /\ elapsed' = 0 /\ jumped' = 0 /\ jumps' = 0
  /\ UNCHANGED <<setting, m_watch_time>>

\* Modelled by module FeedWatcher; here it only takes its time.
GetFeeds ==
  /\ Goes("feeds", "test")
  /\ UNCHANGED <<setting, m_watch_time, timeVars>>

\* xtime.sec
SecondOf(ticks) == ticks \div TicksPerSecond
SecondsLeft == SecondOf(xt) - SecondOf(clock)

Test ==
  /\ Goes("test", IF SecondsLeft > 0 THEN "sleep" ELSE "stamp")
  /\ UNCHANGED <<setting, m_watch_time, timeVars>>

\* (mutation) The loop would be around the stamp and the sleep only.
WakeStampsAgain ==
  /\ Goes("sleep", "test")
  /\ clock >= xt
  /\ clock' = clock % TicksPerSecond
  /\ stamp' = clock'
  /\ xt' = clock' + m_watch_time * TicksPerSecond
  /\ elapsed' = 0 /\ jumped' = 0 /\ jumps' = 0
  /\ UNCHANGED <<setting, m_watch_time>>

\* boost::thread::sleep returns when the clock has reached the deadline.
Wake ==
  /\ Goes("sleep", "stamp")
  /\ clock >= xt
  /\ UNCHANGED <<setting, m_watch_time, timeVars>>

-----------------------------------------------------------------------------
(* The time *)

Tick ==
  /\ \/ stage = "feeds" /\ elapsed < MaxWork
     \/ stage = "sleep" /\ clock < xt
  /\ clock' = clock + 1
  /\ elapsed' = elapsed + 1
  /\ UNCHANGED <<setting, m_watch_time, stage, stamp, xt, jumped, jumps>>

\* Somebody sets the clock.
SetClock ==
  /\ stage \in {"feeds", "sleep"}
  /\ jumps < MaxJumps
  /\ jumps' = jumps + 1
  /\ \E ticks \in Jumps : clock' = clock + ticks /\ jumped' = jumped + ticks
  /\ UNCHANGED <<setting, m_watch_time, stage, stamp, xt, elapsed>>

Watch == Construct \/ Stamp \/ GetFeeds \/ Test \/ Wake

Next == Watch \/ Tick \/ SetClock

Spec == Init /\ [][Next]_vars

\* The thread runs, and time passes while it sleeps.
FairSpec == Spec /\ WF_vars(Watch) /\ WF_vars(Tick)

-----------------------------------------------------------------------------
(* Properties *)

PollsNext == stage \in {"test", "sleep"} /\ stage' = "stamp"

\* Between two polls lies the watch time, up to one second less: a cycle that
\* took all but a part of a second goes on without a pause.  A clock that is
\* set forward shortens the pause by as much.
NeverTooEarly ==
  [][PollsNext => elapsed + jumped > (m_watch_time - 1) * TicksPerSecond]_vars

\* A negative setting is a watch time of 2^32 seconds less its value: the
\* second poll comes after 136 years, unless the clock is set.
NegativeSettingStops ==
  [][PollsNext /\ Atoi(setting) < 0 /\ jumped <= 0 =>
       elapsed > (WordSize - Magnitude(setting) - 1) * TicksPerSecond]_vars

\* However the clock is set, finitely often in a cycle, the feeds are polled
\* again.
PollsAgain == []<>(stage = "feeds")
=============================================================================
