--------------------------- MODULE CairoDeWordle ---------------------------
(***************************************************************************)
(* The Starknet contract: one transaction per call, all or nothing.  Time  *)
(* is counted in parts of a day, Day of them to the day.  A wrong guess    *)
(* reads the letters of the word, which only an admin may do, and compares *)
(* them with the guess, which fails once a second word was appended to     *)
(* them: every other wrong guess reverts and leaves no trace.              *)
(***************************************************************************)
EXTENDS Naturals, FiniteSets, FiniteSetsExt

CONSTANTS
    Callers,        \* accounts that play
    Admins,         \* those with ADMIN_ROLE
    Day,            \* SECONDS_IN_A_DAY, in parts of a day
    Attempts,       \* six in the code
    MaxTime         \* bound: the block timestamp

ASSUME CairoAssumption ==
    Day \in Nat \ {0} /\ Attempts \in Nat /\ MaxTime \in Nat /\ Day <= MaxTime + 1

VARIABLES
    timestamp,      \* block timestamp
    end_of_day,     \* end_of_day_timestamp
    letters,        \* words in letters_in_word, 2 for more than one
    stat,           \* daily_player_stat: [left, won]
    streaks, max_streaks, last_played

\* History, read by properties only: per player, the ends of day won under.
VARIABLE won_ends

cairoVars == <<timestamp, end_of_day, letters, stat, streaks, max_streaks, last_played, won_ends>>

Fresh == [left |-> Attempts, won |-> FALSE]
NextMidnight == timestamp - (timestamp % Day) + Day

CairoInit ==
    /\ timestamp \in 0 .. Day - 1
    /\ end_of_day = NextMidnight
    /\ letters = 0
    /\ stat = [p \in Callers |-> [left |-> 0, won |-> FALSE]]
    /\ streaks = [p \in Callers |-> 0] /\ max_streaks = streaks /\ last_played = streaks
    /\ won_ends = [p \in Callers |-> {}]

-----------------------------------------------------------------------------
DayOver == timestamp >= end_of_day

\* set_daily_word appends the letters; the day ends a full day from now.
SetDailyWord ==
    /\ DayOver
    /\ letters' = IF letters < 2 THEN letters + 1 ELSE 2
    /\ end_of_day' = timestamp + Day
    /\ UNCHANGED <<timestamp, stat, streaks, max_streaks, last_played, won_ends>>

PlayDay(p) ==
    /\ stat' = [stat EXCEPT ![p] = Fresh]
    /\ UNCHANGED <<timestamp, end_of_day, letters, streaks, max_streaks, last_played, won_ends>>

UpdateEndOfDay ==
    /\ DayOver
    /\ end_of_day' = NextMidnight
    /\ UNCHANGED <<timestamp, letters, stat, streaks, max_streaks, last_played, won_ends>>

\* The first guess after the end moves it, and refreshes this caller only.
Today == IF DayOver THEN NextMidnight ELSE end_of_day
StatOf(p) == IF DayOver THEN Fresh ELSE stat[p]

MayGuess(p) == ~StatOf(p).won /\ StatOf(p).left > 0

\* The streak once a skipped day has been taken into account.
KeptStreak(p) == IF Today > last_played[p] + Day THEN 0 ELSE streaks[p]

\* Mutant: every win extends the streak.
EachWin(p) == TRUE

FirstWin(p) == Today > last_played[p]

GuessRight(p) == LET streak == KeptStreak(p) + IF FirstWin(p) THEN 1 ELSE 0 IN
    /\ MayGuess(p)
    /\ end_of_day' = Today
    /\ streaks' = [streaks EXCEPT ![p] = streak]
    /\ max_streaks' = [max_streaks EXCEPT ![p] = IF FirstWin(p) /\ streak > @ THEN streak ELSE @]
    /\ last_played' = [last_played EXCEPT ![p] = IF FirstWin(p) THEN Today ELSE @]
    /\ stat' = [stat EXCEPT ![p] = [left |-> StatOf(p).left - 1, won |-> TRUE]]
    /\ won_ends' = [won_ends EXCEPT ![p] = @ \cup {Today}]
    /\ UNCHANGED <<timestamp, letters>>

GuessWrong(p) ==
    /\ MayGuess(p)
    /\ p \in Admins /\ letters = 1
    /\ end_of_day' = Today
    /\ streaks' = [streaks EXCEPT ![p] = KeptStreak(p)]
    /\ stat' = [stat EXCEPT ![p] = [left |-> StatOf(p).left - 1, won |-> FALSE]]
    /\ UNCHANGED <<timestamp, letters, max_streaks, last_played, won_ends>>

Tick ==
    /\ timestamp < MaxTime
    /\ timestamp' = timestamp + 1
    /\ UNCHANGED <<end_of_day, letters, stat, streaks, max_streaks, last_played, won_ends>>

CairoNext ==
    \/ SetDailyWord \/ UpdateEndOfDay \/ Tick
    \/ \E p \in Callers : PlayDay(p) \/ GuessRight(p) \/ GuessWrong(p)

CairoSpec == CairoInit /\ [][CairoNext]_cairoVars

-----------------------------------------------------------------------------
CairoTypeOK ==
    /\ timestamp \in 0 .. MaxTime /\ end_of_day \in 0 .. MaxTime + Day /\ letters \in 0 .. 2
    /\ stat \in [Callers -> [left : 0 .. Attempts, won : BOOLEAN]]
    /\ streaks \in [Callers -> Nat] /\ max_streaks \in [Callers -> Nat]
    /\ last_played \in [Callers -> 0 .. MaxTime + Day]

\* The last wins of W that follow each other within a day.
Chain(W) == Cardinality({e \in W : \A x \in W : e <= x /\ x # Max(W) =>
                                        \E y \in W : x < y /\ y <= x + Day})

\* A streak is the run of days won that leads to the last one won, counted in
\* ends of day at most a day apart whoever moved them, or 0 after a skipped
\* day: winning again on one day after play() adds nothing.  The best streak is
\* never below the current one, nor above the number of days won.
StreakIsChain ==
    \A p \in Callers :
        /\ streaks[p] \in {0, Chain(won_ends[p])}
        /\ streaks[p] <= max_streaks[p] /\ max_streaks[p] <= Cardinality(won_ends[p])
=============================================================================
