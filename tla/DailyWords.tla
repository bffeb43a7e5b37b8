----------------------------- MODULE DailyWords -----------------------------
(***************************************************************************)
(* The word of the day: rotations at startup, by cron and by hand, which   *)
(* read in one statement and write in another (READ COMMITTED), and the    *)
(* dictionary cache that follows the table.  Words are numbered in order   *)
(* of createdAt, the order in which they are picked.                       *)
(***************************************************************************)
EXTENDS Naturals, Sequences, FiniteSets, FiniteSetsExt

CONSTANTS
    Rotations,      \* rotations in progress at one time, of every instance
    InitialWords,   \* words in the table at first
    MaxWords,       \* bound: words in the table
    MaxDays,        \* bound: days
    MaxOverlaps,    \* bound: rotations of a day begun while another runs
    MaxReloads      \* bound: cache reloads in progress at one time

ASSUME DailyAssumption ==
    /\ IsFiniteSet(Rotations) /\ InitialWords \in Nat /\ MaxDays \in Nat \ {0}
    /\ MaxWords \in Nat /\ InitialWords <= MaxWords

VARIABLES
    words,          \* rows of word: [daily, date], date 0 for null
    today,          \* the puzzle day
    rotation,       \* where each rotation is, and what it has read
    cached,         \* the cache holds the first words up to this one
    reloads         \* what the reloads in progress have read

\* History, read by properties only.
VARIABLES
    overlaps,       \* per day, rotations begun while another of the day ran
    served,         \* days a rotation has completed with a word
    emptied,        \* days a rotation has left without a word, the pool being exhausted
    crossed         \* a rotation was in progress when its day ended

wordVars == <<words, today, rotation, overlaps, served, emptied, crossed>>
cacheVars == <<cached, reloads>>
dailyVars == <<wordVars, cacheVars>>

Unused == [daily |-> FALSE, date |-> 0]
Dated(d) == {i \in DOMAIN words : words[i].date = d}
Running(r) == rotation[r].pc # "idle"

\* A rotation at step pc for day d; word is what it will flag, prev what it frees.
Place(pc, d, word, prev) == [pc |-> pc, day |-> d, word |-> word, prev |-> prev, all |-> FALSE]
NoRotation == Place("idle", 0, 0, 0)

DailyInit ==
    /\ words = [i \in 1 .. InitialWords |-> Unused]
    /\ today = 1
    /\ rotation = [r \in Rotations |-> NoRotation]
    /\ cached = 0 /\ reloads = {}
    /\ overlaps = [d \in 1 .. MaxDays |-> 0]
    /\ served = {} /\ emptied = {} /\ crossed = FALSE

-----------------------------------------------------------------------------
\* Rows that a transaction in progress has written and not yet committed.
RowsLocked(r) == UNION {IF rotation[q].all THEN DOMAIN words ELSE {rotation[q].prev} :
                       q \in {q \in Rotations \ {r} : rotation[q].pc = "swap"}}

MoveTo(r, place) == rotation' = [rotation EXCEPT ![r] = place]

Begin(r, place) ==
    LET others == \E q \in Rotations \ {r} : Running(q) /\ rotation[q].day = today IN
    /\ ~Running(r)
    /\ others => overlaps[today] < MaxOverlaps
    /\ overlaps' = [overlaps EXCEPT ![today] = IF others THEN @ + 1 ELSE @]
    /\ MoveTo(r, place)

\* Mutant: the rotation does not look for a word of the day first.
NeverExisting == {}

Existing == Dated(today)

\* ensureTodayWord, at startup, by cron or as a retry: a day with a word is left alone.
BeginDaily(r) ==
    /\ Existing = {}
    /\ Begin(r, Place("find", today, 0, 0))
    /\ UNCHANGED <<words, today, served, emptied, crossed, cacheVars>>

FindUnused(r) == LET unused == {i \in DOMAIN words : ~words[i].daily} IN
    /\ rotation[r].pc = "find"
    /\ MoveTo(r, IF unused = {} THEN Place("reset", rotation[r].day, 0, 0)
                                ELSE Place("flag", rotation[r].day, Min(unused), 0))
    /\ UNCHANGED <<words, today, overlaps, served, emptied, crossed, cacheVars>>

Flag(ws, i, d) == [ws EXCEPT ![i] = [daily |-> TRUE, date |-> d]]

FlagWord(r) == LET at == rotation[r] IN
    /\ at.pc = "flag" /\ at.word \notin RowsLocked(r)
    /\ words' = Flag(words, at.word, at.day)
    /\ served' = served \cup {at.day}
    /\ MoveTo(r, NoRotation)
    /\ UNCHANGED <<today, overlaps, emptied, crossed, cacheVars>>

AllUnused(ws) == [i \in DOMAIN ws |-> [ws[i] EXCEPT !.daily = FALSE]]

\* The pool is exhausted: every flag is cleared, and the day gets no word.
ResetPool(r) ==
    /\ rotation[r].pc = "reset" /\ RowsLocked(r) = {}
    /\ words' = AllUnused(words)
    /\ emptied' = emptied \cup {rotation[r].day}
    /\ MoveTo(r, NoRotation)
    /\ UNCHANGED <<today, overlaps, served, crossed, cacheVars>>

-----------------------------------------------------------------------------
\* rotateNow reads the word of the day, outside its transaction.
BeginManual(r) ==
    /\ \/ Dated(today) = {} /\ Begin(r, Place("free", today, 0, 0))
       \/ \E i \in Dated(today) : Begin(r, Place("free", today, 0, i))
    /\ UNCHANGED <<words, today, served, emptied, crossed, cacheVars>>

FreeWord(ws, i) == IF i = 0 THEN ws ELSE [ws EXCEPT ![i] = Unused]

\* It frees that word and picks the oldest unused one it sees, clearing every
\* flag when there is none; nothing of it is committed yet.  Without any word it
\* throws (RotationFails).
FreeAndFind(r) ==
    LET at == rotation[r]
        seen == FreeWord(words, at.prev)
        unused == {i \in DOMAIN words : ~seen[i].daily} IN
    /\ at.pc = "free" /\ words # << >> /\ at.prev \notin RowsLocked(r)
    /\ unused = {} => RowsLocked(r) = {}
    /\ MoveTo(r, [at EXCEPT !.pc = "swap", !.all = unused = {},
                            !.word = Min(IF unused = {} THEN DOMAIN words ELSE unused)])
    /\ UNCHANGED <<words, today, overlaps, served, emptied, crossed, cacheVars>>

CommitManual(r) ==
    LET at == rotation[r]
        freed == FreeWord(words, at.prev) IN
    /\ at.pc = "swap" /\ at.word \notin RowsLocked(r)
    /\ words' = Flag(IF at.all THEN AllUnused(freed) ELSE freed, at.word, at.day)
    /\ served' = served \cup {at.day}
    /\ MoveTo(r, NoRotation)
    /\ UNCHANGED <<today, overlaps, emptied, crossed, cacheVars>>

\* A statement fails, a deadlock is broken or the process stops: rolled back.
RotationFails(r) ==
    /\ Running(r)
    /\ MoveTo(r, NoRotation)
    /\ UNCHANGED <<words, today, overlaps, served, emptied, crossed, cacheVars>>

NextDay ==
    /\ today < MaxDays
    /\ today' = today + 1
    /\ crossed' = (crossed \/ \E r \in Rotations : Running(r))
    /\ UNCHANGED <<words, rotation, overlaps, served, emptied, cacheVars>>

\* createWord: no event follows, the cache is not told.
CreateWord ==
    /\ Len(words) < MaxWords
    /\ words' = Append(words, Unused)
    /\ UNCHANGED <<today, rotation, overlaps, served, emptied, crossed, cacheVars>>

-----------------------------------------------------------------------------
\* Mutant: reconcile only fills an empty cache.
EmptyCache == cached = 0

Drift == Len(words) # cached

\* reconcile and onModuleInit: on a difference in number, read the table ...
ReadDictionary ==
    /\ Drift /\ Cardinality(reloads) < MaxReloads
    /\ reloads' = reloads \cup {Len(words)}
    /\ UNCHANGED <<wordVars, cached>>

\* ... and replace the cache by what was read then.
ReplaceCache(n) ==
    /\ n \in reloads
    /\ cached' = n
    /\ reloads' = reloads \ {n}
    /\ UNCHANGED wordVars

DailyNext ==
    \/ \E r \in Rotations :
        \/ BeginDaily(r) \/ FindUnused(r) \/ FlagWord(r) \/ ResetPool(r)
        \/ BeginManual(r) \/ FreeAndFind(r) \/ CommitManual(r) \/ RotationFails(r)
    \/ NextDay
    \/ CreateWord
    \/ ReadDictionary
    \/ \E n \in 0 .. MaxWords : ReplaceCache(n)

DailySpec == DailyInit /\ [][DailyNext]_dailyVars

-----------------------------------------------------------------------------
DailyTypeOK ==
    /\ words \in Seq([daily : BOOLEAN, date : 0 .. MaxDays])
    /\ today \in 1 .. MaxDays
    /\ \A r \in Rotations : rotation[r].pc \in {"idle", "find", "flag", "reset", "free", "swap"}
    /\ cached \in 0 .. MaxWords /\ reloads \subseteq 0 .. MaxWords

\* A day has one word, and each further one is owed to a rotation that began
\* while another of the same day was under way; and a day some rotation
\* completed keeps a word while it lasts, through failures, retries, manual
\* rotations and an exhausted pool, unless a rotation outlived its day.  A day
\* that an exhausted pool has left without a word finds one at the next trigger:
\* there is a free one as long as it has none.
OneWordPerDay ==
    /\ \A d \in 1 .. MaxDays : Cardinality(Dated(d)) <= 1 + overlaps[d]
    /\ today \in served /\ ~crossed => Dated(today) # {}
    /\ today \in emptied /\ ~crossed /\ words # << >> /\ Dated(today) = {}
          => \E i \in DOMAIN words : ~words[i].daily

\* Once no more words are created, the cache settles on the whole dictionary,
\* though reloads overlap and an older one may finish last.
CacheConverges == <>[](cached = Len(words))
=============================================================================
