-------------------------- MODULE WordSuggestions --------------------------
(***************************************************************************)
(* Suggestions of words and the votes for them.  A vote reads the row,     *)
(* adds the user to that copy and saves it; the repository's save reads    *)
(* the row again and writes only the columns that differ from it.  Each    *)
(* action is the code between two awaits.                                  *)
(***************************************************************************)
EXTENDS Naturals, FiniteSets

CONSTANTS
    Voters,         \* users
    Calls,          \* calls in progress at one time
    Proposals       \* words users suggest that the dictionary does not have

VARIABLES
    suggestions,    \* rows of word_suggestion, a partial function of words
    call            \* per call, its next step, its word and user, its copy

\* History, read by properties only: per word, the users whose vote was
\* saved; whether a save wrote a copy older than the row (stale), and
\* whether the row changed between the two halves of a save (torn).
VARIABLES voted, stale, torn

suggestionVars == <<suggestions, call, voted, stale, torn>>

NoVotes == [voters |-> {}, voteCount |-> 0]
NoCall == [pc |-> "idle"]

SuggestionsInit ==
    /\ suggestions = [w \in {} |-> NoVotes]
    /\ call = [c \in Calls |-> NoCall]
    /\ voted = [w \in Proposals |-> {}]
    /\ stale = {} /\ torn = {}

CallAt(c, pc) == call[c].pc = pc
Proceed(c, next) == call' = [call EXCEPT ![c] = next]

-----------------------------------------------------------------------------
\* create: neither a word of the dictionary nor suggested before ...
LookUpWord(c, w) ==
    /\ CallAt(c, "idle") /\ w \notin DOMAIN suggestions
    /\ Proceed(c, [pc |-> "insert", word |-> w])
    /\ UNCHANGED <<suggestions, voted, stale, torn>>

\* ... and then the insert, which the unique column refuses to the slower one.
InsertWord(c) == LET w == call[c].word IN
    /\ CallAt(c, "insert")
    /\ suggestions' = IF w \in DOMAIN suggestions THEN suggestions
                      ELSE [v \in DOMAIN suggestions \cup {w} |->
                              IF v = w THEN NoVotes ELSE suggestions[v]]
    /\ Proceed(c, NoCall)
    /\ UNCHANGED <<voted, stale, torn>>

\* Mutant: nobody is refused a second vote.
NeverVoted(row, u) == FALSE

Voted(row, u) == u \in row.voters

WithVote(row, u) ==
    [voters |-> row.voters \cup {u}, voteCount |-> row.voteCount + 1]

\* vote reads the row and makes its copy.
ReadRow(c, w, u) ==
    /\ CallAt(c, "idle") /\ w \in DOMAIN suggestions
    /\ ~Voted(suggestions[w], u)
    /\ Proceed(c, [pc |-> "compare", word |-> w, user |-> u, read |-> suggestions[w],
                   copy |-> WithVote(suggestions[w], u)])
    /\ UNCHANGED <<suggestions, voted, stale, torn>>

\* save, first half: the columns in which the copy differs from the row.
CompareRow(c) ==
    /\ CallAt(c, "compare")
    /\ LET row == suggestions[call[c].word]
           columns == {f \in DOMAIN row : row[f] # call[c].copy[f]}
       IN  Proceed(c, [pc |-> "write", word |-> call[c].word, user |-> call[c].user,
                       read |-> call[c].read, seen |-> row, copy |-> call[c].copy,
                       columns |-> columns])
    /\ UNCHANGED <<suggestions, voted, stale, torn>>

\* save, second half: those columns are written.
WriteRow(c) == LET w == call[c].word IN
    /\ CallAt(c, "write")
    /\ suggestions' = [suggestions EXCEPT ![w] =
                         [f \in DOMAIN @ |-> IF f \in call[c].columns THEN call[c].copy[f]
                                             ELSE @[f]]]
    /\ voted' = [voted EXCEPT ![w] = @ \cup {call[c].user}]
    /\ stale' = stale \cup IF suggestions[w] = call[c].read THEN {} ELSE {w}
    /\ torn' = torn \cup IF suggestions[w] = call[c].seen THEN {} ELSE {w}
    /\ Proceed(c, NoCall)

\* An await rejects, or the process dies.
CallFails(c) ==
    /\ ~CallAt(c, "idle")
    /\ Proceed(c, NoCall)
    /\ UNCHANGED <<suggestions, voted, stale, torn>>

SuggestionsNext == \E c \in Calls :
    \/ \E w \in Proposals : LookUpWord(c, w) \/ \E u \in Voters : ReadRow(c, w, u)
    \/ InsertWord(c) \/ CompareRow(c) \/ WriteRow(c) \/ CallFails(c)

SuggestionsSpec == SuggestionsInit /\ [][SuggestionsNext]_suggestionVars

-----------------------------------------------------------------------------
SuggestionsTypeOK ==
    /\ DOMAIN suggestions \subseteq Proposals
    /\ \A w \in DOMAIN suggestions : suggestions[w] \in [voters : SUBSET Voters, voteCount : Nat]
    /\ \A c \in Calls : CallAt(c, "idle") \/ call[c].word \in Proposals
    /\ voted \in [Proposals -> SUBSET Voters]
    /\ stale \subseteq Proposals /\ torn \subseteq stale

\* Every vote that was saved is kept, and nobody votes twice, unless a save
\* wrote a copy older than the row; and the number of votes is the number of
\* voters even then, unless the row changed between the halves of a save.
VotesKept ==
    \A w \in DOMAIN suggestions :
        /\ suggestions[w].voters \subseteq voted[w]
        /\ w \notin stale => suggestions[w].voters = voted[w]
        /\ w \notin torn => suggestions[w].voteCount = Cardinality(suggestions[w].voters)
=============================================================================
