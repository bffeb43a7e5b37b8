----------------------------- MODULE MCIndexer -----------------------------
(* Model-checking instance of Indexer: short chains of events.             *)
EXTENDS Indexer, TLC

CONSTANTS s1, s2

At(ledger, tx, index, session) ==
    [ledger |-> ledger, tx |-> tx, index |-> index, session |-> session, valid |-> TRUE]

Refused(ledger, tx) ==
    [ledger |-> ledger, tx |-> tx, index |-> 1, session |-> NoSession, valid |-> FALSE]

\* A ledger with one event, then one with two valid ones and a malformed one.
BusyChain == {At(1, 1, 2, s1), At(2, 2, 1, s2), At(2, 3, 2, NoSession), Refused(2, 4)}

\* The last valid event: posted early, it stands ahead of the others.
EarlyPost == {At(2, 3, 2, NoSession)}

\* Ledgers with a valid and a malformed event, two valid ones, a valid one.
SerialChain == {At(1, 1, 1, s1), Refused(1, 2), At(2, 3, 1, NoSession), At(2, 3, 2, s2),
                At(3, 4, 1, NoSession)}

\* One valid event per ledger.
ShortChain == {At(1, 1, 1, s1), At(2, 2, 2, s2)}

\* A ledger with one event, then one with two.
CutChain == {At(1, 1, 1, s1), At(2, 2, 1, s2), At(2, 3, 1, NoSession)}

\* A malformed event ahead of a valid one.
ClutteredChain == {Refused(1, 1), At(2, 2, 2, s2)}

PostedEvents == {At(1, 1, 1, s1)}

NoPosts == {}

\* A failure or a reset, not both.
OneMishap == failures + resets <= 1

Symmetry == Permutations(Workers)
=============================================================================
