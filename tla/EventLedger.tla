----------------------------- MODULE EventLedger -----------------------------
(***************************************************************************)
(* What the indexer promises of its two tables, whatever happens to polls, *)
(* workers and cursors: an event gets one row in ingested_events, is       *)
(* projected only once it has its row, and at most once in its life; the   *)
(* read model gains no session by any other way.                           *)
(***************************************************************************)
EXTENDS Naturals

CONSTANTS Events, SessionsOf(_)

VARIABLES
    rows,           \* events that have a row
    projections,    \* sessions the read model shows
    applied         \* how often each event was applied to the read model

ledgerVars == <<rows, projections, applied>>

Init ==
    /\ rows = {}
    /\ projections = {}
    /\ applied = [e \in Events |-> 0]

Append(e) ==
    /\ e \notin rows
    /\ rows' = rows \cup {e}
    /\ UNCHANGED <<projections, applied>>

Project(e) ==
    /\ e \in rows
    /\ applied[e] = 0
    /\ applied' = [applied EXCEPT ![e] = 1]
    /\ projections' = projections \cup SessionsOf(e)
    /\ UNCHANGED rows

\* An operator clears the read model; the rows stay.
Clear ==
    /\ projections' = {}
    /\ UNCHANGED <<rows, applied>>

Next == Clear \/ \E e \in Events : Append(e) \/ Project(e)

Spec == Init /\ [][Next]_ledgerVars
=============================================================================
