----------------------------- MODULE MCCoreGame -----------------------------
(* Model-checking instance of CoreGame: symmetry over players and nonces,  *)
(* and the two regions of its state space that the run explores.           *)
EXTENDS CoreGame, TLC

Symmetry == Permutations(Players) \cup Permutations(Nonces)

SessionsOf(p) == {id \in DOMAIN sessions : id.player = p}

\* Any configuration of the days, each player with one session, early ledgers.
RulesRegion ==
    /\ now <= 3
    /\ \A p \in Players : Cardinality(SessionsOf(p)) <= 1
    /\ Cardinality({id.nonce : id \in DOMAIN sessions}) <= 1
    /\ \A d \in DOMAIN dayConfig : dayConfig[d].closes_at <= 2

\* One player opening and settling sessions of one attempt on one day's puzzle.
StreaksRegion ==
    /\ ~paused
    /\ \E p \in Players : \A q \in Players \ {p} : SessionsOf(q) = {}
    /\ DOMAIN dayConfig \subseteq {1}
    /\ \A d \in DOMAIN dayConfig :
          dayConfig[d] = [max_attempts |-> 1, closes_at |-> MaxTime]
    /\ \A id \in DOMAIN sessions : id.day = 1 /\ sessions[id].max_attempts = 1

\* No entry point reads the rotation interval or the metadata: they are changed
\* only before the first day is published.
SettledFirst ==
    DOMAIN dayConfig # {} => rotateSchedule = SecondsPerDay /\ metadata # "updated"

Explored == SettledFirst /\ (RulesRegion \/ StreaksRegion)
=============================================================================
