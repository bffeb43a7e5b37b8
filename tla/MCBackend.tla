----------------------------- MODULE MCBackend -----------------------------
(***************************************************************************)
(* Six components of the backend that share no state, checked in one run:  *)
(* part says which of them moves.  A behaviour of all of them together is, *)
(* for each, one of its own with stuttering, so nothing is lost by taking  *)
(* them in turn.                                                           *)
(***************************************************************************)
EXTENDS RefreshTokens, LoginLockout, PasswordReset, GameSessions, Matchmaking,
        WordSuggestions, TLC

CONSTANTS w1, w2, r1, r2, l1, l2, h1, h2, g1, g2, g3

MCSkill(p) == CASE p = g1 -> 0 [] p = g2 -> 2 [] OTHER -> 4
MCWords == {<<"a", "a", "b">>, <<"a", "b", "a">>, <<"b", "a", "a">>, <<"b", "a", "c">>}

VARIABLE part

Parts == {"tokens", "lockout", "resets", "sessions", "matchmaking", "suggestions"}

allVars == <<part, tokenVars, lockVars, resetVars, sessionVars, matchmakingVars,
             suggestionVars>>

MCInit ==
    /\ part \in Parts
    /\ TokensInit /\ LockoutInit /\ ResetInit
    /\ SessionsInit /\ MatchmakingInit /\ SuggestionsInit

\* A step of part p, of which the other components see nothing.
Moves(p, Step) ==
    /\ part = p /\ Step /\ UNCHANGED part
    /\ p # "tokens" => UNCHANGED tokenVars
    /\ p # "lockout" => UNCHANGED lockVars
    /\ p # "resets" => UNCHANGED resetVars
    /\ p # "sessions" => UNCHANGED sessionVars
    /\ p # "matchmaking" => UNCHANGED matchmakingVars
    /\ p # "suggestions" => UNCHANGED suggestionVars

MCNext ==
    \/ Moves("tokens", TokensNext)
    \/ Moves("lockout", LockoutStep)
    \/ Moves("resets", ResetNext)
    \/ Moves("sessions", SessionsNext)
    \/ Moves("matchmaking", MatchmakingNext)
    \/ Moves("suggestions", SuggestionsNext)

MCSpec == MCInit /\ [][MCNext]_allVars

Symmetry == Permutations({w1, w2}) \cup Permutations({r1, r2})

-----------------------------------------------------------------------------
\* The components' variables keep their types.
BackendTypeOK ==
    /\ TokensTypeOK /\ LockoutTypeOK /\ ResetTypeOK
    /\ SessionsTypeOK /\ MatchmakingTypeOK /\ SuggestionsTypeOK
=============================================================================
