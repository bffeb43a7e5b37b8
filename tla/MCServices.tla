----------------------------- MODULE MCServices -----------------------------
(***************************************************************************)
(* Eight components that share no state, checked in one run: part says     *)
(* which of them moves.  A behaviour of all of them together is, for each, *)
(* one of its own with stuttering, so nothing is lost by taking them in    *)
(* turn.                                                                   *)
(***************************************************************************)
EXTENDS DailyWords, Digest, OfflineSync, WalletTx, Achievements, CairoDeWordle,
        DwtToken, SessionSync, TLC

CONSTANTS x1, x2, x3

MCTwo == {x1, x2}
MCThree == {x1, x2, x3}
MCOne == {x1}

VARIABLE part

Parts == {"words", "digest", "sync", "wallet", "achievements", "cairo", "token",
          "devices"}

allVars == <<part, dailyVars, digestVars, syncVars, walletVars, achievementVars,
             cairoVars, dwtVars, deviceVars>>

\* Where a component does not move, one of its initial states is enough.
MCInit ==
    /\ part \in Parts
    /\ DailyInit /\ DigestInit /\ SyncInit /\ WalletInit /\ AchievementsInit
    /\ CairoInit /\ DwtInit /\ DevicesInit
    /\ part # "sync" => online
    /\ part # "cairo" => timestamp = 0

\* A step of part p, of which the other components see nothing.
Moves(p, Step) ==
    /\ part = p /\ Step /\ UNCHANGED part
    /\ p # "words" => UNCHANGED dailyVars
    /\ p # "digest" => UNCHANGED digestVars
    /\ p # "sync" => UNCHANGED syncVars
    /\ p # "wallet" => UNCHANGED walletVars
    /\ p # "achievements" => UNCHANGED achievementVars
    /\ p # "cairo" => UNCHANGED cairoVars
    /\ p # "token" => UNCHANGED dwtVars
    /\ p # "devices" => UNCHANGED deviceVars

MCNext ==
    \/ Moves("words", DailyNext)
    \/ Moves("digest", DigestNext)
    \/ Moves("sync", SyncNext)
    \/ Moves("wallet", WalletNext)
    \/ Moves("achievements", AchievementsNext)
    \/ Moves("cairo", CairoNext)
    \/ Moves("token", DwtNext)
    \/ Moves("devices", DevicesNext)

\* The cache's interval keeps firing and its queries return.
MCSpec ==
    /\ MCInit /\ [][MCNext]_allVars
    /\ WF_allVars(Moves("words", ReadDictionary))
    /\ \A n \in 0 .. MaxWords : WF_allVars(Moves("words", ReplaceCache(n)))

\* Bound of the devices, for the other parts no bound: three exchanges at a
\* time, and no session of x2 ended; where x1 loads its page twice, to have
\* pushed two sessions, x2 only follows, else each device loads it once.
Explored ==
    /\ Cardinality({x \in Devices \X Syncs : exchange[x[1]][x[2]] # NoExchange}) <= 3
    /\ ~page[x2].done
    /\ \/ \A d \in Devices : mounts[d] <= 1
       \/ mounts[x2] <= 1 /\ page[x2] = NoRecord /\ ~page[x1].done

-----------------------------------------------------------------------------
\* The components' variables keep their types.
ServicesTypeOK ==
    /\ DailyTypeOK /\ DigestTypeOK /\ SyncTypeOK
    /\ WalletTypeOK /\ AchievementsTypeOK /\ CairoTypeOK /\ DwtTypeOK
    /\ DevicesTypeOK

\* Once no more words are created, the cache settles on the whole dictionary,
\* though reloads overlap and an older one may finish last (CacheConverges,
\* asked of the part that has a cache to move).
CacheSettles == part = "words" => CacheConverges
=============================================================================
