------------------------------ MODULE WalletTx ------------------------------
(***************************************************************************)
(* Gameplay transactions of the page: one at a time by an in-flight ref,   *)
(* with a snapshot of the last one on display, while the player may reset  *)
(* the page, disconnect, connect again or switch the account in the wallet *)
(* extension, which is only noticed by a poll when the page is focused.    *)
(* The network guard of execute only refuses, and is left out.             *)
(***************************************************************************)
EXTENDS Naturals, FiniteSets

CONSTANTS
    Accounts,       \* accounts of the wallet extension
    NoAccount,      \* undefined address
    Txs,            \* executes in progress at one time
    MaxPolls,       \* bound: polls in progress at one time
    MaxAbandoned    \* bound: transactions abandoned

VARIABLES
    address,        \* address, NoAccount after a disconnect
    connected,
    polls,          \* getAddress calls in progress: [from, got]
    inFlight,       \* inFlightRef
    tx,             \* per execute: where it is and whose it is
    snapshot        \* [account, left]: the transaction on display, if any

\* History, read by properties only.
VARIABLES
    abandoned,      \* times a reset or a switch freed a lock that was held
    reconnected     \* the address changed by connect or disconnect

walletVars == <<address, connected, polls, inFlight, tx, snapshot, abandoned, reconnected>>

NoSnapshot == {}
NoTx == [pc |-> "idle", account |-> NoAccount, left |-> FALSE]
Active == {t \in Txs : tx[t].pc # "idle"}

WalletInit ==
    /\ address = NoAccount /\ connected = FALSE
    /\ polls = {} /\ inFlight = FALSE
    /\ tx = [t \in Txs |-> NoTx]
    /\ snapshot = NoSnapshot
    /\ abandoned = 0 /\ reconnected = FALSE

-----------------------------------------------------------------------------
\* The player may select another account in the extension at any time, so any
\* account may be its answer, and another answer may have overtaken it.
Connect(a) ==
    /\ connected' = TRUE /\ address' = a
    /\ reconnected' = (reconnected \/ (address # a /\ (snapshot # NoSnapshot \/ Active # {})))
    /\ UNCHANGED <<polls, inFlight, tx, snapshot, abandoned>>

\* disconnect leaves the lock and the snapshot alone.
Disconnect ==
    /\ connected
    /\ connected' = FALSE /\ address' = NoAccount
    /\ reconnected' = (reconnected \/ snapshot # NoSnapshot \/ Active # {})
    /\ UNCHANGED <<polls, inFlight, tx, snapshot, abandoned>>

\* checkForAccountSwitch, with the address it compares to in its closure ...
Poll(a) ==
    /\ connected /\ Cardinality(polls) < MaxPolls
    /\ polls' = polls \cup {[from |-> address, got |-> a]}
    /\ UNCHANGED <<address, connected, inFlight, tx, snapshot, abandoned, reconnected>>

\* The lock is freed and the snapshot cleared, whatever is still in progress.
Abandon ==
    /\ inFlight => abandoned < MaxAbandoned
    /\ abandoned' = abandoned + IF inFlight THEN 1 ELSE 0
    /\ inFlight' = FALSE
    /\ snapshot' = NoSnapshot
    /\ tx' = [t \in Txs |-> [tx[t] EXCEPT !.left = t \in Active]]

\* ... and when the answer differs, the listeners of the switch.
PollAnswer(p) ==
    /\ p \in polls
    /\ polls' = polls \ {p}
    /\ IF p.got = p.from THEN UNCHANGED <<address, inFlight, tx, snapshot, abandoned>>
                         ELSE address' = p.got /\ Abandon
    /\ UNCHANGED <<connected, reconnected>>

Reset ==
    /\ Abandon
    /\ UNCHANGED <<address, connected, polls, reconnected>>

-----------------------------------------------------------------------------
\* Mutant: the in-flight ref is not consulted.
Never == FALSE

Busy == inFlight

\* execute up to the signature.
Execute(t) ==
    /\ tx[t].pc = "idle"
    /\ connected /\ address # NoAccount /\ ~Busy
    /\ inFlight' = TRUE
    /\ tx' = [tx EXCEPT ![t] = [pc |-> "signing", account |-> address, left |-> FALSE]]
    /\ snapshot' = {[account |-> address, left |-> FALSE]}
    /\ UNCHANGED <<address, connected, polls, abandoned, reconnected>>

Signed(t) ==
    /\ tx[t].pc = "signing"
    /\ tx' = [tx EXCEPT ![t].pc = "submitting"]
    /\ UNCHANGED <<address, connected, polls, inFlight, snapshot, abandoned, reconnected>>

\* Signature or submission fails, or the submission succeeds: the result goes
\* on display and the lock is freed, whoever holds it by now.
Finish(t) ==
    /\ t \in Active
    /\ tx' = [tx EXCEPT ![t] = NoTx]
    /\ inFlight' = FALSE
    /\ snapshot' = {[account |-> tx[t].account, left |-> tx[t].left]}
    /\ UNCHANGED <<address, connected, polls, abandoned, reconnected>>

WalletNext ==
    \/ \E a \in Accounts : Connect(a) \/ Poll(a)
    \/ Disconnect \/ Reset
    \/ \E p \in polls : PollAnswer(p)
    \/ \E t \in Txs : Execute(t) \/ Signed(t) \/ Finish(t)

WalletSpec == WalletInit /\ [][WalletNext]_walletVars

-----------------------------------------------------------------------------
WalletTypeOK ==
    /\ address \in Accounts \cup {NoAccount}
    /\ polls \subseteq [from : Accounts \cup {NoAccount}, got : Accounts]
    /\ tx \in [Txs -> [pc : {"idle", "signing", "submitting"}, account : Accounts \cup {NoAccount},
                       left : BOOLEAN]]
    /\ Cardinality(snapshot) <= 1 /\ connected \in BOOLEAN /\ inFlight \in BOOLEAN

\* Two transactions are only ever in progress together after one was abandoned
\* by a reset or an account switch, and as many more as were abandoned; and the
\* result of another account is only on display when its transaction was left
\* behind by such a switch, or the address changed by connecting again.  The
\* comments say it without these exceptions: useGameplayTx.ts:17, the lock
\* "prevents duplicate submissions", and 20-23, nothing of the previous account
\* stays mounted after a switch.
OnlyAbandonedOverlap ==
    /\ Cardinality(Active) <= 1 + abandoned
    /\ ~reconnected => \A s \in snapshot : s.account # address => s.left
=============================================================================
