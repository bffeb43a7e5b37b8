--------------------------- MODULE RefreshTokens ---------------------------
(***************************************************************************)
(* Refresh tokens of the backend: families issued at login, rotation in a  *)
(* transaction, replay detection, the depth limit and logout.              *)
(*                                                                         *)
(* A request advances one await at a time.  The database is PostgreSQL at  *)
(* READ COMMITTED: an UPDATE waits for the rows another transaction has    *)
(* claimed, tests its condition again afterwards, and does not see rows    *)
(* committed after it started.  No caller creates an AuthSession row, so   *)
(* enforceConcurrentSessionLimit finds nothing and changes nothing.        *)
(***************************************************************************)
EXTENDS Naturals, FiniteSets, Sequences

CONSTANTS
    Wallets,        \* wallet addresses (the email of the account)
    Requests,       \* refresh requests in progress at one time
    MaxTokens,      \* bound: rows of refresh_tokens
    MaxDepth        \* MAX_REFRESH_FAMILY_DEPTH

ASSUME TokensAssumption == MaxTokens \in Nat /\ MaxDepth \in Nat

VARIABLES
    tokens,         \* refresh_tokens, in order of issue
    expired,        \* rows whose expiresAt has passed: all live equally long
    req             \* the requests and the transaction each is in

\* History, read by properties only: per row, how often a client presented it
\* to refresh or logout (up to twice).
VARIABLE presented

tokenVars == <<tokens, expired, req, presented>>

Ids == DOMAIN tokens
Idle == [pc |-> "idle", tok |-> 0, rows |-> {}]

\* parent is the row this one succeeds, 0 for the first of its family fam.
Row(w, p, f, d) == [wallet |-> w, parent |-> p, fam |-> f, depth |-> d,
                    used |-> FALSE, revoked |-> FALSE]

Family(t) == {u \in Ids : tokens[u].fam = tokens[t].fam}

\* Rows held by a transaction between its claim and its commit.
Locked(T) == \E r \in Requests : req[r].pc = "claimed" /\ req[r].tok \in T

Revoke(T) == tokens' = [t \in Ids |-> IF t \in T THEN [tokens[t] EXCEPT !.revoked = TRUE]
                                                 ELSE tokens[t]]

Goto(r, pc, t, T) == req' = [req EXCEPT ![r] = [pc |-> pc, tok |-> t, rows |-> T]]

Present(t) == presented' = [presented EXCEPT ![t] = IF @ = 2 THEN 2 ELSE @ + 1]

-----------------------------------------------------------------------------
TokensInit ==
    /\ tokens = << >>
    /\ expired = 0
    /\ req = [r \in Requests |-> Idle]
    /\ presented = << >>

\* signup and login: the first token of a new family.
IssueFamily(w) ==
    /\ Len(tokens) < MaxTokens
    /\ tokens' = Append(tokens, Row(w, 0, Len(tokens) + 1, 0))
    /\ presented' = Append(presented, 0)
    /\ UNCHANGED <<expired, req>>

\* POST auth/refresh.  The condition revokedAt: null of validateRefreshToken
\* may or may not stop a revoked row (the ORM decides what null means in a
\* where): a row it lets through meets the check of the rotation.
ValidateRefresh(r, t) ==
    /\ req[r].pc = "idle" /\ t > expired
    /\ Present(t)
    /\ Goto(r, "read", t, {})
    /\ UNCHANGED <<tokens, expired>>

\* The transaction reads the row: replay, invalid, too deep, or claimable.
ReadToken(r) == LET t == req[r].tok IN
    /\ req[r].pc = "read"
    /\ \/ /\ tokens[t].used
          /\ Goto(r, "replay", t, {}) /\ UNCHANGED tokens
       \/ /\ ~tokens[t].used /\ (tokens[t].revoked \/ t <= expired)
          /\ Goto(r, "idle", 0, {}) /\ UNCHANGED tokens
       \/ /\ ~tokens[t].used /\ ~tokens[t].revoked /\ t > expired
          /\ tokens[t].depth >= MaxDepth
          /\ ~Locked(Family(t))
          /\ Revoke(Family(t)) /\ Goto(r, "idle", 0, {})
       \/ /\ ~tokens[t].used /\ ~tokens[t].revoked /\ t > expired
          /\ tokens[t].depth < MaxDepth
          /\ Goto(r, "claim", t, {}) /\ UNCHANGED tokens
    /\ UNCHANGED <<expired, presented>>

\* Mutant: the claim does not test usedAt, or does not test revokedAt.
UsedClaimable(t) == ~tokens[t].revoked
RevokedClaimable(t) == ~tokens[t].used

Claimable(t) == ~tokens[t].used /\ ~tokens[t].revoked

\* The atomic claim; a claim that affects no row is taken for a replay.
Claim(r) == LET t == req[r].tok IN
    /\ req[r].pc = "claim" /\ ~Locked({t})
    /\ Goto(r, IF Claimable(t) THEN "claimed" ELSE "replay", t, {})
    /\ UNCHANGED <<tokens, expired, presented>>

\* The successor is inserted and the transaction commits.
CommitRotation(r) == LET t == req[r].tok IN
    /\ req[r].pc = "claimed" /\ Len(tokens) < MaxTokens
    /\ tokens' = Append([tokens EXCEPT ![t].used = TRUE],
                        Row(tokens[t].wallet, t, tokens[t].fam, tokens[t].depth + 1))
    /\ presented' = Append(presented, 0)
    /\ Goto(r, "idle", 0, {})
    /\ UNCHANGED expired

\* Mutant: the revocation forgets the wallet.
EveryWallet(w) == {t \in Ids : ~tokens[t].revoked}

RowsOf(w) == {t \in Ids : tokens[t].wallet = w /\ ~tokens[t].revoked}

\* revokeAllRefreshTokens starts after the transaction, with the rows it sees.
StartRevokeAll(r) ==
    /\ req[r].pc = "replay"
    /\ Goto(r, "revoking", req[r].tok, RowsOf(tokens[req[r].tok].wallet))
    /\ UNCHANGED <<tokens, expired, presented>>

FinishRevokeAll(r) ==
    /\ req[r].pc = "revoking" /\ ~Locked(req[r].rows)
    /\ Revoke(req[r].rows)
    /\ Goto(r, "idle", 0, {})
    /\ UNCHANGED <<expired, presented>>

\* POST auth/logout: unconditional, but it waits for a claim of the row.
Logout(t) ==
    /\ ~Locked({t})
    /\ Revoke({t})
    /\ Present(t)
    /\ UNCHANGED <<expired, req>>

\* An insert fails, the connection or the process is lost: rollback.
RequestFails(r) ==
    /\ req[r].pc # "idle"
    /\ Goto(r, "idle", 0, {})
    /\ UNCHANGED <<tokens, expired, presented>>

ExpireToken ==
    /\ expired < Len(tokens)
    /\ expired' = expired + 1
    /\ UNCHANGED <<tokens, req, presented>>

TokensStep ==
    \/ \E r \in Requests : \/ \E t \in Ids : ValidateRefresh(r, t)
                           \/ ReadToken(r) \/ Claim(r) \/ CommitRotation(r)
                           \/ StartRevokeAll(r) \/ FinishRevokeAll(r) \/ RequestFails(r)
    \/ \E t \in Ids : Logout(t)
    \/ ExpireToken

TokensNext == TokensStep \/ \E w \in Wallets : IssueFamily(w)

TokensSpec == TokensInit /\ [][TokensNext]_tokenVars

-----------------------------------------------------------------------------
TokensTypeOK ==
    /\ \A t \in Ids : tokens[t] \in [wallet : Wallets, parent : 0 .. t - 1, fam : 1 .. t,
                                     depth : 0 .. MaxDepth, used : BOOLEAN, revoked : BOOLEAN]
    /\ Len(tokens) <= MaxTokens /\ expired \in 0 .. Len(tokens)
    /\ presented \in [Ids -> 0 .. 2]
    /\ req \in [Requests -> [pc : {"idle", "read", "claim", "claimed", "replay", "revoking"},
                             tok : {0} \cup Ids, rows : SUBSET Ids]]

\* However rotations of one token interleave, fail and retry, a token is used
\* exactly when it has one successor, of its own family and wallet: no token
\* is spent without a successor and none is exchanged twice.
ChainPerFamily ==
    \A t \in Ids : LET Next == {u \in Ids : tokens[u].parent = t} IN
        /\ Cardinality(Next) = IF tokens[t].used THEN 1 ELSE 0
        /\ \A u \in Next : /\ tokens[u].fam = tokens[t].fam
                           /\ tokens[u].wallet = tokens[t].wallet
                           /\ tokens[u].depth = tokens[t].depth + 1

\* A token revoked before it was exchanged is never exchanged afterwards, not
\* even by a rotation that had read it while it was still good.
RevokedStaysUnused ==
    [][\A t \in Ids : tokens[t].revoked /\ ~tokens[t].used /\ ~Locked({t})
                        => ~tokens'[t].used /\ ~Locked({t})']_tokenVars

\* A client loses a token only for a reason within its own wallet: it logged
\* out with it, or some token of the wallet was presented twice, or the family
\* is at its depth limit.  The sessions of other wallets are out of reach.
RevokedWithCause ==
    \A t \in Ids : tokens[t].revoked =>
        \/ presented[t] >= 1
        \/ \E u \in Ids : tokens[u].wallet = tokens[t].wallet /\ presented[u] = 2
        \/ \E u \in Family(t) : tokens[u].depth = MaxDepth /\ presented[u] >= 1
=============================================================================
