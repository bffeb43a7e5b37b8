--------------------------- MODULE AccountsProofs ---------------------------
(***************************************************************************)
(* Theorems of the account services: rotation of refresh tokens, lockout   *)
(* after failed logins, and links that reset a password, for any number of *)
(* wallets, requests, logins, tokens and links.                            *)
(***************************************************************************)
EXTENDS RefreshTokens, LoginLockout, PasswordReset, FiniteSetTheorems, TLAPS

-----------------------------------------------------------------------------
(* Refresh tokens *)

TokenRow == [wallet : Wallets, parent : Nat, fam : Nat, depth : Nat,
             used : BOOLEAN, revoked : BOOLEAN]
RequestState == [pc : {"idle", "read", "claim", "claimed", "replay", "revoking"},
                 tok : Nat, rows : SUBSET Nat]

Busy(r) == req[r].pc # "idle"
On(r, t) == Busy(r) /\ req[r].tok = t

\* The types: a table of rows numbered in order of issue, and requests that
\* hold tokens of the table.
Tables ==
    /\ tokens \in Seq(TokenRow) /\ presented \in Seq(0 .. 2)
    /\ Len(presented) = Len(tokens)
    /\ req \in [Requests -> RequestState]
    /\ \A r \in Requests : req[r].rows \subseteq Ids /\ (Busy(r) => req[r].tok \in Ids)

\* A row comes after the one it succeeds and after the first of its family.
Ordered ==
    /\ \A t \in Ids : /\ tokens[t].parent < t
                      /\ 1 <= tokens[t].fam /\ tokens[t].fam <= t
                      /\ tokens[t].depth <= MaxDepth
    /\ \A r \in Requests : req[r].pc \in {"claim", "claimed"} => tokens[req[r].tok].depth < MaxDepth

\* A claimed row is good, and held by one request.
Claims ==
    /\ \A r \in Requests : req[r].pc = "claimed" =>
          ~tokens[req[r].tok].used /\ ~tokens[req[r].tok].revoked
    /\ \A r, q \in Requests : req[r].pc = "claimed" /\ req[q].pc = "claimed"
                              /\ req[r].tok = req[q].tok => r = q

\* A row is the parent of one other at most, and of one exactly when used.
Chained ==
    /\ \A t \in Ids : tokens[t].used => \E u \in Ids : tokens[u].parent = t
    /\ \A t, u \in Ids : tokens[u].parent = t =>
          /\ tokens[t].used
          /\ tokens[u].fam = tokens[t].fam /\ tokens[u].wallet = tokens[t].wallet
          /\ tokens[u].depth = tokens[t].depth + 1
    /\ \A t, u, v \in Ids : tokens[u].parent = t /\ tokens[v].parent = t => u = v

RotationInv == Tables /\ Ordered /\ Claims /\ Chained

\* What a step may do to the table: revoke some rows, ...
LEMMA RevokeRows ==
    ASSUME Tables, NEW T, Revoke(T)
    PROVE  /\ tokens' \in Seq(TokenRow) /\ Len(tokens') = Len(tokens) /\ Ids' = Ids
           /\ \A t \in Ids : /\ tokens'[t].wallet = tokens[t].wallet
                             /\ tokens'[t].parent = tokens[t].parent
                             /\ tokens'[t].fam = tokens[t].fam
                             /\ tokens'[t].depth = tokens[t].depth
                             /\ tokens'[t].used <=> tokens[t].used
                             /\ tokens'[t].revoked <=> (t \in T \/ tokens[t].revoked)
<1>1. tokens' = [t \in Ids |-> IF t \in T THEN [tokens[t] EXCEPT !.revoked = TRUE] ELSE tokens[t]]
  BY DEF Revoke
<1>2. \A t \in Ids : tokens[t] \in TokenRow
  BY DEF Tables, Ids
<1>3. \A t \in Ids : tokens'[t] \in TokenRow
  BY <1>1, <1>2 DEF TokenRow
<1>4. tokens' \in Seq(TokenRow) /\ Len(tokens') = Len(tokens) /\ Ids' = Ids
  BY <1>1, <1>3 DEF Tables, Ids
<1> QED
  BY <1>1, <1>2, <1>4 DEF TokenRow

\* ... or append one.
LEMMA AppendRow ==
    ASSUME Tables, NEW s \in Seq(TokenRow), Len(s) = Len(tokens), NEW row \in TokenRow,
           tokens' = Append(s, row), presented' = Append(presented, 0)
    PROVE  /\ tokens' \in Seq(TokenRow) /\ presented' \in Seq(0 .. 2)
           /\ Len(presented') = Len(tokens')
           /\ Ids = 1 .. Len(tokens) /\ Len(tokens) \in Nat
           /\ Ids' = Ids \cup {Len(tokens) + 1}
           /\ \A t \in Ids : tokens'[t] = s[t] /\ presented'[t] = presented[t]
           /\ tokens'[Len(tokens) + 1] = row /\ presented'[Len(tokens) + 1] = 0
<1>1. tokens \in Seq(TokenRow) /\ presented \in Seq(0 .. 2) /\ Len(presented) = Len(tokens)
  BY DEF Tables
<1>2. Len(tokens') = Len(tokens) + 1 /\ Len(presented') = Len(tokens) + 1
      /\ tokens' \in Seq(TokenRow) /\ presented' \in Seq(0 .. 2)
  BY <1>1
<1>3. Ids = 1 .. Len(tokens) /\ Ids' = 1 .. Len(tokens) + 1 /\ Len(tokens) \in Nat
  BY <1>1, <1>2 DEF Ids
<1> QED
  BY <1>1, <1>2, <1>3

\* Parents, and tokens in the hands of requests, are rows of the table.
LEMMA InTable ==
    ASSUME RotationInv
    PROVE  /\ Ids = 1 .. Len(tokens) /\ Len(tokens) \in Nat
           /\ \A t \in Ids : tokens[t] \in TokenRow
           /\ \A t \in Ids : tokens[t].parent # 0 => tokens[t].parent \in Ids
           /\ \A r \in Requests : /\ req[r] \in RequestState
                                  /\ req[r].pc # "idle" => req[r].tok \in Ids
<1>1. /\ Ids = 1 .. Len(tokens) /\ Len(tokens) \in Nat
      /\ \A t \in Ids : tokens[t] \in TokenRow
      /\ \A r \in Requests : req[r] \in RequestState /\ (req[r].pc # "idle" => req[r].tok \in Ids)
  BY DEF RotationInv, Tables, Ids, Busy
<1>2. ASSUME NEW t \in Ids, tokens[t].parent # 0
      PROVE  tokens[t].parent \in Ids
  <2>1. tokens[t].parent \in Nat /\ tokens[t].parent < t
    BY <1>1 DEF RotationInv, Ordered, TokenRow
  <2> QED
    BY <1>1, <1>2, <2>1
<1> QED
  BY <1>1, <1>2

\* A client presents a token once more, counted up to two.
LEMMA PresentToken ==
    ASSUME Tables, NEW t \in Ids, Present(t)
    PROVE  /\ presented' \in Seq(0 .. 2) /\ Len(presented') = Len(presented)
           /\ \A u \in Ids : /\ presented[u] \in 0 .. 2
                            /\ presented'[u] = IF u = t /\ presented[u] < 2 THEN presented[u] + 1
                                                                         ELSE presented[u]
<1>1. presented \in Seq(0 .. 2) /\ Ids = 1 .. Len(presented) /\ t \in 1 .. Len(presented)
  BY DEF Tables, Ids
<1>2. presented[t] \in 0 .. 2
  BY <1>1
<1> QED
  BY <1>1, <1>2 DEF Present

\* A request moves on, and the table stays.
LEMMA RequestMoves ==
    ASSUME RotationInv, NEW r \in Requests, NEW state \in RequestState,
           req' = [req EXCEPT ![r] = state], tokens' = tokens,
           presented' \in Seq(0 .. 2), Len(presented') = Len(tokens),
           state.pc # "idle" => state.tok \in Ids,
           state.rows \subseteq Ids,
           state.pc \in {"claim", "claimed"} => tokens[state.tok].depth < MaxDepth,
           state.pc = "claimed" =>
              /\ ~tokens[state.tok].used /\ ~tokens[state.tok].revoked
              /\ \A q \in Requests : req[q].pc = "claimed" => req[q].tok # state.tok
    PROVE  RotationInv'
<1>1. Ids' = Ids
  BY DEF Ids
<1>2. Tables'
  BY <1>1 DEF RotationInv, Tables, Busy
<1>3. Ordered'
  BY <1>1 DEF RotationInv, Tables, Ordered
<1>4. Claims'
  BY <1>1 DEF RotationInv, Tables, Claims
<1>5. Chained'
  BY <1>1 DEF RotationInv, Chained
<1> QED
  BY <1>2, <1>3, <1>4, <1>5 DEF RotationInv

\* Rows that no transaction has claimed are revoked.
LEMMA RevocationKeeps ==
    ASSUME RotationInv, NEW T, Revoke(T), ~Locked(T),
           presented' \in Seq(0 .. 2), Len(presented') = Len(tokens),
           req' = req \/ \E r \in Requests :
                             req' = [req EXCEPT ![r] = [pc |-> "idle", tok |-> 0, rows |-> {}]]
    PROVE  RotationInv'
<1>1. /\ tokens' \in Seq(TokenRow) /\ Len(tokens') = Len(tokens) /\ Ids' = Ids
      /\ \A t \in Ids : /\ tokens'[t].wallet = tokens[t].wallet
                        /\ tokens'[t].parent = tokens[t].parent
                        /\ tokens'[t].fam = tokens[t].fam
                        /\ tokens'[t].depth = tokens[t].depth
                        /\ tokens'[t].used <=> tokens[t].used
                        /\ tokens'[t].revoked <=> (t \in T \/ tokens[t].revoked)
  BY RevokeRows DEF RotationInv
<1>2. /\ req' \in [Requests -> RequestState]
      /\ \A q \in Requests : req'[q] = req[q] \/ (req'[q].pc = "idle" /\ req'[q].rows = {})
  BY DEF RotationInv, Tables, RequestState
<1>3. \A q \in Requests : req'[q].pc # "idle" => req'[q] = req[q] /\ req[q].tok \in Ids
  BY <1>2, InTable
<1>4. Tables'
  BY <1>1, <1>2, <1>3 DEF RotationInv, Tables, Busy
<1>5. Ordered'
  <2>1. \A q \in Requests : req[q].pc \in {"claim", "claimed"} => tokens[req[q].tok].depth < MaxDepth
    BY DEF RotationInv, Ordered
  <2>2. \A q \in Requests : req'[q].pc \in {"claim", "claimed"}
                           => tokens'[req'[q].tok].depth < MaxDepth
    BY <1>1, <1>3, <2>1
  <2> QED
    BY <1>1, <2>2 DEF RotationInv, Ordered
<1>6. Claims'
  <2>1. \A q \in Requests : req[q].pc = "claimed" => req[q].tok \notin T
    BY DEF Locked
  <2> QED
    BY <1>1, <1>3, <2>1 DEF RotationInv, Claims
<1>7. Chained'
  BY <1>1, InTable DEF RotationInv, Chained
<1> QED
  BY <1>4, <1>5, <1>6, <1>7 DEF RotationInv

\* A new family begins with an unused row.
LEMMA IssueKeeps ==
    ASSUME RotationInv, NEW w \in Wallets, IssueFamily(w)
    PROVE  RotationInv'
<1> DEFINE n == Len(tokens) + 1
<1>1. Row(w, 0, n, 0) \in TokenRow
  BY DEF Row, TokenRow, RotationInv, Tables
<1>2. /\ tokens' \in Seq(TokenRow) /\ presented' \in Seq(0 .. 2)
      /\ Len(presented') = Len(tokens')
      /\ Ids = 1 .. Len(tokens) /\ Len(tokens) \in Nat /\ Ids' = Ids \cup {n}
      /\ \A t \in Ids : tokens'[t] = tokens[t]
      /\ tokens'[n] = Row(w, 0, n, 0)
  BY <1>1, AppendRow DEF IssueFamily, RotationInv, Tables
<1>3. req' = req
  BY DEF IssueFamily
<1>4. tokens'[n].parent = 0 /\ tokens'[n].fam = n /\ tokens'[n].depth = 0 /\ ~tokens'[n].used
  BY <1>2 DEF Row
<1>5. Tables'
  BY <1>2, <1>3 DEF RotationInv, Tables, Busy
<1>6. Ordered'
  BY <1>2, <1>3, <1>4, TokensAssumption DEF RotationInv, Tables, Ordered, Busy
<1>7. Claims'
  BY <1>2, <1>3 DEF RotationInv, Tables, Claims, Busy
<1>8. Chained'
  <2>1. \A u \in Ids : tokens[u].parent < n
    BY <1>2, InTable DEF RotationInv, Ordered, TokenRow
  <2>2. n \notin Ids /\ 0 \notin Ids /\ 0 \notin Ids'
    BY <1>2
  <2>3. ASSUME NEW u \in Ids PROVE tokens'[u].parent # n
    <3>1. tokens[u].parent \in Nat /\ tokens'[u] = tokens[u] /\ n \in Nat
      BY <1>2, InTable DEF RotationInv, TokenRow
    <3> QED
      BY <2>1, <3>1
  <2>4. ASSUME NEW t \in Ids, tokens'[t].used PROVE \E u \in Ids : tokens'[u].parent = t
    <3>1. PICK u \in Ids : tokens[u].parent = t
      BY <1>2, <2>4 DEF RotationInv, Chained
    <3> QED
      BY <1>2, <3>1
  <2>5. \A t, u \in Ids : tokens'[u].parent = t =>
           /\ tokens'[t].used
           /\ tokens'[u].fam = tokens'[t].fam /\ tokens'[u].wallet = tokens'[t].wallet
           /\ tokens'[u].depth = tokens'[t].depth + 1
    BY <1>2 DEF RotationInv, Chained
  <2>6. \A t, u, v \in Ids : tokens'[u].parent = t /\ tokens'[v].parent = t => u = v
    BY <1>2 DEF RotationInv, Chained
  <2>7. \A t \in Ids' : tokens'[t].used => \E u \in Ids' : tokens'[u].parent = t
    BY <1>2, <1>4, <2>4
  <2>8. \A t, u \in Ids' : tokens'[u].parent = t => t \in Ids /\ u \in Ids
    BY <1>2, <1>4, <2>2, <2>3
  <2>9. \A t, u \in Ids' : tokens'[u].parent = t =>
           /\ tokens'[t].used
           /\ tokens'[u].fam = tokens'[t].fam /\ tokens'[u].wallet = tokens'[t].wallet
           /\ tokens'[u].depth = tokens'[t].depth + 1
    BY <2>5, <2>8
  <2>10. \A t, u, v \in Ids' : tokens'[u].parent = t /\ tokens'[v].parent = t => u = v
    BY <2>6, <2>8
  <2> QED
    BY <2>7, <2>9, <2>10 DEF Chained
<1> QED
  BY <1>5, <1>6, <1>7, <1>8 DEF RotationInv

\* The successor of a claimed row: what the table looks like afterwards.
LEMMA CommitRow ==
    ASSUME RotationInv, NEW r \in Requests, CommitRotation(r)
    PROVE  LET t == req[r].tok
               n == Len(tokens) + 1
           IN  /\ t \in Ids /\ tokens[t] \in TokenRow /\ Ids = 1 .. Len(tokens) /\ Len(tokens) \in Nat
               /\ req[r].pc = "claimed" /\ tokens[t].depth < MaxDepth
               /\ ~tokens[t].used /\ ~tokens[t].revoked
               /\ tokens' \in Seq(TokenRow) /\ presented' \in Seq(0 .. 2)
               /\ Len(presented') = Len(tokens') /\ Ids' = Ids \cup {n}
               /\ \A u \in Ids : presented'[u] = presented[u] /\ presented[u] \in 0 .. 2
               /\ presented'[n] = 0
               /\ \A u \in Ids : /\ tokens'[u].wallet = tokens[u].wallet
                                 /\ tokens'[u].parent = tokens[u].parent
                                 /\ tokens'[u].fam = tokens[u].fam
                                 /\ tokens'[u].depth = tokens[u].depth
                                 /\ tokens'[u].used <=> (u = t \/ tokens[u].used)
                                 /\ tokens'[u].revoked <=> tokens[u].revoked
               /\ tokens'[n].parent = t /\ tokens'[n].fam = tokens[t].fam
               /\ ~tokens'[n].used /\ ~tokens'[n].revoked
               /\ tokens'[n].wallet = tokens[t].wallet /\ tokens'[n].depth = tokens[t].depth + 1
<1> DEFINE t == req[r].tok
           n == Len(tokens) + 1
           row == Row(tokens[t].wallet, t, tokens[t].fam, tokens[t].depth + 1)
           spent == [tokens EXCEPT ![t].used = TRUE]
<1>1. /\ t \in Ids /\ tokens[t] \in TokenRow /\ Ids = 1 .. Len(tokens) /\ Len(tokens) \in Nat
      /\ req[r].pc = "claimed" /\ tokens[t].depth < MaxDepth
      /\ ~tokens[t].used /\ ~tokens[t].revoked
  BY DEF RotationInv, Tables, Ordered, Claims, CommitRotation, Ids, Busy
<1>2. row \in TokenRow
  BY <1>1 DEF Row, TokenRow
<1>3. spent \in Seq(TokenRow) /\ Len(spent) = Len(tokens)
  <2>1. [tokens[t] EXCEPT !.used = TRUE] \in TokenRow
    BY <1>1 DEF TokenRow
  <2> QED
    BY <1>1, <2>1 DEF RotationInv, Tables
<1>4. /\ tokens' \in Seq(TokenRow) /\ presented' \in Seq(0 .. 2)
      /\ Len(presented') = Len(tokens') /\ Ids' = Ids \cup {n}
      /\ \A u \in Ids : tokens'[u] = spent[u]
      /\ \A u \in Ids : presented'[u] = presented[u] /\ presented[u] \in 0 .. 2
      /\ presented'[n] = 0
      /\ tokens'[n] = row
  <2>1. tokens' = Append(spent, row) /\ presented' = Append(presented, 0) /\ Tables
    BY DEF CommitRotation, RotationInv
  <2>2. \A u \in Ids : presented[u] \in 0 .. 2
    BY <2>1 DEF Tables, Ids
  <2> HIDE DEF spent, row
  <2> QED
    BY <1>2, <1>3, <2>1, <2>2, AppendRow
<1>5. /\ \A u \in Ids : /\ tokens'[u].wallet = tokens[u].wallet
                        /\ tokens'[u].parent = tokens[u].parent
                        /\ tokens'[u].fam = tokens[u].fam
                        /\ tokens'[u].depth = tokens[u].depth
                        /\ tokens'[u].used <=> (u = t \/ tokens[u].used)
                        /\ tokens'[u].revoked <=> tokens[u].revoked
      /\ tokens'[n].parent = t /\ tokens'[n].fam = tokens[t].fam
      /\ ~tokens'[n].used /\ ~tokens'[n].revoked
      /\ tokens'[n].wallet = tokens[t].wallet /\ tokens'[n].depth = tokens[t].depth + 1
  <2>1. \A u \in Ids : spent[u] = IF u = t THEN [tokens[t] EXCEPT !.used = TRUE] ELSE tokens[u]
    BY <1>1 DEF RotationInv, Tables
  <2>2. \A u \in Ids : tokens[u] \in TokenRow
    BY InTable
  <2>3. \A u \in Ids : tokens'[u] = IF u = t THEN [tokens[t] EXCEPT !.used = TRUE] ELSE tokens[u]
    BY <1>4, <2>1
  <2>4. ASSUME NEW u \in Ids
        PROVE  /\ tokens'[u].wallet = tokens[u].wallet
               /\ tokens'[u].parent = tokens[u].parent
               /\ tokens'[u].fam = tokens[u].fam
               /\ tokens'[u].depth = tokens[u].depth
               /\ tokens'[u].used <=> (u = t \/ tokens[u].used)
               /\ tokens'[u].revoked <=> tokens[u].revoked
    <3> HIDE DEF spent, row
    <3>1. CASE u = t
      BY <2>2, <2>3, <3>1, <1>1 DEF TokenRow
    <3>2. CASE u # t
      BY <2>3, <3>2
    <3> QED
      BY <3>1, <3>2
  <2>5. /\ row.parent = t /\ row.fam = tokens[t].fam /\ ~row.used /\ ~row.revoked
        /\ row.wallet = tokens[t].wallet /\ row.depth = tokens[t].depth + 1
    BY DEF Row
  <2> QED
    BY <1>4, <2>4, <2>5
<1> QED
  BY <1>1, <1>4, <1>5

\* The successor of a claimed row takes the place of its parent.
LEMMA CommitKeeps ==
    ASSUME RotationInv, NEW r \in Requests, CommitRotation(r)
    PROVE  RotationInv'
<1> DEFINE t == req[r].tok
           n == Len(tokens) + 1
<1>1. /\ t \in Ids /\ tokens[t] \in TokenRow /\ Ids = 1 .. Len(tokens) /\ Len(tokens) \in Nat
      /\ req[r].pc = "claimed" /\ tokens[t].depth < MaxDepth
      /\ ~tokens[t].used /\ ~tokens[t].revoked
  BY CommitRow
<1>4. /\ tokens' \in Seq(TokenRow) /\ presented' \in Seq(0 .. 2)
      /\ Len(presented') = Len(tokens') /\ Ids' = Ids \cup {n}
  BY CommitRow
<1>5. /\ \A u \in Ids : /\ tokens'[u].wallet = tokens[u].wallet
                        /\ tokens'[u].parent = tokens[u].parent
                        /\ tokens'[u].fam = tokens[u].fam
                        /\ tokens'[u].depth = tokens[u].depth
                        /\ tokens'[u].used <=> (u = t \/ tokens[u].used)
                        /\ tokens'[u].revoked <=> tokens[u].revoked
      /\ tokens'[n].parent = t /\ tokens'[n].fam = tokens[t].fam /\ ~tokens'[n].used
      /\ tokens'[n].wallet = tokens[t].wallet /\ tokens'[n].depth = tokens[t].depth + 1
  BY CommitRow
<1>6. req' = [req EXCEPT ![r] = [pc |-> "idle", tok |-> 0, rows |-> {}]]
  BY DEF CommitRotation, Goto
<1>7. Tables'
  BY <1>1, <1>4, <1>6 DEF RotationInv, Tables, Busy, RequestState
<1>8. Ordered'
  <2>1. \A u \in Ids : /\ tokens[u].parent < u
                      /\ 1 <= tokens[u].fam /\ tokens[u].fam <= u /\ tokens[u].depth <= MaxDepth
    BY DEF RotationInv, Ordered
  <2>2. tokens[t].fam \in Nat /\ tokens[t].depth \in Nat
    BY <1>1 DEF TokenRow
  <2>3. /\ tokens'[n].parent < n /\ 1 <= tokens'[n].fam /\ tokens'[n].fam <= n
        /\ tokens'[n].depth <= MaxDepth
    BY <1>1, <1>5, <2>1, <2>2, TokensAssumption
  <2>4. \A q \in Requests : req'[q].pc \in {"claim", "claimed"} =>
           req[q].tok \in Ids /\ req'[q] = req[q] /\ tokens[req[q].tok].depth < MaxDepth
    BY <1>6, InTable DEF RotationInv, Ordered, Tables
  <2> QED
    BY <1>4, <1>5, <2>1, <2>3, <2>4 DEF Ordered
<1>9. Claims'
  <2>1. \A q \in Requests : req'[q].pc = "claimed" =>
           req[q].tok \in Ids /\ req'[q] = req[q] /\ req[q].tok # t
    BY <1>1, <1>6, InTable DEF RotationInv, Claims, Tables
  <2> QED
    BY <1>5, <2>1 DEF RotationInv, Claims
<1>10. Chained'
  <2>1. \A u \in Ids : tokens[u].parent # n /\ u # n
    BY <1>1, InTable DEF RotationInv, Ordered, TokenRow
  <2>2. \A u \in Ids : tokens[u].parent # t
    BY <1>1 DEF RotationInv, Chained
  <2>3. t # n
    BY <1>1
  <2>4. \A v \in Ids : tokens'[v].used => \E u \in Ids' : tokens'[u].parent = v
    BY <1>4, <1>5 DEF RotationInv, Chained
  <2>5. \A v, u \in Ids' : tokens'[u].parent = v =>
           /\ tokens'[v].used
           /\ tokens'[u].fam = tokens'[v].fam /\ tokens'[u].wallet = tokens'[v].wallet
           /\ tokens'[u].depth = tokens'[v].depth + 1
    <3> SUFFICES ASSUME NEW v \in Ids', NEW u \in Ids', tokens'[u].parent = v
                 PROVE  /\ tokens'[v].used
                        /\ tokens'[u].fam = tokens'[v].fam /\ tokens'[u].wallet = tokens'[v].wallet
                        /\ tokens'[u].depth = tokens'[v].depth + 1
      OBVIOUS
    <3> HIDE DEF t, n
    <3>1. CASE u = n
      BY <1>1, <1>5, <3>1
    <3>2. CASE u \in Ids
      <4>1. tokens[u].parent = v
        BY <1>5, <3>2
      <4>2. v \in Ids
        BY <1>4, <2>1, <3>2, <4>1
      <4>3. /\ tokens[v].used
            /\ tokens[u].fam = tokens[v].fam /\ tokens[u].wallet = tokens[v].wallet
            /\ tokens[u].depth = tokens[v].depth + 1
        BY <3>2, <4>1, <4>2 DEF RotationInv, Chained
      <4> QED
        BY <1>5, <3>2, <4>2, <4>3
    <3> QED
      BY <1>4, <3>1, <3>2
  <2>6. \A v, u, x \in Ids' : tokens'[u].parent = v /\ tokens'[x].parent = v => u = x
    <3> SUFFICES ASSUME NEW u \in Ids', NEW x \in Ids', tokens'[u].parent \in Ids',
                        tokens'[u].parent = tokens'[x].parent
                 PROVE  u = x
      OBVIOUS
    <3> HIDE DEF t, n
    <3>1. CASE u \in Ids /\ x \in Ids
      <4>1. tokens[u].parent = tokens[x].parent /\ tokens[u].parent \in Ids
        BY <1>4, <1>5, <2>1, <3>1
      <4> QED
        BY <3>1, <4>1 DEF RotationInv, Chained
    <3>2. CASE u = n \/ x = n
      BY <1>4, <1>5, <2>2, <3>2
    <3> QED
      BY <1>4, <3>1, <3>2
  <2> QED
    BY <1>4, <1>5, <2>4, <2>5, <2>6 DEF Chained
<1> QED
  BY <1>7, <1>8, <1>9, <1>10 DEF RotationInv

\* Each step of the service keeps the invariant.
LEMMA RotationStep ==
    ASSUME RotationInv, [TokensNext]_tokenVars
    PROVE  RotationInv'
<1>1. /\ Ids = 1 .. Len(tokens) /\ Len(presented) = Len(tokens) /\ presented \in Seq(0 .. 2)
      /\ \A r \in Requests : req[r] \in RequestState /\ (req[r].pc # "idle" => req[r].tok \in Ids)
      /\ \A r \in Requests : req[r].rows \subseteq Ids
  BY InTable DEF RotationInv, Tables
<1>2. Idle \in RequestState /\ \A pc \in {"read", "claim", "claimed", "replay", "revoking"}, t \in Ids, T \in SUBSET Ids :
           [pc |-> pc, tok |-> t, rows |-> T] \in RequestState
  BY <1>1 DEF RequestState, Idle
<1>3. ASSUME NEW r \in Requests, NEW t \in Ids, ValidateRefresh(r, t)
      PROVE  RotationInv'
  <2>1. presented' \in Seq(0 .. 2) /\ Len(presented') = Len(tokens)
    BY <1>1, <1>3, PresentToken DEF RotationInv, ValidateRefresh
  <2>2. [pc |-> "read", tok |-> t, rows |-> {}] \in RequestState
    BY <1>2
  <2> QED
    BY <1>3, <2>1, <2>2, RequestMoves DEF ValidateRefresh, Goto
<1>4. ASSUME NEW r \in Requests, ReadToken(r)
      PROVE  RotationInv'
  <2> DEFINE t == req[r].tok
  <2>1. t \in Ids /\ presented' = presented /\ req[r].pc = "read"
    BY <1>1, <1>4 DEF ReadToken
  <2>2. CASE Goto(r, "replay", t, {}) /\ tokens' = tokens
    BY <1>1, <1>2, <2>1, <2>2, RequestMoves DEF Goto
  <2>3. CASE Goto(r, "idle", 0, {}) /\ tokens' = tokens
    BY <1>1, <1>2, <2>1, <2>3, RequestMoves DEF Goto, Idle
  <2>4. CASE ~Locked(Family(t)) /\ Revoke(Family(t)) /\ Goto(r, "idle", 0, {})
    BY <1>1, <2>1, <2>4, RevocationKeeps DEF Goto
  <2>5. CASE tokens[t].depth < MaxDepth /\ Goto(r, "claim", t, {}) /\ tokens' = tokens
    BY <1>1, <1>2, <2>1, <2>5, RequestMoves DEF Goto
  <2> QED
    BY <1>4, <2>2, <2>3, <2>4, <2>5 DEF ReadToken
<1>5. ASSUME NEW r \in Requests, Claim(r)
      PROVE  RotationInv'
  <2> DEFINE t == req[r].tok
  <2>1. t \in Ids /\ presented' = presented /\ tokens' = tokens /\ tokens[t].depth < MaxDepth
    BY <1>1, <1>5 DEF Claim, RotationInv, Ordered
  <2>2. CASE Claimable(t) /\ Goto(r, "claimed", t, {})
    <3>1. ~tokens[t].used /\ ~tokens[t].revoked
      BY <2>2 DEF Claimable
    <3>2. \A q \in Requests : req[q].pc = "claimed" => req[q].tok # t
      BY <1>5 DEF Claim, Locked
    <3> QED
      BY <1>1, <1>2, <2>1, <2>2, <3>1, <3>2, RequestMoves DEF Goto
  <2>3. CASE Goto(r, "replay", t, {})
    BY <1>1, <1>2, <2>1, <2>3, RequestMoves DEF Goto
  <2> QED
    BY <1>5, <2>2, <2>3 DEF Claim
<1>6. ASSUME NEW r \in Requests, StartRevokeAll(r)
      PROVE  RotationInv'
  <2>1. req[r].tok \in Ids /\ RowsOf(tokens[req[r].tok].wallet) \subseteq Ids
    BY <1>1, <1>6 DEF StartRevokeAll, RowsOf
  <2>2. [pc |-> "revoking", tok |-> req[r].tok, rows |-> RowsOf(tokens[req[r].tok].wallet)]
           \in RequestState
    BY <1>2, <2>1
  <2> QED
    BY <1>1, <1>6, <2>1, <2>2, RequestMoves DEF StartRevokeAll, Goto
<1>7. ASSUME NEW r \in Requests, FinishRevokeAll(r)
      PROVE  RotationInv'
  BY <1>1, <1>7, RevocationKeeps DEF FinishRevokeAll, Goto
<1>8. ASSUME NEW r \in Requests, RequestFails(r)
      PROVE  RotationInv'
  BY <1>1, <1>2, <1>8, RequestMoves DEF RequestFails, Goto, Idle
<1>9. ASSUME NEW t \in Ids, Logout(t)
      PROVE  RotationInv'
  <2>1. presented' \in Seq(0 .. 2) /\ Len(presented') = Len(tokens)
    BY <1>1, <1>9, PresentToken DEF RotationInv, Logout
  <2> QED
    BY <1>9, <2>1, RevocationKeeps DEF Logout
<1>10. ASSUME UNCHANGED <<tokens, req, presented>>
       PROVE  RotationInv'
  BY <1>10 DEF RotationInv, Tables, Ordered, Claims, Chained, Ids, Busy
<1> QED
  BY <1>3, <1>4, <1>5, <1>6, <1>7, <1>8, <1>9, <1>10, CommitKeeps, IssueKeeps
     DEF TokensNext, TokensStep, ExpireToken, tokenVars

\* The invariant that the three results on refresh tokens rest on: the tables
\* are well formed, a claimed row is unused and not revoked, one request has
\* claimed it, and successors follow their predecessors (rotate).
THEOREM RotationIsSound == TokensSpec => []RotationInv
<1>1. TokensInit => RotationInv
  BY DEF TokensInit, RotationInv, Tables, Ordered, Claims, Chained, Ids, Busy, Idle, RequestState
<1>2. RotationInv /\ [TokensNext]_tokenVars => RotationInv'
  BY RotationStep
<1> QED
  BY <1>1, <1>2, PTL DEF TokensSpec

\* What the types say beyond the tables: no more rows than the bound, and only
\* requests in progress hold a token.
TokenBounds ==
    /\ Len(tokens) <= MaxTokens /\ expired \in 0 .. Len(tokens)
    /\ \A r \in Requests : ~Busy(r) => req[r].tok = 0

\* Rows are appended below the bound, and a request drops its token at its end.
LEMMA TokenBoundsStep ==
    ASSUME RotationInv, TokenBounds, [TokensNext]_tokenVars
    PROVE  TokenBounds'
<1>1. /\ tokens \in Seq(TokenRow) /\ Len(tokens) \in Nat /\ MaxTokens \in Nat
      /\ Len(tokens) <= MaxTokens /\ expired \in 0 .. Len(tokens) /\ req \in [Requests -> RequestState]
      /\ Tables
  BY TokensAssumption DEF RotationInv, Tables, TokenBounds
<1>2. \A r \in Requests : req[r].pc = "idle" => req[r].tok = 0
  BY DEF TokenBounds, Busy
<1> DEFINE Rested == \A r \in Requests : req'[r].pc = "idle" => req'[r].tok = 0
<1>3. ASSUME NEW r \in Requests, NEW place, req' = [req EXCEPT ![r] = place],
             place.pc = "idle" => place.tok = 0
      PROVE  Rested
  BY <1>1, <1>2, <1>3
<1>4. \A T : Revoke(T) => Len(tokens') = Len(tokens)
  BY <1>1, RevokeRows
<1>5. ASSUME NEW r \in Requests, NEW t \in Ids, ValidateRefresh(r, t)
      PROVE  Rested /\ tokens' = tokens /\ expired' = expired
  <2>1. PICK place : place = [pc |-> "read", tok |-> t, rows |-> {}]
    OBVIOUS
  <2>2. req' = [req EXCEPT ![r] = place] /\ place.pc # "idle"
    BY <1>5, <2>1 DEF ValidateRefresh, Goto
  <2> QED
    BY <1>3, <1>5, <2>2 DEF ValidateRefresh
<1>6. ASSUME NEW r \in Requests, NEW pc, NEW t, NEW T, Goto(r, pc, t, T), pc = "idle" => t = 0
      PROVE  Rested
  <2>1. PICK place : place = [pc |-> pc, tok |-> t, rows |-> T]
    OBVIOUS
  <2>2. req' = [req EXCEPT ![r] = place] /\ (place.pc = "idle" => place.tok = 0)
    BY <1>6, <2>1 DEF Goto
  <2> QED
    BY <1>3, <2>2
<1> HIDE DEF Rested
<1>7. ASSUME NEW r \in Requests,
             ReadToken(r) \/ Claim(r) \/ StartRevokeAll(r) \/ FinishRevokeAll(r) \/ RequestFails(r)
      PROVE  Rested /\ Len(tokens') = Len(tokens) /\ expired' = expired
  <2>1. expired' = expired /\ (tokens' = tokens \/ \E T : Revoke(T))
    BY <1>7 DEF ReadToken, Claim, StartRevokeAll, FinishRevokeAll, RequestFails
  <2>2. Len(tokens') = Len(tokens)
    BY <1>4, <2>1
  <2>3. \E pc, t, T : Goto(r, pc, t, T) /\ (pc = "idle" => t = 0)
    <3>1. CASE ReadToken(r)
      BY <3>1 DEF ReadToken
    <3>2. CASE Claim(r)
      BY <3>2 DEF Claim
    <3>3. CASE StartRevokeAll(r)
      BY <3>3 DEF StartRevokeAll
    <3>4. CASE FinishRevokeAll(r) \/ RequestFails(r)
      BY <3>4 DEF FinishRevokeAll, RequestFails
    <3> QED
      BY <1>7, <3>1, <3>2, <3>3, <3>4
  <2> QED
    BY <1>6, <2>1, <2>2, <2>3
<1>8. ASSUME NEW r \in Requests, CommitRotation(r)
      PROVE  Rested /\ Len(tokens') = Len(tokens) + 1 /\ Len(tokens) < MaxTokens /\ expired' = expired
  <2>1. PICK spent, row : spent = [tokens EXCEPT ![req[r].tok].used = TRUE]
                          /\ tokens' = Append(spent, row)
    BY <1>8 DEF CommitRotation
  <2>2. spent \in Seq(TokenRow) /\ Len(spent) = Len(tokens)
    <3>1. PICK t \in Ids : t = req[r].tok
      BY <1>8 DEF CommitRotation, RotationInv, Tables, Busy
    <3>2. tokens[t] \in TokenRow
      BY InTable
    <3>3. PICK one : one = [tokens[t] EXCEPT !.used = TRUE]
      OBVIOUS
    <3>4. one \in TokenRow
      BY <3>2, <3>3 DEF TokenRow
    <3>5. spent = [tokens EXCEPT ![t] = one]
      BY <2>1, <3>1, <3>3
    <3> QED
      BY <1>1, <3>4, <3>5 DEF Ids
  <2>3. Len(tokens') = Len(tokens) + 1
    BY <2>1, <2>2
  <2>4. Goto(r, "idle", 0, {})
    BY <1>8 DEF CommitRotation
  <2> QED
    BY <1>6, <1>8, <2>3, <2>4 DEF CommitRotation
<1>9. ASSUME NEW w \in Wallets, IssueFamily(w)
      PROVE  req' = req /\ Len(tokens') = Len(tokens) + 1 /\ Len(tokens) < MaxTokens /\ expired' = expired
  BY <1>1, <1>9 DEF IssueFamily
<1>10. ASSUME NEW t \in Ids, Logout(t)
       PROVE  req' = req /\ Len(tokens') = Len(tokens) /\ expired' = expired
  BY <1>4, <1>10 DEF Logout
<1>11. req' = req => Rested
  BY <1>2 DEF Rested
<1>12. /\ Rested
       /\ Len(tokens') = Len(tokens) \/ (Len(tokens') = Len(tokens) + 1 /\ Len(tokens) < MaxTokens)
       /\ expired' = expired \/ (expired' = expired + 1 /\ expired < Len(tokens) /\ tokens' = tokens)
  <2>1. CASE UNCHANGED tokenVars
    BY <1>11, <2>1 DEF tokenVars
  <2>2. CASE ExpireToken
    BY <1>11, <2>2 DEF ExpireToken
  <2>3. CASE \E w \in Wallets : IssueFamily(w)
    BY <1>9, <1>11, <2>3
  <2>4. CASE \E t \in Ids : Logout(t)
    BY <1>10, <1>11, <2>4
  <2>5. CASE \E r \in Requests : CommitRotation(r)
    BY <1>8, <2>5
  <2>6. CASE \E r \in Requests : \E t \in Ids : ValidateRefresh(r, t)
    BY <1>5, <2>6
  <2>7. CASE \E r \in Requests : ReadToken(r) \/ Claim(r) \/ StartRevokeAll(r) \/ FinishRevokeAll(r)
                                 \/ RequestFails(r)
    BY <1>7, <2>7
  <2> QED
    BY <2>1, <2>2, <2>3, <2>4, <2>5, <2>6, <2>7 DEF TokensNext, TokensStep
<1>13. Len(tokens') <= MaxTokens /\ expired' \in 0 .. Len(tokens')
  BY <1>1, <1>12
<1> QED
  BY <1>12, <1>13 DEF TokenBounds, Busy, Rested

\* The rows of refresh_tokens and the requests keep their types.
THEOREM TokensTyped == TokensSpec => []TokensTypeOK
<1>1. TokensInit => TokenBounds
  BY TokensAssumption DEF TokensInit, TokenBounds, Busy, Idle
<1>2. RotationInv /\ TokenBounds /\ [TokensNext]_tokenVars => TokenBounds'
  BY TokenBoundsStep
<1>3. ASSUME RotationInv, TokenBounds
      PROVE  TokensTypeOK
  <2>1. ASSUME NEW t \in Ids
        PROVE  tokens[t] \in [wallet : Wallets, parent : 0 .. t - 1, fam : 1 .. t,
                              depth : 0 .. MaxDepth, used : BOOLEAN, revoked : BOOLEAN]
    <3>1. /\ tokens[t] \in TokenRow /\ t \in Nat
          /\ tokens[t].parent < t /\ 1 <= tokens[t].fam /\ tokens[t].fam <= t
          /\ tokens[t].depth <= MaxDepth
      BY <1>3, InTable DEF RotationInv, Ordered, Tables, Ids
    <3>2. /\ tokens[t].parent \in 0 .. t - 1 /\ tokens[t].fam \in 1 .. t
          /\ tokens[t].depth \in 0 .. MaxDepth
      BY <3>1, TokensAssumption DEF TokenRow
    <3> QED
      BY <3>1, <3>2 DEF TokenRow
  <2>2. presented \in [Ids -> 0 .. 2]
    BY <1>3 DEF RotationInv, Tables, Ids
  <2>3. ASSUME NEW r \in Requests
        PROVE  req[r] \in [pc : {"idle", "read", "claim", "claimed", "replay", "revoking"},
                           tok : {0} \cup Ids, rows : SUBSET Ids]
    <3>1. req[r] \in RequestState /\ req[r].rows \subseteq Ids /\ req[r].tok \in {0} \cup Ids
      BY <1>3 DEF RotationInv, Tables, TokenBounds
    <3> QED
      BY <3>1 DEF RequestState
  <2>4. req \in [Requests -> [pc : {"idle", "read", "claim", "claimed", "replay", "revoking"},
                              tok : {0} \cup Ids, rows : SUBSET Ids]]
    BY <1>3, <2>3 DEF RotationInv, Tables
  <2> QED
    BY <1>3, <2>1, <2>2, <2>4 DEF TokenBounds, TokensTypeOK
<1> QED
  BY <1>1, <1>2, <1>3, RotationIsSound, PTL DEF TokensSpec

\* However the rotations of a token interleave, fail and are retried, it is
\* used exactly when it has one successor, of its family and wallet.
THEOREM TokensFormChains == TokensSpec => []ChainPerFamily
<1>1. ASSUME RotationInv
      PROVE  ChainPerFamily
  <2> SUFFICES ASSUME NEW t \in Ids
               PROVE  LET Next == {u \in Ids : tokens[u].parent = t} IN
                        /\ Cardinality(Next) = IF tokens[t].used THEN 1 ELSE 0
                        /\ \A u \in Next : /\ tokens[u].fam = tokens[t].fam
                                           /\ tokens[u].wallet = tokens[t].wallet
                                           /\ tokens[u].depth = tokens[t].depth + 1
    BY DEF ChainPerFamily
  <2> DEFINE Successors == {u \in Ids : tokens[u].parent = t}
  <2>1. /\ \A u \in Successors : /\ tokens[t].used
                                 /\ tokens[u].fam = tokens[t].fam
                                 /\ tokens[u].wallet = tokens[t].wallet
                                 /\ tokens[u].depth = tokens[t].depth + 1
        /\ \A u, v \in Successors : u = v
        /\ tokens[t].used => Successors # {}
    BY <1>1 DEF RotationInv, Chained
  <2>2. Cardinality(Successors) = IF tokens[t].used THEN 1 ELSE 0
    <3> HIDE DEF Successors
    <3>1. CASE Successors = {}
      BY <2>1, <3>1, FS_EmptySet
    <3>2. ASSUME NEW u \in Successors
          PROVE  Cardinality(Successors) = IF tokens[t].used THEN 1 ELSE 0
      <4>1. Successors = {u}
        BY <2>1, <3>2
      <4> QED
        BY <2>1, <4>1, FS_Singleton
    <3> QED
      BY <3>1, <3>2
  <2> QED
    BY <2>1, <2>2
<1> QED
  BY <1>1, RotationIsSound, PTL

\* A token revoked before it was exchanged is never exchanged afterwards.
THEOREM RevokedNeverExchanged == TokensSpec => RevokedStaysUnused
<1>1. ASSUME RotationInv, [TokensNext]_tokenVars, NEW t \in Ids,
             tokens[t].revoked, ~tokens[t].used, ~Locked({t})
      PROVE  ~tokens'[t].used /\ ~Locked({t})'
  <2> DEFINE Safe == ~tokens'[t].used /\ ~Locked({t})'
  <2>1. \A r \in Requests : req[r].pc = "claimed" => req[r].tok # t
    BY <1>1 DEF Locked
  <2>2. tokens \in Seq(TokenRow) /\ t \in DOMAIN tokens /\ req \in [Requests -> RequestState]
    BY <1>1 DEF RotationInv, Tables, Ids
  <2>3. ASSUME NEW r \in Requests, NEW pc, NEW u, NEW T, Goto(r, pc, u, T), pc = "claimed" => u # t
        PROVE  ~Locked({t})'
    BY <2>1, <2>2, <2>3 DEF Locked, Goto
  <2>4. ASSUME NEW T, Revoke(T)
        PROVE  ~tokens'[t].used
    BY <1>1, <2>4, RevokeRows DEF RotationInv
  <2>5. ASSUME tokens' = tokens, req' = req
        PROVE  Safe
    BY <1>1, <2>5 DEF Locked
  <2>6. ASSUME NEW w \in Wallets, IssueFamily(w)
        PROVE  Safe
    BY <1>1, <2>2, <2>6 DEF IssueFamily, Locked
  <2>7. ASSUME NEW r \in Requests, CommitRotation(r)
        PROVE  Safe
    <3>1. req[r].pc = "claimed" /\ req[r].tok # t
      BY <2>1, <2>7 DEF CommitRotation
    <3>2. tokens'[t] = tokens[t]
      BY <2>2, <2>7, <3>1 DEF CommitRotation
    <3> QED
      BY <1>1, <2>3, <2>7, <3>2 DEF CommitRotation
  <2>8. ASSUME NEW r \in Requests, Claim(r)
        PROVE  Safe
    BY <1>1, <2>3, <2>8 DEF Claim, Claimable
  <2>9. ASSUME NEW r \in Requests, ReadToken(r)
        PROVE  Safe
    BY <1>1, <2>3, <2>4, <2>9 DEF ReadToken
  <2>10. ASSUME NEW r \in Requests,
                \/ \E u \in Ids : ValidateRefresh(r, u)
                \/ StartRevokeAll(r) \/ FinishRevokeAll(r) \/ RequestFails(r)
         PROVE  Safe
    BY <1>1, <2>3, <2>4, <2>10 DEF ValidateRefresh, StartRevokeAll, FinishRevokeAll, RequestFails
  <2>11. ASSUME NEW u \in Ids, Logout(u)
         PROVE  Safe
    BY <1>1, <2>4, <2>11 DEF Logout, Locked
  <2> QED
    BY <1>1, <2>5, <2>6, <2>7, <2>8, <2>9, <2>10, <2>11
       DEF TokensNext, TokensStep, ExpireToken, tokenVars
<1>2. RotationInv /\ [TokensNext]_tokenVars =>
        [\A t \in Ids : tokens[t].revoked /\ ~tokens[t].used /\ ~Locked({t})
                          => ~tokens'[t].used /\ ~Locked({t})']_tokenVars
  BY <1>1
<1> QED
  BY <1>2, RotationIsSound, PTL DEF TokensSpec, RevokedStaysUnused

-----------------------------------------------------------------------------
(* Why tokens are revoked *)

\* A family has one row at each depth, and only the deepest is unused.
Linear ==
    \A t, u \in Ids : tokens[t].fam = tokens[u].fam =>
        /\ tokens[t].depth = tokens[u].depth => t = u
        /\ tokens[t].depth < tokens[u].depth => tokens[t].used

\* Each request in progress has presented its token, and so has the one that
\* exchanged it.
Presentations ==
    /\ \A t \in Ids : tokens[t].used => presented[t] >= 1
    /\ \A r \in Requests, t \in Ids : On(r, t) =>
          /\ presented[t] >= 1
          /\ tokens[t].used => presented[t] = 2
    /\ \A r, q \in Requests, t \in Ids : On(r, t) /\ On(q, t) /\ r # q => presented[t] = 2

Replayed(t) == \E u \in Ids : tokens[u].wallet = tokens[t].wallet /\ presented[u] = 2
Exhausted(t) == \E u \in Ids : /\ tokens[u].fam = tokens[t].fam
                               /\ tokens[u].depth = MaxDepth /\ presented[u] >= 1
LoggedOut(t) == presented[t] >= 1 /\ \A r \in Requests : ~On(r, t)

\* A revoked token has been replayed, or its family is exhausted, or it was
\* logged out and no request has it in hand.
Causes ==
    /\ \A t \in Ids : tokens[t].revoked => Replayed(t) \/ Exhausted(t) \/ LoggedOut(t)
    /\ \A r \in Requests : req[r].pc \in {"replay", "revoking"} =>
          /\ Replayed(req[r].tok)
          /\ \A t \in req[r].rows : tokens[t].wallet = tokens[req[r].tok].wallet

CauseInv == RotationInv /\ Linear /\ Presentations /\ Causes

\* A step that keeps the rows' places and takes no presentation back ...
Grows ==
    /\ Ids \subseteq Ids'
    /\ \A t \in Ids : /\ tokens'[t].wallet = tokens[t].wallet
                      /\ tokens'[t].fam = tokens[t].fam
                      /\ tokens'[t].depth = tokens[t].depth
                      /\ presented[t] \in 0 .. 2 /\ presented'[t] \in presented[t] .. 2

\* ... leaves a cause a cause.
LEMMA CausesLast ==
    ASSUME Grows, NEW t \in Ids
    PROVE  (Replayed(t) => Replayed(t)') /\ (Exhausted(t) => Exhausted(t)')
<1>1. ASSUME NEW u \in Ids, tokens[u].wallet = tokens[t].wallet, presented[u] = 2
      PROVE  Replayed(t)'
  BY <1>1 DEF Grows, Replayed
<1>2. ASSUME NEW u \in Ids, tokens[u].fam = tokens[t].fam, tokens[u].depth = MaxDepth, presented[u] >= 1
      PROVE  Exhausted(t)'
  BY <1>2 DEF Grows, Exhausted
<1> QED
  BY <1>1, <1>2 DEF Replayed, Exhausted

\* A request moves on with the token it has in hand, or lets go of it.
LEMMA ShiftKeepsCauses ==
    ASSUME CauseInv, NEW r \in Requests, NEW state, req' = [req EXCEPT ![r] = state],
           tokens' = tokens, presented' = presented,
           state.pc # "idle" => On(r, state.tok),
           state.pc \in {"replay", "revoking"} =>
              /\ Replayed(state.tok)
              /\ \A t \in state.rows : tokens[t].wallet = tokens[state.tok].wallet
    PROVE  Linear' /\ Presentations' /\ Causes'
<1>1. Ids' = Ids /\ \A t \in Ids : Replayed(t)' = Replayed(t) /\ Exhausted(t)' = Exhausted(t)
  BY DEF Ids, Replayed, Exhausted
<1>2. /\ req \in [Requests -> RequestState] /\ req'[r] = state
      /\ \A q \in Requests \ {r} : req'[q] = req[q]
  BY DEF CauseInv, RotationInv, Tables
<1>3. \A q \in Requests, t \in Ids : On(q, t)' => On(q, t)
  BY <1>2 DEF On, Busy
<1>4. Linear'
  BY <1>1 DEF CauseInv, Linear
<1>5. Presentations'
  BY <1>1, <1>3 DEF CauseInv, Presentations
<1>6. Causes'
  <2>1. \A t \in Ids : LoggedOut(t) => LoggedOut(t)'
    BY <1>3 DEF LoggedOut
  <2>2. ASSUME NEW q \in Requests, req'[q].pc \in {"replay", "revoking"}
        PROVE  /\ Replayed(req[q].tok)'
               /\ \A t \in req'[q].rows : tokens'[t].wallet = tokens'[req'[q].tok].wallet
    <3>1. CASE q = r
      BY <1>2, <2>2, <3>1 DEF Replayed, Ids
    <3>2. CASE q # r
      BY <1>2, <2>2, <3>2 DEF Replayed, Ids, CauseInv, Causes
    <3> QED
      BY <3>1, <3>2
  <2> QED
    BY <1>1, <2>1, <2>2 DEF CauseInv, Causes
<1> QED
  BY <1>4, <1>5, <1>6

\* Rows are revoked for a cause.
LEMMA RevocationHasCause ==
    ASSUME CauseInv, NEW T, Revoke(T), NEW r \in Requests,
           req' = [req EXCEPT ![r] = [pc |-> "idle", tok |-> 0, rows |-> {}]],
           presented' = presented,
           \A t \in Ids : t \in T => Replayed(t) \/ Exhausted(t)
    PROVE  Linear' /\ Presentations' /\ Causes'
<1>1. /\ Ids' = Ids
      /\ \A t \in Ids : /\ tokens'[t].wallet = tokens[t].wallet
                        /\ tokens'[t].fam = tokens[t].fam
                        /\ tokens'[t].depth = tokens[t].depth
                        /\ tokens'[t].used <=> tokens[t].used
                        /\ tokens'[t].revoked <=> (t \in T \/ tokens[t].revoked)
  BY RevokeRows DEF CauseInv, RotationInv
<1>2. /\ req \in [Requests -> RequestState] /\ req'[r].pc = "idle"
      /\ \A q \in Requests \ {r} : req'[q] = req[q]
  BY DEF CauseInv, RotationInv, Tables
<1>3. \A q \in Requests, t \in Ids : On(q, t)' => On(q, t)
  BY <1>2 DEF On, Busy
<1>4. \A t \in Ids : Replayed(t)' = Replayed(t) /\ Exhausted(t)' = Exhausted(t)
  BY <1>1 DEF Replayed, Exhausted
<1>5. Linear'
  BY <1>1 DEF CauseInv, Linear
<1>6. Presentations'
  BY <1>1, <1>3 DEF CauseInv, Presentations
<1>7. Causes'
  <2>1. \A t \in Ids : LoggedOut(t) => LoggedOut(t)'
    BY <1>3 DEF LoggedOut
  <2>2. ASSUME NEW q \in Requests, req'[q].pc \in {"replay", "revoking"}
        PROVE  /\ Replayed(req[q].tok)'
               /\ \A t \in req'[q].rows : tokens'[t].wallet = tokens'[req'[q].tok].wallet
    <3>1. q # r /\ req'[q] = req[q] /\ req[q].tok \in Ids /\ req[q].rows \subseteq Ids
      BY <1>2, <2>2, InTable DEF CauseInv, RotationInv, Tables
    <3>2. /\ Replayed(req[q].tok)
          /\ \A t \in req[q].rows : tokens[t].wallet = tokens[req[q].tok].wallet
      BY <2>2, <3>1 DEF CauseInv, Causes
    <3> QED
      BY <1>1, <3>1, <3>2 DEF Replayed
  <2> QED
    BY <1>1, <1>4, <2>1, <2>2 DEF CauseInv, Causes
<1> QED
  BY <1>5, <1>6, <1>7

\* A token is presented: to refresh by a request that takes it in hand, or to
\* logout, which revokes it.
LEMMA PresentKeepsCauses ==
    ASSUME CauseInv, NEW t \in Ids, Present(t), Ids' = Ids,
           NEW hands,
           \A u \in Ids : /\ tokens'[u].wallet = tokens[u].wallet
                          /\ tokens'[u].fam = tokens[u].fam
                          /\ tokens'[u].depth = tokens[u].depth
                          /\ tokens'[u].used <=> tokens[u].used
                          /\ tokens'[u].revoked => tokens[u].revoked \/ (u = t /\ hands = {}),
           hands = {q \in Requests : req'[q] # req[q]},
           \A q \in Requests : req'[q] = req[q] \/ (req'[q].pc = "read" /\ req'[q].tok = t),
           \A q \in hands : req[q].pc = "idle",
           \A q, p \in hands : q = p
    PROVE  Linear' /\ Presentations' /\ Causes'
<1>1. \A u \in Ids : /\ presented[u] \in 0 .. 2
                     /\ presented'[u] = IF u = t /\ presented[u] < 2 THEN presented[u] + 1
                                                                     ELSE presented[u]
  BY PresentToken DEF CauseInv, RotationInv
<1>2. Grows
  BY <1>1 DEF Grows
<1>3. \A q \in Requests, u \in Ids : On(q, u)' => On(q, u) \/ (u = t /\ q \in hands /\ ~Busy(q))
  BY DEF On, Busy
<1>4. \A q \in Requests : ~On(q, t) \/ presented[t] >= 1
  BY DEF CauseInv, Presentations
<1>5. Linear'
  BY DEF CauseInv, Linear
<1>6. Presentations'
  <2>1. \A u \in Ids : tokens'[u].used => presented'[u] >= 1
    BY <1>1 DEF CauseInv, Presentations
  <2>2. ASSUME NEW q \in Requests, NEW u \in Ids, On(q, u)'
        PROVE  presented'[u] >= 1 /\ (tokens'[u].used => presented'[u] = 2)
    <3>1. CASE On(q, u)
      BY <1>1, <3>1 DEF CauseInv, Presentations
    <3>2. CASE u = t
      BY <1>1, <3>2 DEF CauseInv, Presentations
    <3> QED
      BY <1>3, <2>2, <3>1, <3>2
  <2>3. ASSUME NEW q \in Requests, NEW p \in Requests, NEW u \in Ids, On(q, u)', On(p, u)', q # p
        PROVE  presented'[u] = 2
    <3>1. CASE On(q, u) /\ On(p, u)
      BY <1>1, <2>3, <3>1 DEF CauseInv, Presentations
    <3>2. CASE u = t /\ (On(q, t) \/ On(p, t))
      BY <1>1, <1>4, <3>2
    <3> QED
      BY <1>3, <2>3, <3>1, <3>2
  <2> QED
    BY <2>1, <2>2, <2>3 DEF Presentations
<1>7. Causes'
  <2>1. ASSUME NEW u \in Ids, tokens'[u].revoked
        PROVE  Replayed(u)' \/ Exhausted(u)' \/ LoggedOut(u)'
    <3>1. CASE Replayed(u) \/ Exhausted(u)
      BY <1>2, <3>1, CausesLast
    <3>2. CASE u = t /\ presented'[t] = 2
      BY <3>2 DEF Replayed
    <3>3. CASE u = t /\ hands = {} /\ presented'[t] # 2
      <4>1. presented'[t] >= 1 /\ presented[t] = 0
        BY <1>1, <3>3
      <4>2. \A q \in Requests : ~On(q, t)
        BY <1>4, <4>1
      <4>3. \A q \in Requests : ~On(q, t)'
        BY <1>3, <3>3, <4>2
      <4> QED
        BY <3>3, <4>1, <4>3 DEF LoggedOut
    <3>4. CASE LoggedOut(u) /\ u # t
      BY <1>1, <1>3, <3>4 DEF LoggedOut
    <3>5. CASE LoggedOut(u) /\ u = t
      BY <1>1, <3>2, <3>5 DEF LoggedOut
    <3>6. tokens[u].revoked \/ (u = t /\ hands = {})
      BY <2>1
    <3> QED
      BY <3>1, <3>2, <3>3, <3>4, <3>5, <3>6 DEF CauseInv, Causes
  <2>2. ASSUME NEW q \in Requests, req'[q].pc \in {"replay", "revoking"}
        PROVE  /\ Replayed(req[q].tok)'
               /\ \A u \in req'[q].rows : tokens'[u].wallet = tokens'[req'[q].tok].wallet
    <3>1. req'[q] = req[q] /\ req[q].tok \in Ids /\ req[q].rows \subseteq Ids
      BY <2>2, InTable DEF CauseInv, RotationInv, Tables
    <3>2. /\ Replayed(req[q].tok)
          /\ \A u \in req[q].rows : tokens[u].wallet = tokens[req[q].tok].wallet
      BY <2>2, <3>1 DEF CauseInv, Causes
    <3>3. Replayed(req[q].tok)'
      BY <1>2, <3>1, <3>2, CausesLast DEF Replayed
    <3> QED
      BY <3>1, <3>2, <3>3
  <2> QED
    BY <2>1, <2>2 DEF Causes
<1> QED
  BY <1>5, <1>6, <1>7

\* The successor of a row is the deepest of its family, and nobody has it yet.
LEMMA CommitKeepsCauses ==
    ASSUME CauseInv, NEW r \in Requests, CommitRotation(r)
    PROVE  Linear' /\ Presentations' /\ Causes'
<1> DEFINE t == req[r].tok
           n == Len(tokens) + 1
<1>1. /\ t \in Ids /\ tokens[t] \in TokenRow /\ Ids = 1 .. Len(tokens) /\ Len(tokens) \in Nat
      /\ req[r].pc = "claimed" /\ ~tokens[t].used
      /\ tokens' \in Seq(TokenRow) /\ presented' \in Seq(0 .. 2) /\ Ids' = Ids \cup {n}
      /\ \A u \in Ids : presented'[u] = presented[u] /\ presented[u] \in 0 .. 2
      /\ presented'[n] = 0
      /\ \A u \in Ids : /\ tokens'[u].wallet = tokens[u].wallet
                        /\ tokens'[u].fam = tokens[u].fam
                        /\ tokens'[u].depth = tokens[u].depth
                        /\ tokens'[u].used <=> (u = t \/ tokens[u].used)
                        /\ tokens'[u].revoked <=> tokens[u].revoked
      /\ tokens'[n].fam = tokens[t].fam /\ ~tokens'[n].used /\ ~tokens'[n].revoked
      /\ tokens'[n].depth = tokens[t].depth + 1
  BY CommitRow DEF CauseInv
<1> HIDE DEF n
<1>2. /\ req \in [Requests -> RequestState] /\ req'[r].pc = "idle"
      /\ \A q \in Requests \ {r} : req'[q] = req[q]
  BY DEF CauseInv, RotationInv, Tables, CommitRotation, Goto
<1>3. \A q \in Requests, u \in Ids' : On(q, u)' => u \in Ids /\ On(q, u) /\ q # r
  BY <1>2, InTable DEF CauseInv, On, Busy
<1>5. On(r, t) /\ presented[t] >= 1
  BY <1>1 DEF On, Busy, CauseInv, Presentations
<1>6. Grows
  BY <1>1 DEF Grows
<1>7. Linear'
  <2>1. \A u \in Ids : tokens[u] \in TokenRow
    BY InTable DEF CauseInv
  <2>2. \A u \in Ids : /\ tokens[u].depth \in Nat
                       /\ tokens[u].fam = tokens[t].fam =>
                            tokens[u].depth <= tokens[t].depth /\ (tokens[u].depth = tokens[t].depth => u = t)
    <3>1. \A u \in Ids : tokens[u].depth \in Nat
      BY <2>1 DEF TokenRow
    <3>2. \A u \in Ids : tokens[u].fam = tokens[t].fam =>
             /\ tokens[u].depth = tokens[t].depth => u = t
             /\ ~(tokens[t].depth < tokens[u].depth)
      BY <1>1 DEF CauseInv, Linear
    <3> HIDE DEF t
    <3> QED
      BY <1>1, <3>1, <3>2
  <2>3. ASSUME NEW u \in Ids', NEW v \in Ids', tokens'[u].fam = tokens'[v].fam
        PROVE  /\ tokens'[u].depth = tokens'[v].depth => u = v
               /\ tokens'[u].depth < tokens'[v].depth => tokens'[u].used
    <3> HIDE DEF t
    <3>1. CASE u \in Ids /\ v \in Ids
      BY <1>1, <2>3, <3>1 DEF CauseInv, Linear
    <3>2. CASE u = n /\ v = n
      BY <1>1, <3>2, <2>2
    <3>3. CASE u \in Ids /\ v = n
      <4>1. tokens[u].fam = tokens[t].fam /\ tokens'[u].depth = tokens[u].depth
        BY <1>1, <2>3, <3>3
      <4>2. tokens[u].depth <= tokens[t].depth
        BY <2>2, <3>3, <4>1
      <4>3. tokens'[u].used
        <5>1. CASE tokens[u].depth < tokens[t].depth
          BY <1>1, <3>3, <4>1, <5>1 DEF CauseInv, Linear
        <5>2. CASE tokens[u].depth = tokens[t].depth
          BY <1>1, <2>2, <3>3, <4>1, <5>2
        <5> QED
          BY <1>1, <2>2, <3>3, <4>2, <5>1, <5>2
      <4> QED
        BY <1>1, <2>2, <3>3, <4>1, <4>2, <4>3
    <3>4. CASE u = n /\ v \in Ids
      <4>1. tokens[v].fam = tokens[t].fam /\ tokens'[v].depth = tokens[v].depth
        BY <1>1, <2>3, <3>4
      <4> QED
        BY <1>1, <2>2, <3>4, <4>1
    <3> QED
      BY <1>1, <3>1, <3>2, <3>3, <3>4
  <2> QED
    BY <2>3 DEF Linear
<1>8. Presentations'
  <2>1. \A u \in Ids' : tokens'[u].used => presented'[u] >= 1
    BY <1>1, <1>5 DEF CauseInv, Presentations
  <2>2. ASSUME NEW q \in Requests, NEW u \in Ids', On(q, u)'
        PROVE  presented'[u] >= 1 /\ (tokens'[u].used => presented'[u] = 2)
    <3>1. u \in Ids /\ On(q, u) /\ q # r
      BY <1>3, <2>2
    <3>2. u = t => presented[u] = 2
      BY <1>5, <3>1 DEF CauseInv, Presentations
    <3>3. presented[u] >= 1 /\ (tokens[u].used => presented[u] = 2)
      BY <3>1 DEF CauseInv, Presentations
    <3> HIDE DEF t
    <3> QED
      BY <1>1, <3>1, <3>2, <3>3
  <2>3. \A q, p \in Requests, u \in Ids' : On(q, u)' /\ On(p, u)' /\ q # p => presented'[u] = 2
    BY <1>1, <1>3 DEF CauseInv, Presentations
  <2> QED
    BY <2>1, <2>2, <2>3 DEF Presentations
<1>9. Causes'
  <2>1. ASSUME NEW u \in Ids', tokens'[u].revoked
        PROVE  Replayed(u)' \/ Exhausted(u)' \/ LoggedOut(u)'
    <3>1. u \in Ids /\ tokens[u].revoked
      BY <1>1, <2>1
    <3>2. LoggedOut(u) => LoggedOut(u)'
      BY <1>1, <1>3, <3>1 DEF LoggedOut
    <3> QED
      BY <1>6, <3>1, <3>2, CausesLast DEF CauseInv, Causes
  <2>2. ASSUME NEW q \in Requests, req'[q].pc \in {"replay", "revoking"}
        PROVE  /\ Replayed(req[q].tok)'
               /\ \A u \in req'[q].rows : tokens'[u].wallet = tokens'[req'[q].tok].wallet
    <3>1. req'[q] = req[q] /\ req[q].tok \in Ids /\ req[q].rows \subseteq Ids
      BY <1>2, <2>2, InTable DEF CauseInv, RotationInv, Tables
    <3>2. /\ Replayed(req[q].tok)
          /\ \A u \in req[q].rows : tokens[u].wallet = tokens[req[q].tok].wallet
      BY <2>2, <3>1 DEF CauseInv, Causes
    <3>3. Replayed(req[q].tok)'
      BY <1>6, <3>1, <3>2, CausesLast DEF Replayed
    <3>4. \A u \in Ids : tokens'[u].wallet = tokens[u].wallet
      BY <1>1
    <3> QED
      BY <3>1, <3>2, <3>3, <3>4
  <2> QED
    BY <2>1, <2>2 DEF Causes
<1> QED
  BY <1>7, <1>8, <1>9

\* A login gives every revoked token the cause it had.
LEMMA IssueKeepsCauses ==
    ASSUME CauseInv, NEW w \in Wallets, IssueFamily(w)
    PROVE  Linear' /\ Presentations' /\ Causes'
<1> DEFINE n == Len(tokens) + 1
<1>1. Row(w, 0, n, 0) \in TokenRow
  BY DEF Row, TokenRow, CauseInv, RotationInv, Tables
<1>2. /\ Ids = 1 .. Len(tokens) /\ Len(tokens) \in Nat /\ Ids' = Ids \cup {n} /\ req' = req
      /\ \A u \in Ids : tokens'[u] = tokens[u] /\ presented'[u] = presented[u]
      /\ tokens'[n] = Row(w, 0, n, 0) /\ presented'[n] = 0
  BY <1>1, AppendRow DEF IssueFamily, CauseInv, RotationInv, Tables
<1>3. tokens'[n].fam = n /\ tokens'[n].depth = 0 /\ ~tokens'[n].used /\ ~tokens'[n].revoked
  BY <1>2 DEF Row
<1>4. /\ \A u \in Ids : presented[u] \in 0 .. 2 /\ tokens[u].fam < n /\ tokens[u].fam \in Nat
      /\ \A q \in Requests : req[q].pc # "idle" => req[q].tok \in Ids /\ req[q].rows \subseteq Ids
  <2>1. \A u \in Ids : presented[u] \in 0 .. 2
    BY <1>2 DEF CauseInv, RotationInv, Tables
  <2>2. \A u \in Ids : tokens[u].fam <= u /\ tokens[u].fam \in Nat
    BY InTable DEF CauseInv, RotationInv, Ordered, TokenRow
  <2>3. \A q \in Requests : req[q].pc # "idle" => req[q].tok \in Ids /\ req[q].rows \subseteq Ids
    BY DEF CauseInv, RotationInv, Tables, Busy
  <2> QED
    BY <1>2, <2>1, <2>2, <2>3
<1>5. Grows
  BY <1>2, <1>4 DEF Grows
<1>6. \A q \in Requests, u \in Ids' : On(q, u)' => u \in Ids /\ On(q, u)
  BY <1>2, <1>4 DEF On, Busy
<1>7. Linear'
  BY <1>2, <1>3, <1>4 DEF CauseInv, Linear
<1>8. Presentations'
  BY <1>2, <1>3, <1>6 DEF CauseInv, Presentations
<1>9. Causes'
  <2>1. ASSUME NEW u \in Ids', tokens'[u].revoked
        PROVE  Replayed(u)' \/ Exhausted(u)' \/ LoggedOut(u)'
    <3>1. u \in Ids /\ tokens[u].revoked
      BY <1>2, <1>3, <2>1
    <3>2. LoggedOut(u) => LoggedOut(u)'
      BY <1>2, <1>6, <3>1 DEF LoggedOut
    <3> QED
      BY <1>5, <3>1, <3>2, CausesLast DEF CauseInv, Causes
  <2>2. ASSUME NEW q \in Requests, req[q].pc \in {"replay", "revoking"}
        PROVE  /\ Replayed(req[q].tok)'
               /\ \A u \in req[q].rows : tokens'[u].wallet = tokens'[req[q].tok].wallet
    <3>1. /\ Replayed(req[q].tok)
          /\ \A u \in req[q].rows : tokens[u].wallet = tokens[req[q].tok].wallet
      BY <2>2 DEF CauseInv, Causes
    <3>2. Replayed(req[q].tok)'
      BY <1>2, <1>4, <1>5, <2>2, <3>1, CausesLast DEF Replayed
    <3> QED
      BY <1>2, <1>4, <2>2, <3>1, <3>2
  <2> QED
    BY <1>2, <2>1, <2>2 DEF Causes
<1> QED
  BY <1>7, <1>8, <1>9

\* A claim that finds its token taken has met a replay: the depth limit and a
\* logout cannot take a token that a request holds below the limit.
LEMMA TakenIsReplayed ==
    ASSUME CauseInv, NEW r \in Requests, req[r].pc = "claim", ~Claimable(req[r].tok)
    PROVE  Replayed(req[r].tok)
<1> DEFINE t == req[r].tok
<1>1. t \in Ids /\ On(r, t) /\ tokens[t] \in TokenRow /\ tokens[t].depth < MaxDepth
  BY InTable DEF CauseInv, RotationInv, Ordered, On, Busy
<1>2. CASE tokens[t].used
  BY <1>1, <1>2 DEF CauseInv, Presentations, Replayed
<1>3. CASE tokens[t].revoked /\ ~tokens[t].used
  <2>1. ~LoggedOut(t)
    BY <1>1 DEF LoggedOut
  <2>2. ~Exhausted(t)
    BY <1>1, <1>3, TokensAssumption DEF CauseInv, Linear, Exhausted
  <2> QED
    BY <1>1, <1>3, <2>1, <2>2 DEF CauseInv, Causes
<1> QED
  BY <1>2, <1>3 DEF Claimable

\* Every step of the tokens keeps a cause for every revoked one.
LEMMA CauseStep ==
    ASSUME CauseInv, [TokensNext]_tokenVars
    PROVE  CauseInv'
<1> DEFINE Kept == Linear' /\ Presentations' /\ Causes'
<1>1. RotationInv'
  BY RotationStep DEF CauseInv
<1>2. \A r \in Requests : req[r].pc # "idle" => req[r].tok \in Ids /\ On(r, req[r].tok)
  BY InTable DEF CauseInv, On, Busy
<1>3. ASSUME NEW r \in Requests, NEW t \in Ids, ValidateRefresh(r, t)
      PROVE  Kept
  <2>1. /\ Ids' = Ids /\ tokens' = tokens /\ Present(t) /\ req[r].pc = "idle"
        /\ req'[r].pc = "read" /\ req'[r].tok = t
        /\ \A q \in Requests \ {r} : req'[q] = req[q]
    BY <1>3 DEF ValidateRefresh, Goto, Ids, CauseInv, RotationInv, Tables
  <2>2. {q \in Requests : req'[q] # req[q]} = {r}
    BY <2>1
  <2> QED
    BY <2>1, <2>2, PresentKeepsCauses
<1>4. ASSUME NEW r \in Requests, ReadToken(r)
      PROVE  Kept
  <2> DEFINE t == req[r].tok
  <2>1. t \in Ids /\ On(r, t) /\ presented' = presented
    BY <1>2, <1>4 DEF ReadToken
  <2>2. CASE tokens[t].used /\ Goto(r, "replay", t, {}) /\ tokens' = tokens
    <3>1. Replayed(t)
      BY <2>1, <2>2 DEF CauseInv, Presentations, Replayed
    <3> QED
      BY <2>1, <2>2, <3>1, ShiftKeepsCauses DEF Goto
  <2>3. CASE (Goto(r, "idle", 0, {}) \/ Goto(r, "claim", t, {})) /\ tokens' = tokens
    BY <2>1, <2>3, ShiftKeepsCauses DEF Goto
  <2>4. CASE tokens[t].depth >= MaxDepth /\ Revoke(Family(t)) /\ Goto(r, "idle", 0, {})
    <3>1. tokens[t].depth = MaxDepth /\ presented[t] >= 1
      BY <2>1, <2>4, InTable, TokensAssumption
         DEF CauseInv, RotationInv, Ordered, Presentations, TokenRow
    <3>2. \A u \in Ids : u \in Family(t) => Exhausted(u)
      BY <2>1, <3>1 DEF Family, Exhausted
    <3> QED
      BY <2>1, <2>4, <3>2, RevocationHasCause DEF Goto
  <2> QED
    BY <1>4, <2>2, <2>3, <2>4 DEF ReadToken
<1>5. ASSUME NEW r \in Requests, Claim(r)
      PROVE  Kept
  <2>1. On(r, req[r].tok) /\ presented' = presented /\ tokens' = tokens /\ req[r].pc = "claim"
    BY <1>2, <1>5 DEF Claim
  <2>2. CASE Claimable(req[r].tok)
    BY <1>5, <2>1, <2>2, ShiftKeepsCauses DEF Claim, Goto
  <2>3. CASE ~Claimable(req[r].tok)
    BY <1>5, <2>1, <2>3, TakenIsReplayed, ShiftKeepsCauses DEF Claim, Goto
  <2> QED
    BY <2>2, <2>3
<1>6. ASSUME NEW r \in Requests, StartRevokeAll(r)
      PROVE  Kept
  <2>1. On(r, req[r].tok) /\ Replayed(req[r].tok)
    BY <1>2, <1>6 DEF StartRevokeAll, CauseInv, Causes
  <2> QED
    BY <1>6, <2>1, ShiftKeepsCauses DEF StartRevokeAll, Goto, RowsOf
<1>7. ASSUME NEW r \in Requests, FinishRevokeAll(r)
      PROVE  Kept
  <2>1. /\ Replayed(req[r].tok)
        /\ \A t \in req[r].rows : tokens[t].wallet = tokens[req[r].tok].wallet
    BY <1>7 DEF FinishRevokeAll, CauseInv, Causes
  <2>2. \A t \in Ids : t \in req[r].rows => Replayed(t)
    BY <2>1 DEF Replayed
  <2> QED
    BY <1>7, <2>2, RevocationHasCause DEF FinishRevokeAll, Goto
<1>8. ASSUME NEW r \in Requests, RequestFails(r)
      PROVE  Kept
  BY <1>8, ShiftKeepsCauses DEF RequestFails, Goto
<1>9. ASSUME NEW t \in Ids, Logout(t)
      PROVE  Kept
  <2>1. /\ Ids' = Ids
        /\ \A u \in Ids : /\ tokens'[u].wallet = tokens[u].wallet
                          /\ tokens'[u].fam = tokens[u].fam
                          /\ tokens'[u].depth = tokens[u].depth
                          /\ tokens'[u].used <=> tokens[u].used
                          /\ tokens'[u].revoked <=> (u \in {t} \/ tokens[u].revoked)
    BY <1>9, RevokeRows DEF Logout, CauseInv, RotationInv
  <2>2. PICK hands : hands = {q \in Requests : req'[q] # req[q]}
    OBVIOUS
  <2>3. hands = {} /\ req' = req /\ Present(t)
    BY <1>9, <2>2 DEF Logout
  <2>4. \A u \in Ids : tokens'[u].revoked => tokens[u].revoked \/ (u = t /\ hands = {})
    BY <2>1, <2>3
  <2> QED
    BY <2>1, <2>2, <2>3, <2>4, PresentKeepsCauses
<1>10. ASSUME UNCHANGED <<tokens, req, presented>>
       PROVE  Kept
  BY <1>10 DEF CauseInv, Linear, Presentations, Causes, Ids, On, Busy, Replayed, Exhausted, LoggedOut
<1>11. Kept
  BY <1>3, <1>4, <1>5, <1>6, <1>7, <1>8, <1>9, <1>10, CommitKeepsCauses, IssueKeepsCauses
     DEF TokensNext, TokensStep, ExpireToken, tokenVars
<1> QED
  BY <1>1, <1>11 DEF CauseInv

\* A client loses a token only for a reason within its own wallet: a logout
\* with it, a token presented twice, or a family at its depth limit.
THEOREM RevocationsHaveCauses == TokensSpec => []RevokedWithCause
<1>1. TokensInit => CauseInv
  BY DEF TokensInit, CauseInv, RotationInv, Tables, Ordered, Claims, Chained, Linear, Presentations,
         Causes, Ids, Busy, On, Idle, RequestState
<1>2. CauseInv /\ [TokensNext]_tokenVars => CauseInv'
  BY CauseStep
<1>3. CauseInv => RevokedWithCause
  BY DEF CauseInv, Causes, Replayed, Exhausted, LoggedOut, RevokedWithCause, Family
<1> QED
  BY <1>1, <1>2, <1>3, PTL DEF TokensSpec

-----------------------------------------------------------------------------
(* Lockout after failed logins *)

\* What the steps keep of the types.
Counters ==
    /\ keys \in [Kinds -> [n : Nat, ttl : BOOLEAN]] /\ lost \in {0, 1}
    /\ login \in [Logins -> [pc : {"idle", "incr", "expire", "verify", "lock", "clear",
                                   "success", "issue"}, key : Kinds, n : Nat]]

\* The logins that have reached the threshold and not cleared the counter yet.
Locking(l) ==
    \/ login[l].pc \in {"lock", "clear"}
    \/ login[l].pc \in {"incr", "expire"} /\ login[l].key = "lockouts"
    \/ login[l].pc = "expire" /\ login[l].key = "fail" /\ Threshold = 1

Lockers == {l \in Logins : Locking(l)}

\* Each failure past the threshold is owed to one of them.
FailuresOwed == keys["fail"].n < Threshold + Cardinality(Lockers) + lost

LockoutInv == Counters /\ CountersExpire /\ FailuresOwed

\* Finite sets that differ by an element.
LEMMA OneMore ==
    ASSUME NEW S, NEW T, NEW x, IsFiniteSet(T), S \cup {x} \subseteq T, x \notin S
    PROVE  Cardinality(S) \in Nat /\ Cardinality(T) \in Nat /\ Cardinality(S) + 1 <= Cardinality(T)
<1>1. IsFiniteSet(S)
  BY FS_Subset
<1>2. IsFiniteSet(S \cup {x}) /\ Cardinality(S \cup {x}) = Cardinality(S) + 1
  BY <1>1, FS_AddElement
<1>3. Cardinality(S \cup {x}) <= Cardinality(T)
  BY FS_Subset
<1> QED
  BY <1>1, <1>2, <1>3, FS_CardinalityType

\* Taking a set from one with at most one more member costs at most one.
LEMMA OneLess ==
    ASSUME NEW S, NEW T, NEW x, IsFiniteSet(T), S \subseteq T \cup {x}
    PROVE  /\ IsFiniteSet(S) /\ Cardinality(S) \in Nat /\ Cardinality(T) \in Nat
           /\ Cardinality(S) <= Cardinality(T) + 1
<1>1. /\ IsFiniteSet(T \cup {x})
      /\ Cardinality(T \cup {x}) = Cardinality(T) \/ Cardinality(T \cup {x}) = Cardinality(T) + 1
  BY FS_AddElement
<1>2. IsFiniteSet(S) /\ Cardinality(S) <= Cardinality(T \cup {x})
  BY <1>1, FS_Subset
<1> QED
  BY <1>1, <1>2, FS_CardinalityType

\* One login moves: its part in the count.
LEMMA LockersCount ==
    ASSUME Counters, NEW l \in Logins, NEW place, Go(l, place)
    PROVE  /\ Cardinality(Lockers) \in Nat /\ Cardinality(Lockers') \in Nat
           /\ Cardinality(Lockers) <= Cardinality(Lockers') + 1
           /\ ~Locking(l) \/ Locking(l)' => Cardinality(Lockers) <= Cardinality(Lockers')
           /\ ~Locking(l) /\ Locking(l)' => Cardinality(Lockers) + 1 <= Cardinality(Lockers')
<1>1. \A q \in Logins \ {l} : Locking(q)' <=> Locking(q)
  BY DEF Counters, Go, Locking
<1>2. IsFiniteSet(Lockers) /\ IsFiniteSet(Lockers')
  BY LockoutAssumption, FS_Subset DEF Lockers
<1>3. Lockers \subseteq Lockers' \cup {l}
  BY <1>1 DEF Lockers
<1>4. ~Locking(l) \/ Locking(l)' => Lockers \subseteq Lockers'
  BY <1>1 DEF Lockers
<1>5. ~Locking(l) /\ Locking(l)' => l \notin Lockers /\ Lockers \cup {l} \subseteq Lockers'
  BY <1>1 DEF Lockers
<1> HIDE DEF Lockers
<1>6. Cardinality(Lockers) <= Cardinality(Lockers') + 1
  BY <1>2, <1>3, OneLess
<1>7. ~Locking(l) \/ Locking(l)' => Cardinality(Lockers) <= Cardinality(Lockers')
  BY <1>2, <1>4, FS_Subset
<1>8. ~Locking(l) /\ Locking(l)' => Cardinality(Lockers) + 1 <= Cardinality(Lockers')
  BY <1>2, <1>5, OneMore
<1> QED
  BY <1>2, <1>6, <1>7, <1>8, FS_CardinalityType

\* Where a login goes after INCR is one of its places.
LEMMA AfterIncrTyped ==
    ASSUME NEW k \in Kinds, NEW n \in Nat
    PROVE  AfterIncr(k, n) \in [pc : {"idle", "incr", "verify", "lock"}, key : Kinds, n : Nat]
BY DEF AfterIncr, Rest, At, Kinds

\* Counters, lock and logins keep their types.
LEMMA LockoutTypes ==
    ASSUME Counters, [LockoutStep]_lockVars
    PROVE  Counters'
<1> DEFINE Places == [pc : {"idle", "incr", "expire", "verify", "lock", "clear", "success", "issue"},
                      key : Kinds, n : Nat]
<1>1. ASSUME NEW pc \in {"idle", "incr", "expire", "verify", "lock", "clear", "success", "issue"},
             NEW k \in Kinds, NEW n \in Nat
      PROVE  At(pc, k, n) \in Places
  BY DEF At
<1>2. {"rate", "fail", "lockouts"} = Kinds /\ Rest \in Places
  BY <1>1 DEF Kinds, Rest
<1>3. \A l \in Logins : /\ login[l].key \in Kinds /\ login[l].n \in Nat
                        /\ \A k \in Kinds : keys[k].n \in Nat /\ keys[k].n + 1 \in Nat
  BY DEF Counters
<1>4. ASSUME NEW l \in Logins, NEW place \in Places, Go(l, place)
      PROVE  login' \in [Logins -> Places]
  BY <1>4 DEF Counters, Go
<1>5. ASSUME NEW l \in Logins, Incr(l)
      PROVE  Counters'
  <2> DEFINE k == login[l].key
             n == keys[k].n + 1
  <2>1. k \in Kinds /\ n \in Nat
    BY <1>3
  <2>2. At("expire", k, 0) \in Places /\ AfterIncr(k, n) \in Places
    BY <1>1, <2>1, AfterIncrTyped
  <2>3. Go(l, IF IsNew(n) THEN At("expire", k, 0) ELSE AfterIncr(k, n)) /\ lost' = lost
        /\ keys' = [keys EXCEPT ![k].n = n]
    BY <1>5 DEF Incr
  <2>4. login' \in [Logins -> Places]
    BY <1>4, <2>2, <2>3
  <2>5. keys' \in [Kinds -> [n : Nat, ttl : BOOLEAN]]
    <3> HIDE DEF k, n
    <3> QED
      BY <2>1, <2>3 DEF Counters
  <2> QED
    BY <2>3, <2>4, <2>5 DEF Counters
<1>6. ASSUME NEW l \in Logins, Expire(l)
      PROVE  Counters'
  <2>1. AfterIncr(login[l].key, 1) \in Places
    BY <1>3, AfterIncrTyped
  <2>2. keys' \in [Kinds -> [n : Nat, ttl : BOOLEAN]]
    <3>1. \E b \in BOOLEAN : keys' = [keys EXCEPT ![login[l].key].ttl = b]
      <4> DEFINE set == keys[login[l].key].n > 0
      <4>1. set \in BOOLEAN /\ keys' = [keys EXCEPT ![login[l].key].ttl = set]
        BY <1>6 DEF Expire
      <4> HIDE DEF set
      <4> QED
        BY <4>1
    <3>2. PICK b \in BOOLEAN : keys' = [keys EXCEPT ![login[l].key].ttl = b]
      BY <3>1
    <3> QED
      BY <1>3, <3>2 DEF Counters
  <2>3. login' \in [Logins -> Places] /\ lost' = lost
    BY <1>4, <1>6, <2>1 DEF Expire
  <2> QED
    BY <2>2, <2>3 DEF Counters
<1>7. ASSUME NEW l \in Logins, CheckLock(l) \/ Verify(l) \/ SetLock(l) \/ LoginDone(l)
      PROVE  Counters'
  <2>1. PICK place \in {At("incr", "rate", 0), At("incr", "fail", 0), At("success", "rate", 0),
                        At("clear", "rate", 0), Rest} : Go(l, place)
    BY <1>7, Zenon DEF CheckLock, Verify, SetLock, LoginDone
  <2>2. place \in Places
    <3>1. /\ At("incr", "rate", 0) \in Places /\ At("incr", "fail", 0) \in Places
          /\ At("success", "rate", 0) \in Places /\ At("clear", "rate", 0) \in Places
      BY DEF At, Kinds
    <3> QED
      BY <1>2, <2>1, <3>1
  <2>3. login' \in [Logins -> Places]
    BY <1>4, <2>1, <2>2
  <2> QED
    BY <1>7, <2>3 DEF CheckLock, Verify, SetLock, LoginDone, Counters
<1>8. ASSUME NEW l \in Logins, ClearFailures(l) \/ RecordSuccess(l)
      PROVE  Counters'
  <2>1. At("issue", "rate", 0) \in Places
    BY <1>1, <1>2
  <2>2. login' \in [Logins -> Places] /\ lost' = lost
    BY <1>2, <1>4, <1>8, <2>1 DEF ClearFailures, RecordSuccess
  <2>3. Absent \in [n : Nat, ttl : BOOLEAN]
    BY DEF Absent
  <2>4. keys' \in [Kinds -> [n : Nat, ttl : BOOLEAN]]
    BY <1>8, <2>3 DEF ClearFailures, RecordSuccess, Counters
  <2> QED
    BY <2>2, <2>4 DEF Counters
<1>9. ASSUME NEW l \in Logins, LoseLogin(l)
      PROVE  Counters'
  BY <1>2, <1>4, <1>9 DEF LoseLogin, Counters
<1>10. ASSUME Unlock \/ LockExpires \/ (\E k \in Kinds : KeyExpires(k)) \/ UNCHANGED lockVars
       PROVE  Counters'
  <2>1. Absent \in [n : Nat, ttl : BOOLEAN]
    BY DEF Absent
  <2>2. keys' \in [Kinds -> [n : Nat, ttl : BOOLEAN]]
    BY <1>10, <2>1 DEF Unlock, LockExpires, KeyExpires, lockVars, Counters
  <2> QED
    BY <1>10, <2>2 DEF Unlock, LockExpires, KeyExpires, lockVars, Counters
<1> QED
  BY <1>5, <1>6, <1>7, <1>8, <1>9, <1>10 DEF LockoutStep

\* A counter that exists will expire, or some login is about to make it.
LEMMA CountersExpireStep ==
    ASSUME Counters, CountersExpire, [LockoutStep]_lockVars
    PROVE  CountersExpire'
<1> SUFFICES ASSUME lost' = 0, NEW k \in Kinds, keys'[k].n > 0
             PROVE  keys'[k].ttl \/ \E l \in Logins : login'[l].pc = "expire" /\ login'[l].key = k
  BY DEF CountersExpire
<1> DEFINE Held == keys[k].ttl \/ \E l \in Logins : login[l].pc = "expire" /\ login[l].key = k
           Goal == keys'[k].ttl \/ \E l \in Logins : login'[l].pc = "expire" /\ login'[l].key = k
<1>1. keys[k].n > 0 /\ lost = 0 => Held
  BY DEF CountersExpire
<1>2. ASSUME NEW l \in Logins, NEW place, Go(l, place), login[l].pc # "expire" \/ login[l].key # k,
             Held, keys'[k] = keys[k] \/ keys'[k].ttl = keys[k].ttl
      PROVE  Goal
  BY <1>2 DEF Go, Counters
<1>3. ASSUME NEW l \in Logins, Incr(l)
      PROVE  Goal
  <2> DEFINE j == login[l].key
  <2>1. login[l].pc = "incr" /\ j \in Kinds /\ keys \in [Kinds -> [n : Nat, ttl : BOOLEAN]]
        /\ keys' = [keys EXCEPT ![j].n = keys[j].n + 1] /\ lost' = lost
        /\ Go(l, IF IsNew(keys[j].n + 1) THEN At("expire", j, 0) ELSE AfterIncr(j, keys[j].n + 1))
    BY <1>3 DEF Incr, Counters
  <2>2. CASE j = k /\ keys[k].n = 0
    <3>1. Go(l, At("expire", k, 0))
      BY <2>1, <2>2 DEF IsNew
    <3> QED
      BY <3>1 DEF Go, At, Counters
  <2>3. CASE j # k \/ keys[k].n # 0
    <3>1. keys[k].n > 0 /\ (keys'[k] = keys[k] \/ keys'[k].ttl = keys[k].ttl)
      BY <2>1, <2>3
    <3> QED
      BY <1>1, <1>2, <2>1, <3>1
  <2> QED
    BY <2>2, <2>3
<1>4. ASSUME NEW l \in Logins, Expire(l)
      PROVE  Goal
  <2>1. login[l].pc = "expire" /\ login[l].key \in Kinds /\ lost' = lost
        /\ keys \in [Kinds -> [n : Nat, ttl : BOOLEAN]]
        /\ keys' = [keys EXCEPT ![login[l].key].ttl = keys[login[l].key].n > 0]
    BY <1>4 DEF Expire, Counters
  <2>2. CASE login[l].key = k
    <3>1. keys'[k].n = keys[k].n /\ keys'[k].ttl = (keys[k].n > 0)
      BY <2>1, <2>2, Zenon
    <3> QED
      BY <3>1
  <2>3. CASE login[l].key # k
    <3>1. keys'[k] = keys[k]
      BY <2>1, <2>3
    <3> QED
      BY <1>1, <1>2, <1>4, <2>1, <2>3, <3>1 DEF Expire
  <2> QED
    BY <2>2, <2>3
<1>5. ASSUME NEW l \in Logins, CheckLock(l) \/ Verify(l) \/ SetLock(l) \/ LoginDone(l)
      PROVE  Goal
  <2>1. keys' = keys /\ lost' = lost /\ login[l].pc # "expire" /\ \E place : Go(l, place)
    BY <1>5, Zenon DEF CheckLock, Verify, SetLock, LoginDone
  <2> QED
    BY <1>1, <1>2, <2>1
<1>6. ASSUME NEW l \in Logins, ClearFailures(l) \/ RecordSuccess(l)
      PROVE  Goal
  <2>1. lost' = lost /\ login[l].pc # "expire" /\ \E place : Go(l, place)
    BY <1>6, Zenon DEF ClearFailures, RecordSuccess
  <2>2. keys'[k] = keys[k]
    BY <1>6 DEF ClearFailures, RecordSuccess, Absent, Counters
  <2> QED
    BY <1>1, <1>2, <2>1, <2>2
<1>7. ASSUME NEW l \in Logins, LoseLogin(l)
      PROVE  Goal
  BY <1>7 DEF LoseLogin
<1>8. ASSUME Unlock \/ LockExpires \/ (\E j \in Kinds : KeyExpires(j)) \/ UNCHANGED lockVars
      PROVE  Goal
  <2>1. keys'[k] = keys[k] /\ lost' = lost /\ login' = login
    BY <1>8 DEF Unlock, LockExpires, KeyExpires, lockVars, Absent, Counters
  <2> QED
    BY <1>1, <2>1
<1> QED
  BY <1>3, <1>4, <1>5, <1>6, <1>7, <1>8 DEF LockoutStep

\* A failure past the threshold comes with a login that clears the counter.
LEMMA FailuresOwedStep ==
    ASSUME Counters, FailuresOwed, [LockoutStep]_lockVars
    PROVE  FailuresOwed'
<1> DEFINE before == Cardinality(Lockers)
           after == Cardinality(Lockers')
<1>1. /\ keys["fail"].n \in Nat /\ lost \in {0, 1} /\ Threshold \in Nat /\ Threshold >= 1
      /\ keys["fail"].n < Threshold + before + lost
  BY LockoutAssumption DEF Counters, Kinds, FailuresOwed
<1>2. ASSUME NEW l \in Logins, NEW place, Go(l, place), keys'["fail"].n = keys["fail"].n, lost' = lost,
             ~Locking(l) \/ Locking(l)'
      PROVE  FailuresOwed'
  <2>1. before \in Nat /\ after \in Nat /\ before <= after
    BY <1>2, LockersCount
  <2> HIDE DEF before, after
  <2>2. keys'["fail"].n < Threshold + after + lost'
    BY <1>1, <1>2, <2>1
  <2> QED
    BY <2>2 DEF FailuresOwed, after
<1>3. ASSUME NEW l \in Logins, NEW place, Go(l, place), keys'["fail"].n \in Nat,
             keys'["fail"].n < Threshold, lost' = lost
      PROVE  FailuresOwed'
  <2>1. after \in Nat
    BY <1>3, LockersCount
  <2> HIDE DEF after
  <2>2. keys'["fail"].n < Threshold + after + lost'
    BY <1>1, <1>3, <2>1
  <2> QED
    BY <2>2 DEF FailuresOwed, after
<1>4. ASSUME NEW l \in Logins, Incr(l)
      PROVE  FailuresOwed'
  <2> DEFINE k == login[l].key
             n == keys[k].n + 1
             place == IF IsNew(n) THEN At("expire", k, 0) ELSE AfterIncr(k, n)
  <2>1. /\ login[l].pc = "incr" /\ k \in Kinds /\ lost' = lost /\ Go(l, place)
        /\ keys \in [Kinds -> [n : Nat, ttl : BOOLEAN]]
        /\ keys' = [keys EXCEPT ![k].n = n] /\ login'[l] = place
    BY <1>4 DEF Incr, Counters, Go
  <2>2. CASE k = "rate"
    BY <1>2, <2>1, <2>2 DEF Kinds, Locking
  <2>3. CASE k = "lockouts"
    <3>1. place.pc = "lock" \/ (place.pc = "expire" /\ place.key = "lockouts")
      BY <2>3 DEF AfterIncr, At
    <3>2. Locking(l)'
      BY <2>1, <3>1 DEF Locking
    <3> QED
      BY <1>2, <2>1, <2>3, <3>2 DEF Kinds
  <2>4. CASE k = "fail"
    <3>1. keys'["fail"].n = n /\ n \in Nat /\ n = keys["fail"].n + 1 /\ ~Locking(l)
      BY <2>1, <2>4 DEF Kinds, Locking
    <3>2. CASE n < Threshold
      BY <1>3, <2>1, <3>1, <3>2
    <3>3. CASE n >= Threshold
      <4>1. Threshold = 1 \/ n # 1
        BY <1>1, <3>1, <3>3
      <4>2. place = IF n = 1 THEN At("expire", "fail", 0) ELSE At("incr", "lockouts", 0)
        BY <1>1, <2>4, <3>1, <3>3 DEF AfterIncr, IsNew
      <4>3. Locking(l)'
        BY <2>1, <4>1, <4>2 DEF Locking, At
      <4>4. before \in Nat /\ after \in Nat /\ before + 1 <= after
        BY <2>1, <3>1, <4>3, LockersCount
      <4> HIDE DEF before, after, n
      <4>5. keys'["fail"].n < Threshold + after + lost'
        BY <1>1, <2>1, <3>1, <4>4
      <4> QED
        BY <4>5 DEF FailuresOwed, after
    <3> QED
      BY <1>1, <3>1, <3>2, <3>3
  <2> QED
    BY <2>1, <2>2, <2>3, <2>4 DEF Kinds
<1>5. ASSUME NEW l \in Logins, Expire(l)
      PROVE  FailuresOwed'
  <2> DEFINE k == login[l].key
  <2>1. /\ login[l].pc = "expire" /\ k \in Kinds /\ lost' = lost /\ Go(l, AfterIncr(k, 1))
        /\ keys \in [Kinds -> [n : Nat, ttl : BOOLEAN]] /\ login'[l] = AfterIncr(k, 1)
        /\ keys' = [keys EXCEPT ![k].ttl = keys[k].n > 0]
    BY <1>5 DEF Expire, Counters, Go
  <2>2. keys'["fail"].n = keys["fail"].n
    BY <2>1 DEF Kinds
  <2>3. ~Locking(l) \/ Locking(l)'
    <3>1. CASE k = "rate"
      BY <2>1, <3>1 DEF Locking
    <3>2. CASE k = "lockouts"
      BY <2>1, <3>2 DEF Locking, AfterIncr, At
    <3>3. CASE k = "fail"
      BY <1>1, <2>1, <3>3 DEF Locking, AfterIncr, At
    <3> QED
      BY <2>1, <3>1, <3>2, <3>3 DEF Kinds
  <2> QED
    BY <1>2, <2>1, <2>2, <2>3
<1>6. ASSUME NEW l \in Logins, CheckLock(l) \/ Verify(l) \/ SetLock(l) \/ LoginDone(l)
      PROVE  FailuresOwed'
  <2>1. keys' = keys /\ lost' = lost /\ \E place : Go(l, place)
    BY <1>6, Zenon DEF CheckLock, Verify, SetLock, LoginDone
  <2>2. ~Locking(l) \/ Locking(l)'
    BY <1>6 DEF CheckLock, Verify, SetLock, LoginDone, Locking, Go, At, Counters
  <2> QED
    BY <1>2, <2>1, <2>2
<1>7. ASSUME NEW l \in Logins, ClearFailures(l) \/ RecordSuccess(l)
      PROVE  FailuresOwed'
  <2>1. keys'["fail"].n = 0
    BY <1>7 DEF ClearFailures, RecordSuccess, Absent, Counters, Kinds
  <2>2. lost' = lost /\ \E place : Go(l, place)
    BY <1>7, Zenon DEF ClearFailures, RecordSuccess
  <2> QED
    BY <1>1, <1>3, <2>1, <2>2
<1>8. ASSUME NEW l \in Logins, LoseLogin(l)
      PROVE  FailuresOwed'
  <2>1. before \in Nat /\ after \in Nat /\ before <= after + 1
    BY <1>8, LockersCount DEF LoseLogin
  <2>2. lost = 0 /\ lost' = 1 /\ keys' = keys
    BY <1>8 DEF LoseLogin
  <2> HIDE DEF before, after
  <2>3. keys'["fail"].n < Threshold + after + lost'
    BY <1>1, <2>1, <2>2
  <2> QED
    BY <2>3 DEF FailuresOwed, after
<1>9. ASSUME Unlock \/ LockExpires \/ (\E k \in Kinds : KeyExpires(k)) \/ UNCHANGED lockVars
      PROVE  FailuresOwed'
  <2>1. /\ keys'["fail"].n = keys["fail"].n \/ keys'["fail"].n = 0
        /\ login' = login /\ lost' = lost
    BY <1>9 DEF Unlock, LockExpires, KeyExpires, lockVars, Absent, Counters, Kinds
  <2>2. Lockers' = Lockers /\ before \in Nat
    BY <2>1, LockoutAssumption, FS_Subset, FS_CardinalityType DEF Lockers, Locking
  <2> HIDE DEF before
  <2>3. keys'["fail"].n < Threshold + before + lost'
    BY <1>1, <2>1, <2>2
  <2> QED
    BY <2>2, <2>3 DEF FailuresOwed, before
<1> QED
  BY <1>4, <1>5, <1>6, <1>7, <1>8, <1>9 DEF LockoutStep

\* The invariant of the lockout: types, expiry of counters, failures owed.
LEMMA LockoutIsSound == LockoutSpec => []LockoutInv
<1>1. LockoutInit => LockoutInv
  <2> SUFFICES ASSUME LockoutInit PROVE LockoutInv
    OBVIOUS
  <2>1. Counters /\ CountersExpire
    BY DEF LockoutInit, Counters, CountersExpire, Absent, Rest, At, Kinds
  <2>2. Lockers = {}
    BY DEF LockoutInit, Lockers, Locking, Rest, At
  <2>3. FailuresOwed
    BY <2>2, FS_EmptySet, LockoutAssumption DEF LockoutInit, FailuresOwed, Absent, Kinds
  <2> QED
    BY <2>1, <2>3 DEF LockoutInv
<1>2. LockoutInv /\ [LockoutStep]_lockVars => LockoutInv'
  BY LockoutTypes, CountersExpireStep, FailuresOwedStep DEF LockoutInv
<1> QED
  BY <1>1, <1>2, PTL DEF LockoutSpec

\* Only a login lost between INCR and EXPIRE leaves a counter for good.
THEOREM CountersDoExpire == LockoutSpec => []CountersExpire
<1>1. LockoutInv => CountersExpire
  BY DEF LockoutInv
<1> QED
  BY <1>1, LockoutIsSound, PTL

\* Failures pass the threshold by less than the number of logins, and somebody
\* is on the way to lock the account while they do.
THEOREM FailuresStayBounded == LockoutSpec => []FailuresBounded
<1>1. ASSUME LockoutInv
      PROVE  FailuresBounded
  <2>1. /\ keys["fail"].n \in Nat /\ lost \in {0, 1} /\ Threshold \in Nat /\ Threshold >= 1
        /\ keys["fail"].n < Threshold + Cardinality(Lockers) + lost
    BY <1>1, LockoutAssumption DEF LockoutInv, Counters, Kinds, FailuresOwed
  <2>2. Lockers \subseteq Logins
    BY DEF Lockers
  <2>3. /\ Cardinality(Lockers) <= Cardinality(Logins)
        /\ Cardinality(Lockers) \in Nat /\ Cardinality(Logins) \in Nat
    BY <2>2, LockoutAssumption, FS_Subset, FS_CardinalityType
  <2>4. keys["fail"].n >= Threshold /\ lost = 0 => Lockers # {}
    BY <2>1, FS_EmptySet
  <2>5. Lockers # {} => \E l \in Logins :
           \/ login[l].pc \in {"lock", "clear"}
           \/ login[l].pc \in {"incr", "expire"} /\ login[l].key \in {"fail", "lockouts"}
    BY DEF Lockers, Locking
  <2> HIDE DEF Lockers
  <2> QED
    BY <2>1, <2>3, <2>4, <2>5 DEF FailuresBounded
<1> QED
  BY <1>1, LockoutIsSound, PTL

\* A login remembers nothing but the lockout it is about to set.
Fits(p) ==
    /\ p.n = 0 \/ (p.pc = "lock" /\ p.n <= MaxLockouts)
    /\ p.pc = "expire" /\ p.key = "lockouts" => MaxLockouts >= 1

\* What the types say beyond the counters: the bounds.
LockoutBounds ==
    /\ keys["rate"].n <= MaxRate /\ keys["lockouts"].n <= MaxLockouts
    /\ lock \in 0 .. MaxLockouts
    /\ \A l \in Logins : Fits(login[l])

\* A login goes to a place that fits.
LEMMA PlacesFit ==
    /\ Fits(Rest) /\ Fits(At("incr", "rate", 0)) /\ Fits(At("incr", "fail", 0))
    /\ Fits(At("success", "rate", 0)) /\ Fits(At("clear", "rate", 0)) /\ Fits(At("issue", "rate", 0))
    /\ \A k \in Kinds, n \in Nat : (k = "lockouts" => n <= MaxLockouts) => Fits(AfterIncr(k, n))
    /\ \A k \in Kinds : (k = "lockouts" => MaxLockouts >= 1) => Fits(At("expire", k, 0))
<1>1. /\ Fits(Rest) /\ Fits(At("incr", "rate", 0)) /\ Fits(At("incr", "fail", 0))
      /\ Fits(At("success", "rate", 0)) /\ Fits(At("clear", "rate", 0)) /\ Fits(At("issue", "rate", 0))
  BY DEF Fits, Rest, At
<1>2. ASSUME NEW k \in Kinds, NEW n \in Nat, k = "lockouts" => n <= MaxLockouts
      PROVE  Fits(AfterIncr(k, n))
  <2>1. CASE k = "rate"
    BY <2>1 DEF AfterIncr, Fits, Rest, At
  <2>2. CASE k = "fail"
    BY <2>2 DEF AfterIncr, Fits, Rest, At
  <2>3. CASE k = "lockouts"
    BY <1>2, <2>3 DEF AfterIncr, Fits, At
  <2> QED
    BY <2>1, <2>2, <2>3 DEF Kinds
<1>3. ASSUME NEW k \in Kinds, k = "lockouts" => MaxLockouts >= 1
      PROVE  Fits(At("expire", k, 0))
  BY <1>3 DEF Fits, At
<1> QED
  BY <1>1, <1>2, <1>3

\* No step leaves the bounds.
LEMMA LockoutBoundsStep ==
    ASSUME Counters, LockoutBounds, [LockoutStep]_lockVars
    PROVE  LockoutBounds'
<1> DEFINE Small == keys'["rate"].n <= MaxRate /\ keys'["lockouts"].n <= MaxLockouts
           Placed == \A l \in Logins : Fits(login'[l])
<1>1. /\ MaxRate \in Nat /\ MaxLockouts \in Nat /\ DOMAIN login = Logins /\ DOMAIN keys = Kinds
      /\ "rate" \in Kinds /\ "fail" \in Kinds /\ "lockouts" \in Kinds
      /\ \A k \in Kinds : keys[k].n \in Nat
      /\ \A l \in Logins : login[l].key \in Kinds /\ login[l].n \in Nat
      /\ keys["rate"].n <= MaxRate /\ keys["lockouts"].n <= MaxLockouts
      /\ lock \in 0 .. MaxLockouts /\ \A l \in Logins : Fits(login[l])
  BY LockoutAssumption DEF Counters, LockoutBounds, Kinds
<1>2. ASSUME NEW l \in Logins, NEW place, Go(l, place), Fits(place)
      PROVE  Placed
  BY <1>1, <1>2 DEF Go
<1>3. login' = login => Placed
  BY <1>1
<1>4. keys' = keys => Small
  BY <1>1
<1>5. Absent.n = 0
  BY DEF Absent
<1> HIDE DEF Placed
<1>6. ASSUME NEW l \in Logins, Incr(l)
      PROVE  Small /\ Placed /\ lock' = lock
  <2>1. PICK k \in Kinds, n \in Nat : k = login[l].key /\ n = keys[k].n + 1
    BY <1>1
  <2>2. /\ k = "rate" => n <= MaxRate
        /\ k = "lockouts" => n <= MaxLockouts
        /\ keys' = [keys EXCEPT ![k].n = n] /\ lock' = lock
        /\ Go(l, IF IsNew(n) THEN At("expire", k, 0) ELSE AfterIncr(k, n))
    BY <1>6, <2>1 DEF Incr
  <2>3. Small
    BY <1>1, <2>2 DEF Counters
  <2>4. n >= 1
    BY <1>1, <2>1
  <2>5. Fits(At("expire", k, 0)) /\ Fits(AfterIncr(k, n))
    BY <1>1, <2>2, <2>4, PlacesFit
  <2>6. CASE IsNew(n)
    BY <1>2, <2>2, <2>3, <2>5, <2>6
  <2>7. CASE ~IsNew(n)
    BY <1>2, <2>2, <2>3, <2>5, <2>7
  <2> QED
    BY <2>6, <2>7
<1>7. ASSUME NEW l \in Logins, Expire(l)
      PROVE  Small /\ Placed /\ lock' = lock
  <2>1. PICK k \in Kinds : k = login[l].key
    BY <1>1
  <2>2. PICK b : b = (keys[k].n > 0)
    OBVIOUS
  <2>3. /\ keys' = [keys EXCEPT ![k].ttl = b] /\ lock' = lock
        /\ Go(l, AfterIncr(k, 1)) /\ login[l].pc = "expire"
    BY <1>7, <2>1, <2>2 DEF Expire
  <2>4. Small
    BY <1>1, <2>3 DEF Counters
  <2>5. k = "lockouts" => 1 <= MaxLockouts
    BY <1>1, <2>1, <2>3 DEF Fits
  <2>6. Fits(AfterIncr(k, 1))
    BY <2>5, PlacesFit
  <2> QED
    BY <1>2, <2>3, <2>4, <2>6
<1>8. ASSUME NEW l \in Logins, CheckLock(l) \/ Verify(l) \/ LoginDone(l) \/ LoseLogin(l)
      PROVE  Small /\ Placed /\ lock' = lock
  <2>1. keys' = keys /\ lock' = lock
    BY <1>8 DEF CheckLock, Verify, LoginDone, LoseLogin
  <2>2. PICK place \in {At("incr", "rate", 0), At("incr", "fail", 0), At("success", "rate", 0), Rest} :
           Go(l, place)
    BY <1>8, Zenon DEF CheckLock, Verify, LoginDone, LoseLogin
  <2>3. Fits(place)
    BY <2>2, PlacesFit
  <2> QED
    BY <1>2, <1>4, <2>1, <2>2, <2>3
<1>9. ASSUME NEW l \in Logins, SetLock(l)
      PROVE  Small /\ Placed /\ lock' \in 0 .. MaxLockouts
  <2>1. keys' = keys /\ lock' = login[l].n /\ Go(l, At("clear", "rate", 0))
    BY <1>9 DEF SetLock
  <2>2. login[l].n \in 0 .. MaxLockouts
    BY <1>1 DEF Fits
  <2> QED
    BY <1>2, <1>4, <2>1, <2>2, PlacesFit
<1>10. ASSUME NEW l \in Logins, ClearFailures(l) \/ RecordSuccess(l)
       PROVE  Small /\ Placed /\ lock' = lock
  <2>1. Go(l, Rest) \/ Go(l, At("issue", "rate", 0))
    BY <1>10 DEF ClearFailures, RecordSuccess
  <2>2. Placed
    BY <1>2, <2>1, PlacesFit
  <2>3. Small /\ lock' = lock
    BY <1>1, <1>5, <1>10 DEF ClearFailures, RecordSuccess
  <2> QED
    BY <2>2, <2>3
<1>11. ASSUME Unlock
       PROVE  Small /\ Placed /\ lock' \in 0 .. MaxLockouts
  BY <1>1, <1>3, <1>5, <1>11 DEF Unlock
<1>12. ASSUME NEW k \in Kinds, KeyExpires(k)
       PROVE  Small /\ Placed /\ lock' = lock
  BY <1>1, <1>3, <1>5, <1>12 DEF KeyExpires
<1>13. ASSUME LockExpires \/ UNCHANGED lockVars
       PROVE  Small /\ Placed /\ lock' \in 0 .. MaxLockouts
  BY <1>1, <1>3, <1>4, <1>13 DEF LockExpires, lockVars
<1>14. Small /\ Placed /\ lock' \in 0 .. MaxLockouts
  BY <1>1, <1>6, <1>7, <1>8, <1>9, <1>10, <1>11, <1>12, <1>13 DEF LockoutStep
<1> QED
  BY <1>14 DEF LockoutBounds, Placed

\* The counters, the lock and the logins keep their types.
THEOREM LockoutTyped == LockoutSpec => []LockoutTypeOK
<1>1. LockoutInit => LockoutBounds
  <2> SUFFICES ASSUME LockoutInit PROVE LockoutBounds
    OBVIOUS
  <2>1. Absent.n = 0
    BY DEF Absent
  <2> QED
    BY <2>1, PlacesFit, LockoutAssumption DEF LockoutInit, LockoutBounds, Kinds
<1>2. LockoutInv /\ LockoutBounds /\ [LockoutStep]_lockVars => LockoutBounds'
  BY LockoutBoundsStep DEF LockoutInv
<1>3. ASSUME LockoutInv, LockoutBounds
      PROVE  LockoutTypeOK
  <2>1. /\ MaxRate \in Nat /\ MaxLockouts \in Nat /\ Threshold \in Nat
        /\ \A k \in Kinds : keys[k].n \in Nat /\ keys[k] \in [n : Nat, ttl : BOOLEAN]
        /\ lost \in {0, 1}
        /\ keys["rate"].n <= MaxRate /\ keys["lockouts"].n <= MaxLockouts
        /\ keys["fail"].n < Threshold + Cardinality(Lockers) + lost
    BY <1>3, LockoutAssumption DEF LockoutInv, Counters, LockoutBounds, FailuresOwed, Kinds
  <2>2. /\ Cardinality(Lockers) <= Cardinality(Logins)
        /\ Cardinality(Lockers) \in Nat /\ Cardinality(Logins) \in Nat
    <3>1. Lockers \subseteq Logins
      BY DEF Lockers
    <3> QED
      BY <3>1, LockoutAssumption, FS_Subset, FS_CardinalityType
  <2>3. PICK top \in Nat : top = MaxRate + Threshold + Cardinality(Logins) + MaxLockouts
    BY <2>1, <2>2
  <2>4. keys["fail"].n <= Threshold + Cardinality(Logins)
    BY <2>1, <2>2 DEF Kinds
  <2>5. \A k \in Kinds : keys[k].n \in 0 .. top
    BY <2>1, <2>2, <2>3, <2>4 DEF Kinds
  <2>6. \A l \in Logins : login[l].n \in 0 .. top
    BY <1>3, <2>1, <2>2, <2>3 DEF LockoutBounds, Fits, LockoutInv, Counters
  <2>7. keys \in [Kinds -> [n : 0 .. top, ttl : BOOLEAN]]
    BY <1>3, <2>5 DEF LockoutInv, Counters
  <2>8. login \in [Logins -> [pc : {"idle", "incr", "expire", "verify", "lock", "clear",
                                    "success", "issue"}, key : Kinds, n : 0 .. top]]
    BY <1>3, <2>6 DEF LockoutInv, Counters
  <2> QED
    BY <1>3, <2>1, <2>3, <2>7, <2>8 DEF LockoutTypeOK, LockoutBounds
<1> QED
  BY <1>1, <1>2, <1>3, LockoutIsSound, PTL DEF LockoutSpec

-----------------------------------------------------------------------------
(* Password reset *)

ResetAt(r, pcs, n) == resetReq[r].pc \in pcs /\ resetReq[r].link = n
Savers(n) == {r \in ResetRequests : ResetAt(r, {"save"}, n)}
Underway(n) == \E r \in ResetRequests : ResetAt(r, {"save", "delete"}, n)

\* A link is at one request until it has been mailed, and cannot be used before.
LinksFresh ==
    /\ mailed \subseteq 1 .. links /\ linkRows \subseteq Link /\ links \in 0 .. MaxLinks
    /\ resetReq \in [ResetRequests -> [pc : {"idle", "evict", "store", "mail", "save", "delete"},
                                       link : Nat]]
    /\ \A r \in ResetRequests : /\ resetReq[r].pc \in {"evict", "store", "mail"} =>
                                       resetReq[r].link \in (1 .. links) \ mailed
                                /\ resetReq[r].pc \in {"save", "delete"} => resetReq[r].link \in mailed
    /\ \A r, q \in ResetRequests :
          resetReq[r].pc \in {"evict", "store", "mail"} /\ resetReq[q].pc \in {"evict", "store", "mail"}
             /\ resetReq[r].link = resetReq[q].link => r = q

\* Uses made and uses about to be made are excused but for one, and without
\* that one as long as the row is there and nobody has begun to use it.
Excused(n) == uses[n] + Cardinality(Savers(n))
                <= excuses[n] + IF n \in linkRows /\ ~Underway(n) THEN 0 ELSE 1

UsesExcused ==
    /\ uses \in [Link -> Nat] /\ excuses \in [Link -> Nat]
    /\ \A n \in Link \ mailed : uses[n] = 0
    /\ \A n \in Link : Excused(n)

\* Rows beyond the first, the one about to be stored included, were crossed.
Storing == \E r \in ResetRequests : resetReq[r].pc = "store"

RowsCrossed ==
    crossed \in Nat /\ Cardinality(linkRows) + (IF Storing THEN 1 ELSE 0) <= 1 + crossed

ResetInv == LinksFresh /\ UsesExcused /\ RowsCrossed

\* A request moves, and the table of the rows stays: what is left to show.
ResetStates == [pc : {"idle", "evict", "store", "mail", "save", "delete"}, link : Nat]

\* Every step keeps the rows, links and requests in their types, and the links fresh.
LEMMA LinksFreshStep ==
    ASSUME LinksFresh, [ResetNext]_resetVars
    PROVE  LinksFresh'
<1> DEFINE Fresh(r) == resetReq[r].pc \in {"evict", "store", "mail"}
<1>1. /\ mailed \subseteq 1 .. links /\ linkRows \subseteq Link /\ links \in Nat
      /\ resetReq \in [ResetRequests -> ResetStates] /\ links \in 0 .. MaxLinks
      /\ \A r \in ResetRequests : Fresh(r) => resetReq[r].link \in (1 .. links) \ mailed
      /\ \A r \in ResetRequests : resetReq[r].pc \in {"save", "delete"} => resetReq[r].link \in mailed
      /\ \A r, q \in ResetRequests : Fresh(r) /\ Fresh(q) /\ resetReq[r].link = resetReq[q].link => r = q
  BY ResetAssumption DEF LinksFresh, ResetStates
<1>2. NoRequest \in ResetStates /\ NoRequest.pc = "idle"
  BY DEF NoRequest, ResetStates
<1>3. ASSUME NEW r \in ResetRequests, AskLink(r)
      PROVE  LinksFresh'
  <2>1. /\ [pc |-> "evict", link |-> links + 1] \in ResetStates
        /\ links' \in 0 .. MaxLinks /\ links' = links + 1 /\ mailed' = mailed /\ linkRows' = linkRows
        /\ resetReq' = [resetReq EXCEPT ![r] = [pc |-> "evict", link |-> links + 1]]
    BY <1>1, <1>3, ResetAssumption DEF AskLink, ResetStates
  <2>2. links + 1 \notin mailed /\ 1 .. links \subseteq 1 .. links' /\ links + 1 \in 1 .. links'
    BY <1>1, <2>1
  <2>3. /\ \A q \in ResetRequests \ {r} : resetReq'[q] = resetReq[q]
        /\ resetReq'[r].pc = "evict" /\ resetReq'[r].link = links + 1
        /\ resetReq' \in [ResetRequests -> ResetStates]
    BY <1>1, <2>1
  <2>4. \A q \in ResetRequests : Fresh(q) => resetReq[q].link # links + 1
    BY <1>1
  <2> QED
    BY <1>1, <2>1, <2>2, <2>3, <2>4 DEF LinksFresh, ResetStates
<1>4. ASSUME NEW r \in ResetRequests, NEW here, NEW there, Advance(r, here, there),
             \/ here = "evict" /\ there = "store"
             \/ here = "store" /\ there = "mail"
             \/ here = "save" /\ there = "delete",
             linkRows' \subseteq Link, mailed' = mailed, links' = links
      PROVE  LinksFresh'
  <2>1. /\ resetReq' \in [ResetRequests -> ResetStates]
        /\ \A q \in ResetRequests : resetReq'[q].link = resetReq[q].link
        /\ \A q \in ResetRequests \ {r} : resetReq'[q] = resetReq[q]
        /\ resetReq[r].pc = here /\ resetReq'[r].pc = there
    BY <1>1, <1>4 DEF Advance, ResetStates
  <2>2. \A q \in ResetRequests :
           /\ resetReq'[q].pc \in {"evict", "store", "mail"} => Fresh(q)
           /\ resetReq'[q].pc \in {"save", "delete"} => resetReq[q].pc \in {"save", "delete"}
    BY <1>4, <2>1
  <2> QED
    BY <1>1, <1>4, <2>1, <2>2 DEF LinksFresh, ResetStates
<1>5. ASSUME NEW r \in ResetRequests, resetReq' = [resetReq EXCEPT ![r] = NoRequest],
             linkRows' \subseteq Link, links' = links,
             mailed' = mailed \/ (Fresh(r) /\ mailed' = mailed \cup {resetReq[r].link})
      PROVE  LinksFresh'
  <2>1. /\ resetReq' \in [ResetRequests -> ResetStates] /\ resetReq'[r].pc = "idle"
        /\ \A q \in ResetRequests \ {r} : resetReq'[q] = resetReq[q]
    BY <1>1, <1>2, <1>5
  <2>2. mailed' \subseteq 1 .. links /\ mailed \subseteq mailed'
    BY <1>1, <1>5
  <2>3. \A q \in ResetRequests : resetReq'[q].pc # "idle" => q # r /\ resetReq'[q] = resetReq[q]
    BY <2>1
  <2>4. \A q \in ResetRequests : q # r /\ Fresh(q) => resetReq[q].link \in (1 .. links) \ mailed'
    BY <1>1, <1>5
  <2> QED
    BY <1>1, <1>5, <2>1, <2>2, <2>3, <2>4 DEF LinksFresh, ResetStates
<1>6. ASSUME NEW r \in ResetRequests, EvictLinks(r) \/ StoreLink(r) \/ SavePassword(r)
      PROVE  LinksFresh'
  <2>1. linkRows' \subseteq Link
    <3>1. StoreLink(r) => resetReq[r].link \in Link
      BY <1>1, ResetAssumption DEF StoreLink, Advance, Link
    <3>2. CASE EvictLinks(r) \/ SavePassword(r)
      BY <1>1, <3>2 DEF EvictLinks, SavePassword, AfterEviction
    <3>3. CASE StoreLink(r)
      BY <1>1, <3>1, <3>3 DEF StoreLink
    <3> QED
      BY <1>6, <3>2, <3>3
  <2>2. \/ Advance(r, "evict", "store") \/ Advance(r, "store", "mail") \/ Advance(r, "save", "delete")
    BY <1>6 DEF EvictLinks, StoreLink, SavePassword
  <2>3. mailed' = mailed /\ links' = links
    BY <1>6 DEF EvictLinks, StoreLink, SavePassword
  <2>4. CASE Advance(r, "evict", "store")
    BY <1>4, <2>1, <2>3, <2>4
  <2>5. CASE Advance(r, "store", "mail")
    BY <1>4, <2>1, <2>3, <2>5
  <2>6. CASE Advance(r, "save", "delete")
    BY <1>4, <2>1, <2>3, <2>6
  <2> QED
    BY <2>2, <2>4, <2>5, <2>6
<1>7. ASSUME NEW r \in ResetRequests, MailLink(r) \/ DeleteLink(r) \/ RequestDies(r)
      PROVE  LinksFresh'
  BY <1>1, <1>5, <1>7 DEF MailLink, DeleteLink, RequestDies, EndRequest, RowDeleted
<1>8. ASSUME NEW r \in ResetRequests, NEW n \in mailed, UseLink(r, n)
      PROVE  LinksFresh'
  <2>1. /\ [pc |-> "save", link |-> n] \in ResetStates
        /\ linkRows' = linkRows /\ links' = links /\ mailed' = mailed
        /\ resetReq' = [resetReq EXCEPT ![r] = [pc |-> "save", link |-> n]]
    BY <1>1, <1>8 DEF UseLink, ResetStates
  <2>2. /\ \A q \in ResetRequests \ {r} : resetReq'[q] = resetReq[q]
        /\ resetReq'[r].pc = "save" /\ resetReq'[r].link = n
        /\ resetReq' \in [ResetRequests -> ResetStates]
    BY <1>1, <2>1
  <2> QED
    BY <1>1, <1>8, <2>1, <2>2 DEF LinksFresh, ResetStates
<1>9. ASSUME (\E n \in Link : LinkExpires(n)) \/ UNCHANGED resetVars
      PROVE  LinksFresh'
  BY <1>9 DEF LinkExpires, resetVars, LinksFresh
<1> QED
  BY <1>3, <1>6, <1>7, <1>8, <1>9 DEF ResetNext

\* Requests that neither begin nor end a use of a link do not count for it.
LEMMA OtherLink ==
    ASSUME NEW r \in ResetRequests, NEW n,
           \A q \in ResetRequests \ {r} : resetReq'[q] = resetReq[q],
           ~ResetAt(r, {"save", "delete"}, n), ~ResetAt(r, {"save", "delete"}, n)'
    PROVE  Savers(n)' = Savers(n) /\ (Underway(n)' <=> Underway(n))
BY DEF Savers, Underway, ResetAt

\* The requests about to save a password by one link are finitely many.
LEMMA SaversFinite ==
    ASSUME NEW n
    PROVE  /\ IsFiniteSet(Savers(n)) /\ Cardinality(Savers(n)) \in Nat
           /\ IsFiniteSet(Savers(n)') /\ Cardinality(Savers(n)') \in Nat
BY ResetAssumption, FS_Subset, FS_CardinalityType DEF Savers

\* Every step keeps the uses of a link within one and its excuses.
LEMMA UsesExcusedStep ==
    ASSUME LinksFresh, UsesExcused, [ResetNext]_resetVars
    PROVE  UsesExcused'
<1>1. /\ mailed \subseteq 1 .. links /\ linkRows \subseteq Link /\ links \in 0 .. MaxLinks
      /\ resetReq \in [ResetRequests -> ResetStates] /\ mailed \subseteq Link
      /\ uses \in [Link -> Nat] /\ excuses \in [Link -> Nat]
      /\ \A n \in Link \ mailed : uses[n] = 0
      /\ \A n \in Link : uses[n] + Cardinality(Savers(n))
                           <= excuses[n] + IF n \in linkRows /\ ~Underway(n) THEN 0 ELSE 1
      /\ \A r \in ResetRequests : resetReq[r].pc \in {"save", "delete"} => resetReq[r].link \in mailed
  BY ResetAssumption DEF LinksFresh, ResetStates, UsesExcused, Excused, Link
<1>2. \A n \in Link : Cardinality(Savers(n)) \in Nat /\ Cardinality(Savers(n)') \in Nat
  BY SaversFinite
<1>3. ASSUME NEW r \in ResetRequests,
             \A q \in ResetRequests \ {r} : resetReq'[q] = resetReq[q],
             resetReq[r].pc \notin {"save", "delete"}, resetReq'[r].pc \notin {"save", "delete"},
             uses' = uses, excuses' = excuses, mailed \subseteq mailed',
             linkRows' \subseteq linkRows \cup (Link \ mailed)
      PROVE  UsesExcused'
  <2>1. \A n \in Link : Savers(n)' = Savers(n) /\ (Underway(n)' <=> Underway(n))
    BY <1>3, OtherLink DEF ResetAt
  <2>2. ASSUME NEW n \in Link \ mailed
        PROVE  Savers(n) = {}
    BY <1>1, <2>2 DEF Savers, ResetAt
  <2>3. ASSUME NEW n \in Link
        PROVE  Excused(n)'
    <3>1. uses[n] \in Nat /\ excuses[n] \in Nat
      BY <1>1
    <3>2. CASE n \in mailed
      <4>1. n \in linkRows' => n \in linkRows
        BY <1>3, <3>2
      <4> QED
        BY <1>1, <1>2, <1>3, <2>1, <3>1, <4>1 DEF Excused
    <3>3. CASE n \notin mailed
      <4>1. Cardinality(Savers(n)) = 0 /\ uses[n] = 0
        BY <1>1, <2>2, <3>3, FS_EmptySet
      <4> QED
        BY <1>3, <2>1, <3>1, <4>1 DEF Excused
    <3> QED
      BY <3>2, <3>3
  <2> QED
    BY <1>1, <1>3, <2>3 DEF UsesExcused
<1>4. ASSUME NEW r \in ResetRequests, AskLink(r) \/ EvictLinks(r) \/ StoreLink(r) \/ MailLink(r)
      PROVE  UsesExcused'
  <2>1. /\ \A q \in ResetRequests \ {r} : resetReq'[q] = resetReq[q]
        /\ resetReq[r].pc \notin {"save", "delete"} /\ resetReq'[r].pc \notin {"save", "delete"}
    BY <1>1, <1>4 DEF AskLink, EvictLinks, StoreLink, MailLink, Advance, EndRequest, NoRequest,
                      ResetStates
  <2>2. uses' = uses /\ excuses' = excuses /\ mailed \subseteq mailed'
    BY <1>4 DEF AskLink, EvictLinks, StoreLink, MailLink
  <2>3. linkRows' \subseteq linkRows \cup (Link \ mailed)
    <3>1. CASE StoreLink(r)
      <4>1. resetReq[r].link \in Link \ mailed
        BY <1>1, <3>1, ResetAssumption DEF StoreLink, Advance, LinksFresh, Link
      <4> QED
        BY <3>1, <4>1 DEF StoreLink
    <3>2. CASE AskLink(r) \/ EvictLinks(r) \/ MailLink(r)
      BY <3>2 DEF AskLink, EvictLinks, MailLink, AfterEviction
    <3> QED
      BY <1>4, <3>1, <3>2
  <2> QED
    BY <1>3, <2>1, <2>2, <2>3
<1>5. ASSUME NEW r \in ResetRequests, NEW m \in Link,
             \A q \in ResetRequests \ {r} : resetReq'[q] = resetReq[q],
             \A n \in Link \ {m} : /\ ~ResetAt(r, {"save", "delete"}, n)
                                   /\ ~ResetAt(r, {"save", "delete"}, n)'
                                   /\ n \in linkRows' <=> n \in linkRows
                                   /\ uses'[n] = uses[n] /\ excuses'[n] = excuses[n],
             Excused(m)', uses' \in [Link -> Nat], excuses' \in [Link -> Nat],
             m \in mailed, mailed' = mailed
      PROVE  UsesExcused'
  <2>1. ASSUME NEW n \in Link, n # m
        PROVE  Excused(n)'
    <3>1. Savers(n)' = Savers(n) /\ (Underway(n)' <=> Underway(n))
      BY <1>5, <2>1, OtherLink
    <3> QED
      BY <1>1, <1>2, <1>5, <2>1, <3>1 DEF Excused
  <2>2. \A n \in Link : Excused(n)'
    BY <1>5, <2>1
  <2>3. \A n \in Link \ mailed : uses'[n] = 0
    BY <1>1, <1>5
  <2> QED
    BY <1>5, <2>2, <2>3 DEF UsesExcused
<1>6. ASSUME NEW r \in ResetRequests, NEW n \in mailed, UseLink(r, n)
      PROVE  UsesExcused'
  <2>1. /\ resetReq[r].pc = "idle" /\ n \in linkRows /\ n \in Link
        /\ resetReq'[r].pc = "save" /\ resetReq'[r].link = n
        /\ \A q \in ResetRequests \ {r} : resetReq'[q] = resetReq[q]
        /\ linkRows' = linkRows /\ mailed' = mailed /\ uses' = uses
    BY <1>1, <1>6 DEF UseLink, Acceptable
  <2>2. excuses' = [excuses EXCEPT ![n] = excuses[n] + IF Underway(n) THEN 1 ELSE 0]
    <3>1. (\E q \in OthersAt(r, {"save", "delete"}) : resetReq[q].link = n) <=> Underway(n)
      BY <2>1 DEF OthersAt, Underway, ResetAt
    <3> QED
      BY <1>6, <3>1 DEF UseLink
  <2>3. Underway(n)'
    BY <2>1 DEF Underway, ResetAt
  <2>4. Cardinality(Savers(n)') <= Cardinality(Savers(n)) + 1
    <3>1. Savers(n)' \subseteq Savers(n) \cup {r}
      BY <2>1 DEF Savers, ResetAt
    <3> QED
      BY <3>1, SaversFinite, OneLess
  <2>5. Excused(n)'
    <3>1. /\ uses[n] \in Nat /\ excuses[n] \in Nat
          /\ excuses'[n] = excuses[n] + IF Underway(n) THEN 1 ELSE 0
          /\ uses[n] + Cardinality(Savers(n)) <= excuses[n] + IF Underway(n) THEN 1 ELSE 0
      BY <1>1, <2>1, <2>2
    <3> QED
      BY <1>2, <2>1, <2>3, <2>4, <3>1 DEF Excused
  <2>6. \A k \in Link \ {n} : ~ResetAt(r, {"save", "delete"}, k) /\ ~ResetAt(r, {"save", "delete"}, k)'
    BY <2>1 DEF ResetAt
  <2>7. excuses' \in [Link -> Nat] /\ \A k \in Link \ {n} : excuses'[k] = excuses[k]
    BY <1>1, <2>1, <2>2
  <2> QED
    BY <1>1, <1>5, <2>1, <2>5, <2>6, <2>7
<1>7. ASSUME NEW r \in ResetRequests, SavePassword(r)
      PROVE  UsesExcused'
  <2> DEFINE m == resetReq[r].link
  <2>1. /\ resetReq[r].pc = "save" /\ m \in mailed /\ m \in Link
        /\ resetReq'[r].pc = "delete" /\ resetReq'[r].link = m
        /\ \A q \in ResetRequests \ {r} : resetReq'[q] = resetReq[q]
        /\ linkRows' = linkRows /\ mailed' = mailed /\ excuses' = excuses
        /\ uses' = [uses EXCEPT ![m] = uses[m] + 1]
    BY <1>1, <1>7 DEF SavePassword, Advance, ResetStates
  <2>2. PICK n \in Link : n = m
    BY <2>1
  <2>3. Underway(n)' /\ Underway(n)
    BY <2>1, <2>2 DEF Underway, ResetAt
  <2>4. Cardinality(Savers(n)') + 1 <= Cardinality(Savers(n))
    <3>1. Savers(n)' \cup {r} \subseteq Savers(n) /\ r \notin Savers(n)'
      BY <2>1, <2>2 DEF Savers, ResetAt
    <3> QED
      BY <3>1, SaversFinite, OneMore
  <2>5. Excused(n)'
    <3>1. /\ uses[n] \in Nat /\ excuses[n] \in Nat /\ uses'[n] = uses[n] + 1
          /\ uses[n] + Cardinality(Savers(n)) <= excuses[n] + 1
      BY <1>1, <2>1, <2>2, <2>3
    <3> QED
      BY <1>2, <2>1, <2>3, <2>4, <3>1 DEF Excused
  <2>6. \A k \in Link \ {n} : ~ResetAt(r, {"save", "delete"}, k) /\ ~ResetAt(r, {"save", "delete"}, k)'
    BY <2>1, <2>2 DEF ResetAt
  <2>7. uses' \in [Link -> Nat] /\ \A k \in Link \ {n} : uses'[k] = uses[k]
    BY <1>1, <2>1, <2>2
  <2> QED
    BY <1>1, <1>5, <2>1, <2>2, <2>5, <2>6, <2>7
<1>8. ASSUME NEW r \in ResetRequests, DeleteLink(r)
      PROVE  UsesExcused'
  <2> DEFINE m == resetReq[r].link
  <2>1. /\ resetReq[r].pc = "delete" /\ m \in mailed /\ m \in Link /\ resetReq'[r].pc = "idle"
        /\ \A q \in ResetRequests \ {r} : resetReq'[q] = resetReq[q]
        /\ linkRows' = linkRows \ {m} /\ mailed' = mailed /\ excuses' = excuses /\ uses' = uses
    BY <1>1, <1>8 DEF DeleteLink, EndRequest, NoRequest, RowDeleted, ResetStates
  <2>2. PICK n \in Link : n = m
    BY <2>1
  <2>3. Savers(n)' = Savers(n) /\ Underway(n)
    BY <2>1, <2>2 DEF Savers, Underway, ResetAt
  <2>4. Excused(n)'
    <3>1. /\ uses[n] \in Nat /\ excuses[n] \in Nat
          /\ uses[n] + Cardinality(Savers(n)) <= excuses[n] + 1
      BY <1>1, <2>2, <2>3
    <3> QED
      BY <1>2, <2>1, <2>2, <2>3, <3>1 DEF Excused
  <2>5. \A k \in Link \ {n} : ~ResetAt(r, {"save", "delete"}, k) /\ ~ResetAt(r, {"save", "delete"}, k)'
    BY <2>1, <2>2 DEF ResetAt
  <2> QED
    BY <1>1, <1>5, <2>1, <2>2, <2>4, <2>5
<1>9. ASSUME NEW r \in ResetRequests, RequestDies(r)
      PROVE  UsesExcused'
  <2> DEFINE m == resetReq[r].link
  <2>1. /\ resetReq'[r].pc = "idle"
        /\ \A q \in ResetRequests \ {r} : resetReq'[q] = resetReq[q]
        /\ linkRows' = linkRows /\ mailed' = mailed /\ uses' = uses
        /\ excuses' = IF resetReq[r].pc = "delete" THEN [excuses EXCEPT ![m] = excuses[m] + 1]
                      ELSE excuses
    BY <1>1, <1>9 DEF RequestDies, NoRequest
  <2>2. CASE resetReq[r].pc \notin {"save", "delete"}
    BY <1>3, <2>1, <2>2
  <2>3. CASE resetReq[r].pc \in {"save", "delete"}
    <3>1. m \in mailed /\ m \in Link
      BY <1>1, <2>3
    <3>2. PICK n \in Link : n = m
      BY <3>1
    <3>3. Underway(n)
      BY <2>3, <3>2 DEF Underway, ResetAt
    <3>4. /\ excuses' \in [Link -> Nat] /\ \A k \in Link \ {n} : excuses'[k] = excuses[k]
          /\ excuses'[n] = excuses[n] + IF resetReq[r].pc = "delete" THEN 1 ELSE 0
          /\ uses'[n] = uses[n]
      BY <1>1, <2>1, <3>2
    <3>5. /\ uses[n] \in Nat /\ excuses[n] \in Nat
          /\ uses[n] + Cardinality(Savers(n)) <= excuses[n] + 1
      BY <1>1, <3>2, <3>3
    <3>6. ASSUME resetReq[r].pc = "save"
          PROVE  Excused(n)'
      <4>1. Savers(n)' \cup {r} \subseteq Savers(n) /\ r \notin Savers(n)'
        BY <2>1, <3>2, <3>6 DEF Savers, ResetAt
      <4>2. Cardinality(Savers(n)') + 1 <= Cardinality(Savers(n))
        BY <4>1, SaversFinite, OneMore
      <4>3. excuses'[n] = excuses[n]
        BY <3>4, <3>5, <3>6
      <4>4. uses'[n] + Cardinality(Savers(n)') <= excuses'[n]
        BY <1>2, <3>4, <3>5, <4>2, <4>3
      <4> QED
        BY <1>2, <3>4, <3>5, <4>3, <4>4 DEF Excused
    <3>7. ASSUME resetReq[r].pc = "delete"
          PROVE  Excused(n)'
      <4>1. Savers(n)' = Savers(n)
        BY <2>1, <3>7 DEF Savers, ResetAt
      <4>2. excuses'[n] = excuses[n] + 1
        BY <3>4, <3>7
      <4>3. uses'[n] + Cardinality(Savers(n)') <= excuses'[n]
        BY <1>2, <3>4, <3>5, <4>1, <4>2
      <4> QED
        BY <1>2, <3>4, <3>5, <4>2, <4>3 DEF Excused
    <3>8. \A k \in Link \ {n} : ~ResetAt(r, {"save", "delete"}, k) /\ ~ResetAt(r, {"save", "delete"}, k)'
      BY <2>1, <3>2 DEF ResetAt
    <3> QED
      BY <1>1, <1>5, <2>1, <2>3, <3>1, <3>2, <3>4, <3>6, <3>7, <3>8
  <2> QED
    BY <2>2, <2>3
<1>10. ASSUME (\E n \in Link : LinkExpires(n)) \/ UNCHANGED resetVars
       PROVE  UsesExcused'
  BY <1>10 DEF LinkExpires, resetVars, UsesExcused, Excused, Savers, Underway, ResetAt
<1> QED
  BY <1>4, <1>6, <1>7, <1>8, <1>9, <1>10 DEF ResetNext

\* Every step keeps the links in the table within one and the crossed stores.
LEMMA RowsCrossedStep ==
    ASSUME LinksFresh, RowsCrossed, [ResetNext]_resetVars
    PROVE  RowsCrossed'
<1>1. /\ crossed \in Nat /\ IsFiniteSet(linkRows) /\ Cardinality(linkRows) \in Nat
      /\ Cardinality(linkRows) + (IF Storing THEN 1 ELSE 0) <= 1 + crossed
      /\ resetReq \in [ResetRequests -> ResetStates]
  <2>1. IsFiniteSet(Link)
    BY ResetAssumption, FS_Interval DEF Link
  <2>2. IsFiniteSet(linkRows)
    BY <2>1, FS_Subset DEF LinksFresh
  <2> QED
    BY <2>2, FS_CardinalityType DEF RowsCrossed, LinksFresh, ResetStates
<1>2. ASSUME linkRows' \subseteq linkRows, Storing' => Storing, crossed' = crossed
      PROVE  RowsCrossed'
  <2>1. Cardinality(linkRows') <= Cardinality(linkRows) /\ Cardinality(linkRows') \in Nat
    BY <1>1, <1>2, FS_Subset, FS_CardinalityType
  <2> QED
    BY <1>1, <1>2, <2>1 DEF RowsCrossed
<1>3. ASSUME NEW r \in ResetRequests, EvictLinks(r)
      PROVE  RowsCrossed'
  BY <1>1, <1>3, FS_EmptySet DEF EvictLinks, AfterEviction, RowsCrossed
<1>4. ASSUME NEW r \in ResetRequests, StoreLink(r)
      PROVE  RowsCrossed'
  <2>1. /\ resetReq[r].pc = "store" /\ resetReq'[r].pc = "mail"
        /\ \A q \in ResetRequests \ {r} : resetReq'[q] = resetReq[q]
        /\ linkRows' = linkRows \cup {resetReq[r].link}
        /\ crossed' = crossed + IF OthersAt(r, {"store"}) = {} THEN 0 ELSE 1
    BY <1>1, <1>4 DEF StoreLink, Advance, ResetStates
  <2>2. Storing /\ (Storing' <=> OthersAt(r, {"store"}) # {})
    BY <2>1 DEF Storing, OthersAt
  <2>3. Cardinality(linkRows') <= Cardinality(linkRows) + 1 /\ Cardinality(linkRows') \in Nat
    BY <1>1, <2>1, OneLess
  <2> QED
    BY <1>1, <2>1, <2>2, <2>3 DEF RowsCrossed
<1>5. ASSUME NEW r \in ResetRequests,
             \/ AskLink(r) \/ MailLink(r) \/ (\E n \in mailed : UseLink(r, n))
             \/ SavePassword(r) \/ DeleteLink(r) \/ RequestDies(r)
      PROVE  RowsCrossed'
  <2>1. linkRows' \subseteq linkRows /\ crossed' = crossed
    BY <1>5 DEF AskLink, MailLink, UseLink, SavePassword, DeleteLink, RequestDies, RowDeleted
  <2>2. resetReq'[r].pc # "store" /\ \A q \in ResetRequests \ {r} : resetReq'[q] = resetReq[q]
    BY <1>1, <1>5 DEF AskLink, MailLink, UseLink, SavePassword, DeleteLink, RequestDies, Advance,
                      EndRequest, NoRequest, ResetStates
  <2>3. Storing' => Storing
    BY <2>2 DEF Storing
  <2> QED
    BY <1>2, <2>1, <2>3
<1>6. ASSUME (\E n \in Link : LinkExpires(n)) \/ UNCHANGED resetVars
      PROVE  RowsCrossed'
  BY <1>6 DEF LinkExpires, resetVars, RowsCrossed, Storing
<1> QED
  BY <1>3, <1>4, <1>5, <1>6 DEF ResetNext

\* Links are fresh, uses are excused and rows were crossed: the invariant that
\* LinksSetOnce rests on.
THEOREM ResetIsSound == ResetSpec => []ResetInv
<1>1. ResetInit => ResetInv
  <2> SUFFICES ASSUME ResetInit PROVE ResetInv
    OBVIOUS
  <2>1. /\ \A r \in ResetRequests : resetReq[r] = NoRequest
        /\ resetReq \in [ResetRequests -> ResetStates] /\ linkRows = {} /\ mailed = {} /\ links = 0
    BY DEF ResetInit, NoRequest, ResetStates
  <2>2. LinksFresh
    BY <2>1, ResetAssumption DEF LinksFresh, ResetStates, NoRequest
  <2>3. \A n \in Link : Savers(n) = {}
    BY <2>1 DEF Savers, ResetAt, NoRequest
  <2>4. UsesExcused
    BY <2>1, <2>3, FS_EmptySet DEF ResetInit, UsesExcused, Excused
  <2>5. RowsCrossed
    BY <2>1, FS_EmptySet DEF ResetInit, RowsCrossed, Storing, NoRequest
  <2> QED
    BY <2>2, <2>4, <2>5 DEF ResetInv
<1>2. ResetInv /\ [ResetNext]_resetVars => ResetInv'
  BY LinksFreshStep, UsesExcusedStep, RowsCrossedStep DEF ResetInv
<1> QED
  BY <1>1, <1>2, PTL DEF ResetSpec

\* A link sets the password once, but for the excuses counted, and a new link
\* supersedes the others unless two were stored across each other.
THEOREM ResetLinksSetOnce == ResetSpec => []LinksSetOnce
<1>1. ASSUME ResetInv
      PROVE  LinksSetOnce
  <2>1. \A n \in Link : uses[n] \in Nat /\ excuses[n] \in Nat /\ Cardinality(Savers(n)) \in Nat
    BY <1>1, SaversFinite DEF ResetInv, UsesExcused
  <2>2. \A n \in Link : uses[n] <= 1 + excuses[n]
    BY <1>1, <2>1 DEF ResetInv, UsesExcused, Excused
  <2>3. Cardinality(linkRows) <= 1 + crossed
    <3>1. IsFiniteSet(linkRows)
      <4>1. IsFiniteSet(Link) /\ linkRows \subseteq Link
        BY <1>1, ResetAssumption, FS_Interval DEF ResetInv, LinksFresh, Link
      <4> QED
        BY <4>1, FS_Subset
    <3>2. Cardinality(linkRows) \in Nat
      BY <3>1, FS_CardinalityType
    <3> QED
      BY <1>1, <3>2 DEF ResetInv, RowsCrossed
  <2> QED
    BY <2>2, <2>3 DEF LinksSetOnce
<1> QED
  BY <1>1, ResetIsSound, PTL
\* What the types say beyond the invariant: the bound of failures, and that an
\* idle request has no link.
ResetBounds ==
    /\ expiredLinks \subseteq Link /\ misses \in 0 .. MaxMisses
    /\ \A r \in ResetRequests : resetReq[r].pc = "idle" => resetReq[r].link = 0

\* No step leaves the bounds.
LEMMA ResetBoundsStep ==
    ASSUME LinksFresh, ResetBounds, [ResetNext]_resetVars
    PROVE  ResetBounds'
<1> DEFINE Resting == \A r \in ResetRequests : resetReq'[r].pc = "idle" => resetReq'[r].link = 0
<1>1. /\ MaxMisses \in Nat /\ misses \in 0 .. MaxMisses /\ DOMAIN resetReq = ResetRequests
      /\ \A r \in ResetRequests : resetReq[r].pc = "idle" => resetReq[r].link = 0
      /\ resetReq \in [ResetRequests -> ResetStates]
  BY ResetAssumption DEF LinksFresh, ResetBounds, ResetStates
<1>2. ASSUME NEW r \in ResetRequests, NEW here, NEW there, Advance(r, here, there), there # "idle"
      PROVE  Resting
  BY <1>1, <1>2 DEF Advance, ResetStates
<1>3. ASSUME NEW r \in ResetRequests, resetReq' = [resetReq EXCEPT ![r] = NoRequest]
      PROVE  Resting
  BY <1>1, <1>3 DEF NoRequest
<1>4. ASSUME NEW r \in ResetRequests, NEW pc, NEW n, pc # "idle",
             resetReq' = [resetReq EXCEPT ![r] = [pc |-> pc, link |-> n]]
      PROVE  Resting
  BY <1>1, <1>4
<1>5. resetReq' = resetReq => Resting
  BY <1>1
<1> HIDE DEF Resting
<1>6. ASSUME NEW r \in ResetRequests, EvictLinks(r) \/ StoreLink(r) \/ SavePassword(r)
      PROVE  Resting
  BY <1>2, <1>6 DEF EvictLinks, StoreLink, SavePassword
<1>7. ASSUME NEW r \in ResetRequests, MailLink(r) \/ DeleteLink(r) \/ RequestDies(r)
      PROVE  Resting
  BY <1>3, <1>7 DEF MailLink, DeleteLink, RequestDies, EndRequest
<1>8. ASSUME NEW r \in ResetRequests, AskLink(r) \/ \E n \in mailed : UseLink(r, n)
      PROVE  Resting
  BY <1>4, <1>8 DEF AskLink, UseLink
<1>9. Resting
  BY <1>5, <1>6, <1>7, <1>8 DEF ResetNext, LinkExpires, resetVars
<1>10. misses' \in 0 .. MaxMisses
  <2>1. misses' = misses \/ (misses < MaxMisses /\ misses' = misses + 1)
    BY DEF ResetNext, AskLink, EvictLinks, StoreLink, MailLink, UseLink, SavePassword, DeleteLink,
           RequestDies, LinkExpires, resetVars
  <2> QED
    BY <1>1, <2>1
<1>11. expiredLinks' \subseteq Link
  <2>1. expiredLinks' = expiredLinks \/ \E n \in Link : expiredLinks' = expiredLinks \cup {n}
    BY DEF ResetNext, AskLink, EvictLinks, StoreLink, MailLink, UseLink, SavePassword, DeleteLink,
           RequestDies, LinkExpires, resetVars
  <2> QED
    BY <2>1 DEF ResetBounds
<1> QED
  BY <1>9, <1>10, <1>11 DEF ResetBounds, Resting

\* The links, their rows and the requests keep their types.
THEOREM ResetTyped == ResetSpec => []ResetTypeOK
<1>1. ResetInit => ResetBounds
  BY ResetAssumption DEF ResetInit, ResetBounds, NoRequest
<1>2. ResetInv /\ ResetBounds /\ [ResetNext]_resetVars => ResetBounds'
  BY ResetBoundsStep DEF ResetInv
<1>3. ASSUME ResetInv, ResetBounds
      PROVE  ResetTypeOK
  <2>1. links \in 0 .. MaxLinks /\ mailed \subseteq 1 .. links /\ MaxLinks \in Nat
    BY <1>3, ResetAssumption DEF ResetInv, LinksFresh
  <2>2. mailed \subseteq Link
    BY <2>1 DEF Link
  <2>3. ASSUME NEW r \in ResetRequests
        PROVE  resetReq[r].link \in 0 .. MaxLinks
    <3>1. resetReq[r] \in ResetStates
      BY <1>3 DEF ResetInv, LinksFresh, ResetStates
    <3>2. CASE resetReq[r].pc = "idle"
      BY <1>3, <2>1, <3>2 DEF ResetBounds
    <3>3. CASE resetReq[r].pc # "idle"
      <4>1. resetReq[r].link \in 1 .. links
        BY <1>3, <2>1, <3>1, <3>3 DEF ResetInv, LinksFresh, ResetStates
      <4> QED
        BY <2>1, <4>1
    <3> QED
      BY <3>2, <3>3
  <2>4. resetReq \in [ResetRequests -> [pc : {"idle", "evict", "store", "mail", "save", "delete"},
                                        link : 0 .. MaxLinks]]
    BY <1>3, <2>3 DEF ResetInv, LinksFresh
  <2> QED
    BY <1>3, <2>1, <2>2, <2>4 DEF ResetInv, LinksFresh, UsesExcused, RowsCrossed, ResetBounds, ResetTypeOK
<1> QED
  BY <1>1, <1>2, <1>3, ResetIsSound, PTL DEF ResetSpec
=============================================================================
