--------------------------- MODULE PasswordReset ---------------------------
(***************************************************************************)
(* Password reset of one user: requests for a link (forgotPassword) and    *)
(* uses of one (resetPassword), several of either in progress together,    *)
(* each action being the code between two awaits.                          *)
(***************************************************************************)
EXTENDS Naturals, FiniteSets

CONSTANTS
    ResetRequests,  \* requests in progress at one time
    MaxLinks,       \* bound: links generated
    MaxMisses       \* bound: requests that fail

ASSUME ResetAssumption ==
    IsFiniteSet(ResetRequests) /\ MaxLinks \in Nat /\ MaxMisses \in Nat

VARIABLES
    linkRows,       \* rows of password_reset, by the link they were made for
    expiredLinks,   \* links older than fifteen minutes
    mailed,         \* links the user has been sent
    resetReq,       \* per request, its next step and its link
    links           \* links generated so far, which number them

\* History, read by properties only: per link, the times it set the password,
\* and the excuses for more than one: a use begun while another was in
\* progress, or one that ended without deleting the row; and the number of
\* links saved while another was about to be.
VARIABLES uses, excuses, crossed, misses

resetVars == <<linkRows, expiredLinks, mailed, resetReq, links, uses, excuses, crossed, misses>>

Link == 1 .. MaxLinks
NoRequest == [pc |-> "idle", link |-> 0]

ResetInit ==
    /\ linkRows = {} /\ expiredLinks = {} /\ mailed = {} /\ links = 0
    /\ resetReq = [r \in ResetRequests |-> NoRequest]
    /\ uses = [n \in Link |-> 0] /\ excuses = [n \in Link |-> 0]
    /\ crossed = 0 /\ misses = 0

Advance(r, here, there) == resetReq[r].pc = here /\ resetReq' = [resetReq EXCEPT ![r].pc = there]
EndRequest(r, here) == resetReq[r].pc = here /\ resetReq' = [resetReq EXCEPT ![r] = NoRequest]
OthersAt(r, pcs) == {q \in ResetRequests \ {r} : resetReq[q].pc \in pcs}

-----------------------------------------------------------------------------
\* forgotPassword for a known address: a fresh token and its expiry.
AskLink(r) ==
    /\ resetReq[r].pc = "idle" /\ links < MaxLinks
    /\ links' = links + 1
    /\ resetReq' = [resetReq EXCEPT ![r] = [pc |-> "evict", link |-> links + 1]]
    /\ UNCHANGED <<linkRows, expiredLinks, mailed, uses, excuses, crossed, misses>>

\* Mutant: the older links of the user stay.
NoneEvicted == linkRows

\* The rows left after the older links of the user were evicted.
AfterEviction == {}

EvictLinks(r) ==
    /\ Advance(r, "evict", "store")
    /\ linkRows' = AfterEviction
    /\ UNCHANGED <<expiredLinks, mailed, links, uses, excuses, crossed, misses>>

StoreLink(r) ==
    /\ Advance(r, "store", "mail")
    /\ linkRows' = linkRows \cup {resetReq[r].link}
    /\ crossed' = crossed + IF OthersAt(r, {"store"}) = {} THEN 0 ELSE 1
    /\ UNCHANGED <<expiredLinks, mailed, links, uses, excuses, misses>>

MailLink(r) ==
    /\ EndRequest(r, "mail")
    /\ mailed' = mailed \cup {resetReq[r].link}
    /\ UNCHANGED <<linkRows, expiredLinks, links, uses, excuses, crossed, misses>>

\* resetPassword: 401 for a link without a row, or an expired one.
Acceptable(n) == n \in linkRows \ expiredLinks

UseLink(r, n) ==
    /\ resetReq[r].pc = "idle" /\ n \in mailed
    /\ Acceptable(n)
    /\ resetReq' = [resetReq EXCEPT ![r] = [pc |-> "save", link |-> n]]
    /\ excuses' = [excuses EXCEPT ![n] =
                     @ + IF \E q \in OthersAt(r, {"save", "delete"}) : resetReq[q].link = n
                         THEN 1 ELSE 0]
    /\ UNCHANGED <<linkRows, expiredLinks, mailed, links, uses, crossed, misses>>

\* The hash is computed and the user saved, whatever became of the link.
SavePassword(r) ==
    /\ Advance(r, "save", "delete")
    /\ uses' = [uses EXCEPT ![resetReq[r].link] = @ + 1]
    /\ UNCHANGED <<linkRows, expiredLinks, mailed, links, excuses, crossed, misses>>

\* Mutant: the row stays.
RowKept(n) == linkRows

RowDeleted(n) == linkRows \ {n}

DeleteLink(r) ==
    /\ EndRequest(r, "delete")
    /\ linkRows' = RowDeleted(resetReq[r].link)
    /\ UNCHANGED <<expiredLinks, mailed, links, uses, excuses, crossed, misses>>

\* An await of a request rejects, or the process dies under it.
RequestDies(r) ==
    /\ resetReq[r].pc # "idle" /\ misses < MaxMisses
    /\ misses' = misses + 1
    /\ resetReq' = [resetReq EXCEPT ![r] = NoRequest]
    /\ excuses' = IF resetReq[r].pc = "delete" THEN [excuses EXCEPT ![resetReq[r].link] = @ + 1]
                  ELSE excuses
    /\ UNCHANGED <<linkRows, expiredLinks, mailed, links, uses, crossed>>

LinkExpires(n) ==
    /\ n \in 1 .. links /\ n \notin expiredLinks
    /\ expiredLinks' = expiredLinks \cup {n}
    /\ UNCHANGED <<linkRows, mailed, resetReq, links, uses, excuses, crossed, misses>>

ResetNext ==
    \/ \E r \in ResetRequests :
          \/ AskLink(r) \/ EvictLinks(r) \/ StoreLink(r) \/ MailLink(r)
          \/ \E n \in mailed : UseLink(r, n)
          \/ SavePassword(r) \/ DeleteLink(r) \/ RequestDies(r)
    \/ \E n \in Link : LinkExpires(n)

ResetSpec == ResetInit /\ [][ResetNext]_resetVars

-----------------------------------------------------------------------------
ResetTypeOK ==
    /\ linkRows \subseteq Link /\ expiredLinks \subseteq Link /\ mailed \subseteq Link
    /\ links \in 0 .. MaxLinks /\ misses \in 0 .. MaxMisses /\ crossed \in Nat
    /\ resetReq \in [ResetRequests -> [pc : {"idle", "evict", "store", "mail", "save", "delete"},
                                  link : 0 .. MaxLinks]]
    /\ uses \in [Link -> Nat] /\ excuses \in [Link -> Nat]

\* "Replay Protection" (auth.service.ts:108): a link sets the password once,
\* and once more for each use that began while another was in progress or that
\* ended before it deleted the row; and a new link supersedes the older ones,
\* unless two requests for one were both about to store theirs.
LinksSetOnce ==
    /\ \A n \in Link : uses[n] <= 1 + excuses[n]
    /\ Cardinality(linkRows) <= 1 + crossed
=============================================================================
