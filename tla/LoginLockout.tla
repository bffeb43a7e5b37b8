---------------------------- MODULE LoginLockout ----------------------------
(***************************************************************************)
(* Lockout of one account after repeated failed logins: the rate and       *)
(* failure counters, the lock and its escalation history, kept as Redis    *)
(* keys with a time to live and shared by every login in progress.         *)
(***************************************************************************)
EXTENDS Naturals, FiniteSets

CONSTANTS
    Logins,         \* logins of the account in progress at one time
    RateLimit,      \* LOGIN_RATE_LIMIT
    Threshold,      \* LOCKOUT_FAILURE_THRESHOLD
    MaxLockouts,    \* bound: lockouts told apart (minutes stop doubling)
    MaxRate         \* bound: value of the rate counter

ASSUME LockoutAssumption ==
    /\ IsFiniteSet(Logins) /\ Threshold \in Nat \ {0}
    /\ MaxLockouts \in Nat /\ MaxRate \in Nat

VARIABLES
    keys,           \* auth:rate, auth:fail, auth:lockouts: value and whether it expires
    lock,           \* auth:lock: 0 when absent, else the lockout it was set for
    login,          \* where each login is
    lost            \* logins lost by a crash between two commands (0 or 1)

lockVars == <<keys, lock, login, lost>>

Absent == [n |-> 0, ttl |-> FALSE]
Kinds == {"rate", "fail", "lockouts"}

\* A login is at a step pc, on its way with counter key; n is what it read.
At(pc, k, n) == [pc |-> pc, key |-> k, n |-> n]
Rest == At("idle", "rate", 0)

\* Mutant: the threshold is reached one failure late.
LateThreshold(k, n) ==
    CASE k = "rate"     -> IF n > RateLimit THEN Rest ELSE At("verify", k, 0)
      [] k = "fail"     -> IF n <= Threshold THEN Rest ELSE At("incr", "lockouts", 0)
      [] k = "lockouts" -> At("lock", k, n)

\* Where a login goes once its increment of counter k returned n.
AfterIncr(k, n) ==
    CASE k = "rate"     -> IF n > RateLimit THEN Rest ELSE At("verify", k, 0)
      [] k = "fail"     -> IF n < Threshold THEN Rest ELSE At("incr", "lockouts", 0)
      [] k = "lockouts" -> At("lock", k, n)

-----------------------------------------------------------------------------
LockoutInit ==
    /\ keys = [k \in Kinds |-> Absent]
    /\ lock = 0
    /\ login = [l \in Logins |-> Rest]
    /\ lost = 0

Go(l, place) == login' = [login EXCEPT ![l] = place]

\* assertCanAttempt reads the lock: 423 while it is set.
CheckLock(l) ==
    /\ login[l].pc = "idle" /\ lock = 0
    /\ Go(l, At("incr", "rate", 0))
    /\ UNCHANGED <<keys, lock, lost>>

\* Mutant: EXPIRE is only sent for a counter that is not new.
ExpiresOld(n) == n # 1

IsNew(n) == n = 1

\* incr: INCR, and EXPIRE as a second command when the key is new.
Incr(l) == LET k == login[l].key
               n == keys[k].n + 1 IN
    /\ login[l].pc = "incr"
    /\ k = "rate" => n <= MaxRate
    /\ k = "lockouts" => n <= MaxLockouts
    /\ keys' = [keys EXCEPT ![k].n = n]
    /\ Go(l, IF IsNew(n) THEN At("expire", k, 0) ELSE AfterIncr(k, n))
    /\ UNCHANGED <<lock, lost>>

Expire(l) == LET k == login[l].key IN
    /\ login[l].pc = "expire"
    /\ keys' = [keys EXCEPT ![k].ttl = keys[k].n > 0]
    /\ Go(l, AfterIncr(k, 1))
    /\ UNCHANGED <<lock, lost>>

\* The password is compared.
Verify(l) ==
    /\ login[l].pc = "verify"
    /\ Go(l, At("incr", "fail", 0)) \/ Go(l, At("success", "rate", 0))
    /\ UNCHANGED <<keys, lock, lost>>

\* recordFailure at the threshold: set the lock, then clear the counter.
SetLock(l) ==
    /\ login[l].pc = "lock"
    /\ lock' = login[l].n
    /\ Go(l, At("clear", "rate", 0))
    /\ UNCHANGED <<keys, lost>>

ClearFailures(l) ==
    /\ login[l].pc = "clear"
    /\ keys' = [keys EXCEPT !["fail"] = Absent]
    /\ Go(l, Rest)
    /\ UNCHANGED <<lock, lost>>

\* recordSuccess deletes both counters in one command.
RecordSuccess(l) ==
    /\ login[l].pc = "success"
    /\ keys' = [keys EXCEPT !["fail"] = Absent, !["rate"] = Absent]
    /\ Go(l, At("issue", "rate", 0))
    /\ UNCHANGED <<lock, lost>>

\* login answers with a token of a new family (IssueFamily of RefreshTokens).
LoginDone(l) ==
    /\ login[l].pc = "issue"
    /\ Go(l, Rest)
    /\ UNCHANGED <<keys, lock, lost>>

\* Admin override: one DEL of the four keys.
Unlock ==
    /\ keys' = [k \in Kinds |-> Absent]
    /\ lock' = 0
    /\ UNCHANGED <<login, lost>>

KeyExpires(k) ==
    /\ keys[k].ttl
    /\ keys' = [keys EXCEPT ![k] = Absent]
    /\ UNCHANGED <<lock, login, lost>>

LockExpires == lock > 0 /\ lock' = 0 /\ UNCHANGED <<keys, login, lost>>

\* The server stops in the middle of one login.
LoseLogin(l) ==
    /\ lost = 0 /\ login[l].pc # "idle"
    /\ lost' = 1
    /\ Go(l, Rest)
    /\ UNCHANGED <<keys, lock>>

LockoutStep ==
    \/ \E l \in Logins : \/ CheckLock(l) \/ Verify(l) \/ SetLock(l) \/ ClearFailures(l)
                         \/ RecordSuccess(l) \/ LoginDone(l) \/ LoseLogin(l) \/ Incr(l) \/ Expire(l)
    \/ Unlock
    \/ LockExpires
    \/ \E k \in Kinds : KeyExpires(k)

LockoutSpec == LockoutInit /\ [][LockoutStep]_lockVars

-----------------------------------------------------------------------------
LockoutTypeOK == LET Values == 0 .. MaxRate + Threshold + Cardinality(Logins) + MaxLockouts IN
    /\ keys \in [Kinds -> [n : Values, ttl : BOOLEAN]]
    /\ lock \in 0 .. MaxLockouts
    /\ login \in [Logins -> [pc : {"idle", "incr", "expire", "verify", "lock", "clear",
                                   "success", "issue"}, key : Kinds, n : Values]]
    /\ lost \in {0, 1}

\* A counter that exists will expire, or some login is about to make it: only
\* a login lost between the two commands leaves a counter for good.
CountersExpire ==
    lost = 0 => \A k \in Kinds : keys[k].n > 0 =>
        keys[k].ttl \/ \E l \in Logins : login[l].pc = "expire" /\ login[l].key = k

\* Concurrent logins cannot run past the threshold by more than their number:
\* while the counter stands at or above it, whoever reached it is on the way
\* to set the lock and clear the counter.
FailuresBounded ==
    /\ keys["fail"].n < Threshold + Cardinality(Logins) + lost
    /\ keys["fail"].n >= Threshold /\ lost = 0 => \E l \in Logins :
          \/ login[l].pc \in {"lock", "clear"}
          \/ login[l].pc \in {"incr", "expire"} /\ login[l].key \in {"fail", "lockouts"}
=============================================================================
