---------------------------- MODULE LoginThrottle ----------------------------
(***************************************************************************)
(* The counters in Redis that slow down failing logins (rateLimit.ts and   *)
(* the first half of auth/login/route.ts), under overlapping logins from   *)
(* one address.  A key counts, and goes when its time to live has run out; *)
(* a login asks the locks and limits first, and counts only when the       *)
(* password was wrong.                                                     *)
(*                                                                         *)
(* Time is a tick; no tick passes while a login is between counting and    *)
(* what follows from the count (a few round trips to Redis).  The backoff  *)
(* delays an answer and is left out; so is a Redis that fails, which       *)
(* admits everybody.                                                       *)
(***************************************************************************)
EXTENDS Integers, FiniteSets, FiniteSetsExt

CONSTANTS
    Accounts,
    Address,          \* where all logins come from
    Requests,
    MaxAttempts,      \* max of PER_ACCOUNT_RATE_LIMIT and PER_IP_RATE_LIMIT
    RateWindow,       \* their windowMs, in ticks
    MaxFailures,      \* MaxFailures[k]: maxFailures of ACCOUNT_LOCKOUT or IP_LOCKOUT
    Window,           \* Window[k]: its windowMs and its lockoutMs, in ticks
    MaxCount          \* bound: a counter stops here; no limit above it is asked for

Keys == Accounts \cup {Address}

VARIABLES
    calm,      \* the server does not stop in this behaviour
    attempts,  \* attempts[k]: ratelimit:<k>
    failures,  \* failures[k]: lockout:<k>:failures
    locked,    \* locked[k]: what lockout:<k>:locked has left to live, or 0
    login      \* login[r]: how far login r is

throttleVars == <<calm, attempts, failures, locked, login>>

Idle == [is |-> "idle"]
NoKey == [count |-> 0, left |-> 0]
NoExpiry == -1          \* what PTTL says of a key without a time to live

ThrottleInit ==
    /\ calm \in BOOLEAN
    /\ attempts = [k \in Keys |-> NoKey]
    /\ failures = [k \in Keys |-> NoKey]
    /\ locked = [k \in Keys |-> 0]
    /\ login = [r \in Requests |-> Idle]

-----------------------------------------------------------------------------
(* rateLimit.ts *)

Counters(counter, keys) ==
    [k \in Keys |-> IF k \in keys
                    THEN [count |-> Min({counter[k].count + 1, MaxCount}),
                          left |-> IF counter[k] = NoKey THEN NoExpiry ELSE counter[k].left]
                    ELSE counter[k]]

\* PEXPIRE does nothing to a key that has gone meanwhile
Stamped(counter, keys, life) ==
    [k \in Keys |-> IF k \in keys /\ counter[k] # NoKey THEN [counter[k] EXCEPT !.left = life[k]] ELSE counter[k]]

IsRateLimited(k) == attempts[k].count >= MaxAttempts /\ attempts[k].left > 0

\* The fault: the lock is set and never asked for
NobodyLocked(k) == FALSE

IsLocked(k) == locked[k] > 0

Elapsed(counter) ==
    [k \in Keys |-> IF counter[k].left = 1 THEN NoKey
                    ELSE IF counter[k].left > 1 THEN [counter[k] EXCEPT !.left = @ - 1]
                    ELSE counter[k]]

\* The fault: the lock is set without a time to live
LocksKept == locked

LocksElapsed == [k \in Keys |-> IF locked[k] = 0 THEN 0 ELSE locked[k] - 1]

-----------------------------------------------------------------------------
(* auth/login/route.ts *)

Subjects(a) == {a, Address}

\* Locks, limits, then the password is looked at
Admit(r, a) ==
    /\ login[r] = Idle
    /\ \A k \in Subjects(a) : ~IsLocked(k) /\ ~IsRateLimited(k)
    /\ login' = [login EXCEPT ![r] = [is |-> "admitted", account |-> a]]
    /\ UNCHANGED <<calm, attempts, failures, locked>>

\* A wrong password: INCR on every counter
Count(r) ==
    LET keys == Subjects(login[r].account)
    IN  /\ login[r].is = "admitted"
        /\ attempts' = Counters(attempts, keys)
        /\ failures' = Counters(failures, keys)
        /\ login' = [login EXCEPT ![r] =
              [is |-> "counted",
               attempts |-> {k \in keys : attempts[k].count = 0},
               failures |-> {k \in keys : failures[k].count = 0},
               over |-> {k \in keys : failures[k].count + 1 >= MaxFailures[k]}]]
        /\ UNCHANGED <<calm, locked>>

\* PEXPIRE on the counters that were new, SET PX on the locks that are due
FollowUp(r) ==
    /\ login[r].is = "counted"
    /\ attempts' = Stamped(attempts, login[r].attempts, [k \in Keys |-> RateWindow])
    /\ failures' = Stamped(failures, login[r].failures, Window)
    /\ locked' = [k \in Keys |-> IF k \in login[r].over THEN Window[k] ELSE locked[k]]
    /\ login' = [login EXCEPT ![r] = Idle]
    /\ UNCHANGED calm

\* The right password forgives the account, not the address
Succeed(r) ==
    /\ login[r].is = "admitted"
    /\ attempts' = [attempts EXCEPT ![login[r].account] = NoKey]
    /\ failures' = [failures EXCEPT ![login[r].account] = NoKey]
    /\ locked' = [locked EXCEPT ![login[r].account] = 0]
    /\ login' = [login EXCEPT ![r] = Idle]
    /\ UNCHANGED calm

Tick ==
    /\ \A r \in Requests : login[r].is # "counted"
    /\ attempts' = Elapsed(attempts)
    /\ failures' = Elapsed(failures)
    /\ locked' = LocksElapsed
    /\ UNCHANGED <<calm, login>>

Stop ==
    /\ ~calm /\ \E r \in Requests : login[r] # Idle
    /\ login' = [r \in Requests |-> Idle]
    /\ UNCHANGED <<calm, attempts, failures, locked>>

ThrottleNext ==
    \/ \E r \in Requests :
        \/ \E a \in Accounts : Admit(r, a)
        \/ Count(r) \/ FollowUp(r) \/ Succeed(r)
    \/ Tick \/ Stop

-----------------------------------------------------------------------------
TypeOK ==
    /\ locked \in [Keys -> Nat]
    /\ \A k \in Keys : attempts[k].count \in Nat /\ failures[k].count \in Nat
    /\ DOMAIN login = Requests

\* However logins overlap, one window counts no more wrong passwords against
\* an account or an address than the limit and those that were admitted
\* together with the last.
GuessesBounded == calm => \A k \in Keys : failures[k].count < MaxFailures[k] + Cardinality(Requests)

\* A counter is a key "with its own TTL" (rateLimit.ts) once its login has
\* answered - unless the server stops between INCR and PEXPIRE, after which it
\* never goes and bounds nothing.
CountersExpire ==
    \A k \in Keys :
        (calm /\ failures[k].count > 0 /\ failures[k].left = NoExpiry) =>
            \E r \in Requests : login[r].is = "counted" /\ k \in login[r].failures

\* Whoever is locked out may try again, however many go on trying.
LocksLift == \A k \in Keys : []<>(locked[k] = 0)
=============================================================================
