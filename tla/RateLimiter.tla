---------------------------- MODULE RateLimiter ----------------------------
(***************************************************************************)
(* The sliding-window limiter of logins, per client address, and of manual *)
(* triggers, per identity (adapters/input/http/rate_limit.py, routers      *)
(* auth.login and triggers.trigger_runner). allow() awaits nothing: it is  *)
(* one step. A key absent from the dict and an empty deque are the same.   *)
(***************************************************************************)
EXTENDS Integers, Sequences, FiniteSets, FiniteSetsExt, SequencesExt

CONSTANTS
    Caller,       \* keys: client addresses, or identities
    MaxAttempts,  \* max_attempts
    Window,       \* window_seconds, in ticks of the clock
    Second,       \* ticks in a second
    Horizon       \* bound: the last tick

(* Assumed of the constants, by the modules that give them values. *)
LimiterAssumption ==
    /\ MaxAttempts \in Nat \ {0} /\ Window \in Nat \ {0}
    /\ Second \in Nat \ {0} /\ Horizon \in Nat

Time == 0..Horizon

VARIABLES
    now,       \* the monotonic clock
    attempts,  \* the deque of each key
    granted,   \* history: when each key was let through
    promise    \* history: when the Retry-After of the last refusal ends; -1

limiterVars == <<now, attempts, granted, promise>>

-----------------------------------------------------------------------------

LimiterTypeOK ==
    /\ now \in Time
    /\ attempts \in [Caller -> Seq(Time)]
    /\ \A k \in Caller : Len(attempts[k]) <= MaxAttempts
    /\ granted \in [Caller -> Seq(Time)]
    /\ promise \in [Caller -> Int]

LimiterInit ==
    /\ now = 0
    /\ attempts = [k \in Caller |-> <<>>]
    /\ granted = [k \in Caller |-> <<>>]
    /\ promise = [k \in Caller |-> -1]

Tick ==
    /\ now < Horizon /\ now' = now + 1
    /\ UNCHANGED <<attempts, granted, promise>>

Expired(t) == now - t >= Window

(* purge_stale_keys() drops the keys whose last attempt has expired. *)
Purged(k) ==
    IF attempts[k] # <<>> /\ Expired(Last(attempts[k])) THEN <<>> ELSE attempts[k]

(* Mutant: an attempt expires when more than the window has passed since   *)
(* the last one.                                                           *)
Current_reset(k) ==
    IF Purged(k) # <<>> /\ Expired(Head(Purged(k))) THEN <<>> ELSE Purged(k)

(* The deque once popleft() has met an attempt that has not expired. *)
DropExpired(deque) ==
    LET first == Min({i \in DOMAIN deque : ~Expired(deque[i])} \cup {Len(deque) + 1}) IN
      SubSeq(deque, first, Len(deque))

Current(k) == DropExpired(Purged(k))

(* max(1, ceil(remaining)), in seconds. *)
RetryAfter(deque) ==
    LET remaining == Window - (now - Head(deque)) IN
      Max({1, (remaining + Second - 1) \div Second})

Allow(k) ==
    LET deque == Current(k)
        others == [c \in Caller |-> Purged(c)] IN
      IF Len(deque) >= MaxAttempts
      THEN /\ attempts' = [others EXCEPT ![k] = deque]
           /\ promise' = [promise EXCEPT ![k] = now + Second * RetryAfter(deque)]
           /\ UNCHANGED <<now, granted>>
      ELSE /\ attempts' = [others EXCEPT ![k] = Append(deque, now)]
           /\ granted' = [granted EXCEPT ![k] = Append(@, now)]
           /\ promise' = [promise EXCEPT ![k] = -1]
           /\ UNCHANGED now

LimiterNext == Tick \/ \E k \in Caller : Allow(k)

LimiterSpec == LimiterInit /\ [][LimiterNext]_limiterVars

-----------------------------------------------------------------------------

(* No window, wherever it begins, holds more than max_attempts attempts of *)
(* one key that were let through (SlidingWindowRateLimiter.allow).         *)
AtMostMax ==
    \A k \in Caller, t \in Time :
        Cardinality({i \in DOMAIN granted[k] :
                       t <= granted[k][i] /\ granted[k][i] < t + Window})
          <= MaxAttempts

(* A caller that waits as long as retry_after() told it, in whole seconds, *)
(* is not refused again.                                                   *)
RetryAfterHonest ==
    \A k \in Caller : promise[k] # -1 /\ now >= promise[k] =>
        Len(Current(k)) < MaxAttempts

(* The quota is kept, and so is the word given to whoever is over it.      *)
QuotaKept == AtMostMax /\ RetryAfterHonest
=============================================================================
