----------------------------- MODULE AuthManager -----------------------------
(***************************************************************************)
(* AuthManager of cendb-security/src/auth.rs: password logins with a       *)
(* time-based lockout, API keys, and a session cache in front of a         *)
(* SessionStore.  Every call takes &mut self and is one action; time may   *)
(* pass between calls, and while login verifies a password.                *)
(*                                                                         *)
(* A user is its name: ids are handed out in the order of creation, and a  *)
(* host creates its users again, in that order, after a restart.  Tokens   *)
(* and keys are random and never repeat: they are numbers in the order of  *)
(* issue.  Passwords and hashes are reduced to whether they match.  The    *)
(* store is the map the SessionStore trait describes; each of its          *)
(* operations may fail, and the manager ignores every error.               *)
(* Roles decide nothing here.                                              *)
(*                                                                         *)
(* failures, kept and out are not in the code: the failed verifications    *)
(* of a user since the last success, the sessions whose save succeeded and *)
(* that nobody ended, and the tokens that logout removed from the store.   *)
(***************************************************************************)
EXTENDS Integers, Sequences

CONSTANTS User,
          MaxFailedAttempts,  \* max_failed_attempts
          LockoutDuration,    \* lockout_duration
          SessionLifetime,    \* the 3600 seconds of build_session
          VerifyTime,         \* bound: seconds a verification takes
          MaxNow,             \* bound: the clock
          MaxTokens,          \* bound: sessions issued
          MaxKeys,            \* bound: API keys issued
          MaxFailures         \* bound: length of failures

ASSUME AuthAssumption ==
    /\ MaxFailedAttempts \in Nat \ {0}
    /\ LockoutDuration \in Nat /\ SessionLifetime \in Nat
    /\ VerifyTime \in Nat /\ MaxNow \in Nat

VARIABLES now,              \* SystemTime, in seconds
          users, inactive,  \* users created; those deactivated
          failed_attempts,  \* user -> count, 0 when there is no entry
          locked_until,     \* user -> time, NoEntry when there is none
          keys,             \* api_keys
          issued,           \* tokens and keys handed out so far
          sessions, store,  \* the cache and the SessionStore
          failures, kept, out

lockout == <<failed_attempts, locked_until, failures>>
session_vars == <<sessions, store, kept, out>>
account_vars == <<users, inactive, keys>>
vars == <<now, account_vars, lockout, issued, session_vars>>

NoEntry == 0

Session == [token : Nat, user_id : User, expires_at : Nat]
ApiKey == [key : Nat, user_id : User, expires_at : Nat]

ByToken(set, token) == {s \in set : s.token = token}
Without(set, token) == {s \in set : s.token # token}

TypeOK == /\ now \in 1..MaxNow
          /\ users \subseteq User /\ inactive \subseteq users
          /\ failed_attempts \in [User -> Nat]
          /\ locked_until \in [User -> Nat]
          /\ keys \subseteq ApiKey
          /\ issued \in [token : 0..MaxTokens, key : 0..MaxKeys]
          /\ {sessions, store, kept} \subseteq SUBSET Session
          /\ out \subseteq 1..MaxTokens
          /\ \A u \in User : failures[u] \in Seq([start : Nat, end : Nat])

Init == /\ now = 1
        /\ users = {} /\ inactive = {}
        /\ failed_attempts = [u \in User |-> 0]
        /\ locked_until = [u \in User |-> NoEntry]
        /\ keys = {}
        /\ issued = [token |-> 0, key |-> 0]
        /\ sessions = {} /\ store = {}
        /\ failures = [u \in User |-> << >>]
        /\ kept = {} /\ out = {}

\* now_secs is wall-clock time, taken never to be set back.
Tick == /\ now < MaxNow
        /\ now' = now + 1
        /\ UNCHANGED <<account_vars, lockout, issued, session_vars>>

-----------------------------------------------------------------------------
(* Accounts. *)

CreateUser(u) ==
    /\ u \notin users
    /\ users' = users \cup {u}
    /\ UNCHANGED <<now, inactive, keys, lockout, issued, session_vars>>

DeactivateUser(u) ==
    /\ u \in users
    /\ inactive' = inactive \cup {u}
    /\ UNCHANGED <<now, users, keys, lockout, issued, session_vars>>

\* expires_at is None or a time; NoEntry stands for None.
CreateApiKey(u, expires_at) ==
    /\ u \in users
    /\ issued.key < MaxKeys
    /\ issued' = [issued EXCEPT !.key = @ + 1]
    /\ keys' = keys \cup {[key |-> issued'.key, user_id |-> u, expires_at |-> expires_at]}
    /\ UNCHANGED <<now, users, inactive, lockout, session_vars>>

RevokeApiKey(k) ==
    /\ k \in keys
    /\ keys' = keys \ {k}
    /\ UNCHANGED <<now, users, inactive, lockout, issued, session_vars>>

-----------------------------------------------------------------------------
(* Login. *)

\* build_session and cache_and_persist_session: the store first, whose error
\* is dropped (it may come after the session was written), then the cache.
NewSession(u) ==
    LET session == [token |-> issued.token + 1, user_id |-> u,
                    expires_at |-> now' + SessionLifetime]
    IN /\ issued.token < MaxTokens
       /\ issued' = [issued EXCEPT !.token = @ + 1]
       /\ sessions' = sessions \cup {session}
       /\ \/ store' = store \cup {session} /\ kept' \in {kept, kept \cup {session}}
          \/ UNCHANGED <<store, kept>>
       /\ UNCHANGED out

Locked(u) == locked_until[u] > now

\* A lockout that has expired is cleared before anything else happens.
Expired(u) == locked_until[u] # NoEntry /\ ~Locked(u)

ClearedAttempts(u) == IF Expired(u) THEN 0 ELSE failed_attempts[u]

PasswordChecked(u) == ~Locked(u) /\ u \in users \ inactive

\* Fault: the lockout begins when the call began.
LoginFails_StaleNow(u) ==
    /\ PasswordChecked(u)
    /\ Len(failures[u]) < MaxFailures
    /\ \E t \in now..(now + VerifyTime) : t <= MaxNow /\ now' = t
    /\ failed_attempts' = [failed_attempts EXCEPT ![u] = ClearedAttempts(u) + 1]
    /\ locked_until' = [locked_until EXCEPT ![u] =
          IF failed_attempts'[u] >= MaxFailedAttempts THEN now + LockoutDuration
          ELSE IF Expired(u) THEN NoEntry ELSE @]
    /\ failures' = [failures EXCEPT ![u] = Append(@, [start |-> now, end |-> now'])]
    /\ UNCHANGED <<account_vars, issued, session_vars>>

\* The password is wrong.  The clock is read again after the verification.
LoginFails(u) ==
    /\ PasswordChecked(u)
    /\ Len(failures[u]) < MaxFailures
    /\ \E t \in now..(now + VerifyTime) : t <= MaxNow /\ now' = t
    /\ failed_attempts' = [failed_attempts EXCEPT ![u] = ClearedAttempts(u) + 1]
    /\ locked_until' = [locked_until EXCEPT ![u] =
          IF failed_attempts'[u] >= MaxFailedAttempts THEN now' + LockoutDuration
          ELSE IF Expired(u) THEN NoEntry ELSE @]
    /\ failures' = [failures EXCEPT ![u] = Append(@, [start |-> now, end |-> now'])]
    /\ UNCHANGED <<account_vars, issued, session_vars>>

\* Success clears the counter and any lockout.
LoginSucceeds(u) ==
    /\ PasswordChecked(u)
    /\ \E t \in now..(now + VerifyTime) : t <= MaxNow /\ now' = t
    /\ failed_attempts' = [failed_attempts EXCEPT ![u] = 0]
    /\ locked_until' = [locked_until EXCEPT ![u] = NoEntry]
    /\ failures' = [failures EXCEPT ![u] = << >>]
    /\ NewSession(u)
    /\ UNCHANGED account_vars

\* The user does not exist or is inactive: an expired lockout is cleared all
\* the same.
LoginRefused(u) ==
    /\ Expired(u)
    /\ u \notin users \ inactive
    /\ failed_attempts' = [failed_attempts EXCEPT ![u] = 0]
    /\ locked_until' = [locked_until EXCEPT ![u] = NoEntry]
    /\ UNCHANGED <<now, account_vars, failures, issued, session_vars>>

LoginApiKey(k) ==
    /\ k \in keys
    /\ k.expires_at = NoEntry \/ now <= k.expires_at
    /\ k.user_id \in users \ inactive
    /\ now' = now
    /\ NewSession(k.user_id)
    /\ UNCHANGED <<account_vars, lockout>>

-----------------------------------------------------------------------------
(* Sessions. *)

\* Fault: a session ends one second early.
SessionExpired_AtExpiry(s) == now >= s.expires_at

SessionExpired(s) == now > s.expires_at

\* The cached session if there is one, else the stored one.
Known(token) == IF ByToken(sessions, token) # {} THEN ByToken(sessions, token)
                ELSE ByToken(store, token)

\* validate_session: an expired session leaves the cache and, unless its
\* delete fails, the store; a stored one is cached.  When load fails or
\* nothing is found the state stays.
ValidateSession(token) ==
    /\ \E s \in Known(token) :
         IF SessionExpired(s)
         THEN /\ sessions' = Without(sessions, token)
              /\ store' \in {store, Without(store, token)}
         ELSE /\ sessions' = sessions \cup {s}
              /\ UNCHANGED store
    /\ UNCHANGED <<now, account_vars, lockout, issued, kept, out>>

\* Fault: only the cache forgets the session.
Logout_CacheOnly(token) ==
    /\ token \in 1..issued.token
    /\ sessions' = Without(sessions, token)
    /\ out' = out \cup {token}
    /\ kept' = Without(kept, token)
    /\ UNCHANGED <<now, account_vars, lockout, issued, store>>

\* logout: the error of delete is dropped.
Logout(token) ==
    /\ token \in 1..issued.token
    /\ sessions' = Without(sessions, token)
    /\ \/ store' = Without(store, token) /\ out' = out \cup {token}
       \/ UNCHANGED <<store, out>>
    /\ kept' = Without(kept, token)
    /\ UNCHANGED <<now, account_vars, lockout, issued>>

\* The process ends: only the store is persistent.
Restart ==
    /\ users # {}
    /\ users' = {} /\ inactive' = {} /\ keys' = {}
    /\ failed_attempts' = [u \in User |-> 0]
    /\ locked_until' = [u \in User |-> NoEntry]
    /\ failures' = [u \in User |-> << >>]
    /\ sessions' = {}
    /\ UNCHANGED <<now, issued, store, kept, out>>

Next == \/ Tick
        \/ \E u \in User : \/ CreateUser(u)
                           \/ DeactivateUser(u)
                           \/ \E e \in {NoEntry, now} : CreateApiKey(u, e)
                           \/ LoginFails(u)
                           \/ LoginSucceeds(u)
                           \/ LoginRefused(u)
        \/ \E k \in keys : RevokeApiKey(k) \/ LoginApiKey(k)
        \/ \E token \in 1..MaxTokens : ValidateSession(token) \/ Logout(token)
        \/ Restart

Spec == Init /\ [][Next]_vars
-----------------------------------------------------------------------------
(* Properties. *)

\* The lockout throttles guessing: without a success in between, the next
\* verification after max_failed_attempts failed ones begins lockout_duration
\* after each of them ended, however long they took.
Throttled ==
    \A u \in User : \A i \in 1..(Len(failures[u]) - MaxFailedAttempts) :
        failures[u][i + MaxFailedAttempts].start >= failures[u][i].end + LockoutDuration

\* A lockout is recorded exactly when the attempts are used up, so that nobody
\* is locked out early and an expired lockout starts a new count.
LockedWhenExhausted ==
    \A u \in User : /\ failed_attempts[u] <= MaxFailedAttempts
                    /\ failed_attempts[u] = MaxFailedAttempts <=> locked_until[u] # NoEntry

\* A session that was stored is found until it expires or its user logs out,
\* through restarts and whatever else is validated.
StoredUntilEnd == \A s \in kept : s \in store \/ now > s.expires_at

\* A token that logout removed is not found again, in the cache or the store.
LoggedOutForGood == \A s \in sessions \cup store : s.token \notin out
-----------------------------------------------------------------------------
(* What the inductive invariant adds to the four properties. *)

Interval == [start : Nat, end : Nat]

\* A recorded lockout ends lockout_duration after every failure so far.
LockoutCovers ==
    \A u \in User : \A i \in 1..Len(failures[u]) :
        /\ failures[u][i].end <= now
        /\ locked_until[u] # NoEntry => failures[u][i].end + LockoutDuration <= locked_until[u]

\* The failures that failed_attempts no longer counts are that long past.
UncountedPast ==
    \A u \in User : \A i \in 1..Len(failures[u]) :
        i <= Len(failures[u]) - failed_attempts[u]
        => failures[u][i].end + LockoutDuration <= now

\* A token names one session, and was issued.
TokensUnique ==
    LET all == sessions \cup store \cup kept
    IN /\ \A s \in all : s.token <= issued.token
       /\ \A s, t \in all : s.token = t.token => s = t
       /\ \A t \in out : t <= issued.token
=============================================================================
