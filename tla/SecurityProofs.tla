---------------------------- MODULE SecurityProofs ----------------------------
(***************************************************************************)
(* The properties of the security components, for any values of their      *)
(* constants: AuthManager and FileSessionStore; the audit log, whose ghost *)
(* chain is what the kept entries are drawn from; the Merkle tree; the     *)
(* envelopes of the key manager and encrypted fields; roles and masks.     *)
(***************************************************************************)
EXTENDS MCSecurity, FiniteSetTheorems, SequenceTheorems, WellFoundedInduction, TLAPS

\* The invariant without the part about sessions, and that part.
LockoutInv == /\ now \in Nat \ {0}
              /\ failed_attempts \in [User -> Nat]
              /\ locked_until \in [User -> Nat]
              /\ failures \in [User -> Seq(Interval)]
              /\ LockedWhenExhausted
              /\ LockoutCovers
              /\ UncountedPast
              /\ Throttled

SessionInv == /\ now \in Nat \ {0}
              /\ issued \in [token : Nat, key : Nat]
              /\ sessions \subseteq Session
              /\ store \subseteq Session
              /\ kept \subseteq Session
              /\ out \subseteq Nat
              /\ TokensUnique
              /\ StoredUntilEnd
              /\ LoggedOutForGood

\* The empty sequence of failures satisfies everything that is said of one.
LEMMA InitLockout == ASSUME Init PROVE LockoutInv
  BY AuthAssumption DEF Init, LockoutInv, LockedWhenExhausted, LockoutCovers,
     UncountedPast, Throttled, Interval, NoEntry

\* There is no session at first.
LEMMA InitSession == ASSUME Init PROVE SessionInv
  BY AuthAssumption DEF Init, SessionInv, TokensUnique, StoredUntilEnd, LoggedOutForGood,
     Session

\* Used where the provers are busy with functions and sequences.
LEMMA SumIsNat == \A a, b \in Nat : a + b \in Nat
  OBVIOUS

\* The times of a recorded failure are numbers.
LEMMA FailureTimes ==
  ASSUME NEW fs \in [User -> Seq(Interval)], NEW u \in User, NEW i \in 1..Len(fs[u])
  PROVE  /\ Len(fs[u]) \in Nat
         /\ fs[u][i].start \in Nat
         /\ fs[u][i].end \in Nat
<1>1. fs[u] \in Seq(Interval)
  OBVIOUS
<1>2. fs[u][i] \in Interval
  BY <1>1, ElementOfSeq
<1> QED
  BY <1>1, <1>2, LenProperties DEF Interval

\* Time passes and nothing else of the lockout changes.
LEMMA TimePasses ==
  ASSUME LockoutInv, now' \in Nat, now' >= now, UNCHANGED lockout
  PROVE  LockoutInv'
<1>1. now' \in Nat \ {0}
  BY DEF LockoutInv
<1>2. LockoutCovers'
  <2> SUFFICES ASSUME NEW u \in User, NEW i \in 1..Len(failures[u])
               PROVE  /\ failures[u][i].end <= now'
                      /\ locked_until[u] # NoEntry
                           => failures[u][i].end + LockoutDuration <= locked_until[u]
    BY DEF LockoutCovers, lockout
  <2>1. failures[u][i].end \in Nat
    BY FailureTimes DEF LockoutInv
  <2> QED
    BY <2>1 DEF LockoutInv, LockoutCovers
<1>3. UncountedPast'
  <2> SUFFICES ASSUME NEW u \in User, NEW i \in 1..Len(failures[u]),
                      i <= Len(failures[u]) - failed_attempts[u]
               PROVE  failures[u][i].end + LockoutDuration <= now'
    BY DEF UncountedPast, lockout
  <2>1. failures[u][i].end \in Nat
    BY FailureTimes DEF LockoutInv
  <2> QED
    BY <2>1, AuthAssumption DEF LockoutInv, UncountedPast
<1> QED
  BY <1>1, <1>2, <1>3 DEF LockoutInv, LockedWhenExhausted, Throttled, lockout

\* A user whose counter and lockout are reset, with or without forgetting the
\* failures: those that stay are past, because the lockout has expired.
LEMMA LoginRefusedLockout ==
  ASSUME LockoutInv, NEW u \in User, LoginRefused(u)
  PROVE  LockoutInv'
<1> USE DEF LoginRefused, LockoutInv
<1>1. failed_attempts' \in [User -> Nat] /\ locked_until' \in [User -> Nat]
  BY DEF NoEntry
<1>2. LockedWhenExhausted'
  BY AuthAssumption DEF LockedWhenExhausted, NoEntry
<1>3. LockoutCovers'
  BY DEF LockoutCovers, NoEntry
<1>4. UncountedPast'
  <2> SUFFICES ASSUME NEW v \in User, NEW i \in 1..Len(failures[v]),
                      i <= Len(failures[v]) - failed_attempts'[v]
               PROVE  failures[v][i].end + LockoutDuration <= now
    BY DEF UncountedPast
  <2>1. failures[v][i].end \in Nat
    BY FailureTimes
  <2>2. CASE v = u
    BY <2>1, <2>2, AuthAssumption DEF LockoutCovers,
       Expired, Locked
  <2>3. CASE v # u
    BY <2>3 DEF UncountedPast
  <2> QED
    BY <2>2, <2>3
<1> QED
  BY <1>1, <1>2, <1>3, <1>4 DEF Throttled

\* A success forgets the failures, the counter and the lockout of its user.
LEMMA LoginSucceedsLockout ==
  ASSUME LockoutInv, NEW u \in User, LoginSucceeds(u)
  PROVE  LockoutInv'
<1> USE DEF LoginSucceeds, LockoutInv
<1>0. now' \in Nat \ {0} /\ now' >= now
  BY AuthAssumption
<1>1. /\ failed_attempts' \in [User -> Nat]
      /\ locked_until' \in [User -> Nat]
      /\ failures' \in [User -> Seq(Interval)]
  BY DEF NoEntry
<1>2. LockedWhenExhausted'
  BY AuthAssumption DEF LockedWhenExhausted, NoEntry
<1>3. ASSUME NEW v \in User, NEW i \in 1..Len(failures'[v])
      PROVE  /\ v # u
             /\ failures'[v] = failures[v] /\ failed_attempts'[v] = failed_attempts[v]
             /\ locked_until'[v] = locked_until[v]
             /\ failures[v][i].end \in Nat
  <2>1. v # u
    BY <1>3
  <2>2. failures'[v] = failures[v] /\ failed_attempts'[v] = failed_attempts[v]
        /\ locked_until'[v] = locked_until[v]
    BY <2>1
  <2> QED
    BY <1>3, <2>1, <2>2, FailureTimes
<1>4. LockoutCovers'
  BY <1>0, <1>3 DEF LockoutCovers
<1>5. UncountedPast'
  BY <1>0, <1>3, AuthAssumption DEF UncountedPast
<1>6. Throttled'
  <2> SUFFICES ASSUME NEW v \in User, NEW i \in 1..(Len(failures'[v]) - MaxFailedAttempts)
               PROVE  failures'[v][i + MaxFailedAttempts].start
                        >= failures'[v][i].end + LockoutDuration
    BY DEF Throttled
  <2>1. i \in 1..Len(failures'[v])
    BY <1>1, AuthAssumption
  <2> QED
    BY <2>1, <1>3 DEF Throttled
<1> QED
  BY <1>0, <1>1, <1>2, <1>4, <1>5, <1>6

\* The step that the lockout is for.  Everything the counter no longer counts
\* is lockout_duration past, and it counts fewer than max_failed_attempts.
LEMMA LoginFailsLockout ==
  ASSUME LockoutInv, NEW u \in User, LoginFails(u)
  PROVE  LockoutInv'
<1> USE DEF LockoutInv
<1> DEFINE n == Len(failures[u])
           f == ClearedAttempts(u)
           new == [start |-> now, end |-> now']
<1>0. now' \in Nat \ {0} /\ now' >= now
  BY AuthAssumption DEF LoginFails
<1>1. n \in Nat /\ f \in Nat /\ f < MaxFailedAttempts
  BY AuthAssumption DEF LoginFails, PasswordChecked, ClearedAttempts, Expired,
     LockedWhenExhausted, NoEntry
<1>2. new \in Interval
  BY <1>0 DEF Interval
<1>3. /\ failures' = [failures EXCEPT ![u] = Append(failures[u], new)]
      /\ failures' \in [User -> Seq(Interval)]
  BY <1>2 DEF LoginFails
<1>4. /\ Len(failures'[u]) = n + 1
      /\ failures'[u][n + 1] = new
      /\ \A i \in 1..n : failures'[u][i] = failures[u][i]
  BY <1>2, <1>3
<1>5. \A v \in User : \A i \in 1..Len(failures[v]) : failures[v][i].end \in Nat
  BY FailureTimes
<1>6. /\ failed_attempts' = [failed_attempts EXCEPT ![u] = f + 1]
      /\ failed_attempts' \in [User -> Nat]
      /\ failed_attempts'[u] = f + 1
  BY <1>1 DEF LoginFails
<1>7. /\ locked_until' \in [User -> Nat]
      /\ \A v \in User \ {u} : locked_until'[v] = locked_until[v]
      /\ f + 1 >= MaxFailedAttempts => locked_until'[u] = now' + LockoutDuration
      /\ f + 1 < MaxFailedAttempts => locked_until'[u] = NoEntry
  <2>1. locked_until' = [locked_until EXCEPT ![u] =
          IF f + 1 >= MaxFailedAttempts THEN now' + LockoutDuration
          ELSE IF Expired(u) THEN NoEntry ELSE locked_until[u]]
    BY <1>6 DEF LoginFails
  <2>2. ~Expired(u) => locked_until[u] = NoEntry
    BY DEF LoginFails, PasswordChecked, Expired
  <2>3. /\ \A v \in User \ {u} : locked_until'[v] = locked_until[v]
        /\ f + 1 >= MaxFailedAttempts => locked_until'[u] = now' + LockoutDuration
        /\ f + 1 < MaxFailedAttempts => locked_until'[u] = NoEntry
    <3> HIDE DEF f
    <3> QED
      BY <2>1, <2>2, <1>1, AuthAssumption
  <2>4. locked_until' \in [User -> Nat]
    <3>1. now' + LockoutDuration \in Nat
      BY <1>0, SumIsNat, Zenon, AuthAssumption
    <3>4. NoEntry \in Nat /\ locked_until[u] \in Nat
      BY DEF NoEntry
    <3> DEFINE value == IF f + 1 >= MaxFailedAttempts THEN now' + LockoutDuration
                        ELSE IF Expired(u) THEN NoEntry ELSE locked_until[u]
    <3>2. value \in Nat
      BY <3>1, <3>4
    <3>3. locked_until' = [locked_until EXCEPT ![u] = value]
      BY <2>1
    <3> HIDE DEF value
    <3> QED
      BY <3>2, <3>3
  <2> QED
    BY <2>3, <2>4
<1>8. \A v \in User \ {u} : /\ failures'[v] = failures[v]
                            /\ failed_attempts'[v] = failed_attempts[v]
  BY <1>3, <1>6
<1>9. LockedWhenExhausted'
  <2> SUFFICES ASSUME NEW v \in User
               PROVE  /\ failed_attempts'[v] <= MaxFailedAttempts
                      /\ failed_attempts'[v] = MaxFailedAttempts <=> locked_until'[v] # NoEntry
    BY DEF LockedWhenExhausted
  <2>1. CASE v = u
    BY <2>1, <1>0, <1>1, <1>6, <1>7, AuthAssumption DEF NoEntry
  <2>2. CASE v # u
    BY <2>2, <1>7, <1>8 DEF LockedWhenExhausted
  <2> QED
    BY <2>1, <2>2
<1>10. LockoutCovers'
  <2> SUFFICES ASSUME NEW v \in User, NEW i \in 1..Len(failures'[v])
               PROVE  /\ failures'[v][i].end <= now'
                      /\ locked_until'[v] # NoEntry
                           => failures'[v][i].end + LockoutDuration <= locked_until'[v]
    BY DEF LockoutCovers
  <2>0. locked_until'[u] # NoEntry => locked_until'[u] = now' + LockoutDuration
    <3> HIDE DEF f
    <3> QED
      BY <1>1, <1>7, AuthAssumption
  <2>1. CASE v = u /\ i <= n
    <3>1. failures'[u][i].end = failures[u][i].end /\ failures[u][i].end \in Nat
          /\ failures[u][i].end <= now
      BY <2>1, <1>1, <1>4, <1>5 DEF LockoutCovers
    <3> QED
      BY <2>1, <2>0, <3>1, <1>0, AuthAssumption
  <2>2. CASE v = u /\ i = n + 1
    BY <2>2, <2>0, <1>0, <1>1, <1>4, AuthAssumption
  <2>3. CASE v # u
    <3>1. failures'[v] = failures[v] /\ locked_until'[v] = locked_until[v]
      BY <2>3, <1>7, <1>8
    <3>2. failures[v][i].end \in Nat /\ failures[v][i].end <= now
      BY <3>1, <1>5 DEF LockoutCovers
    <3> QED
      BY <3>1, <3>2, <1>0 DEF LockoutCovers
  <2> QED
    BY <2>1, <2>2, <2>3, <1>1, <1>4
<1>11. \A i \in 1..n : i <= n - f => failures[u][i].end + LockoutDuration <= now
  <2> SUFFICES ASSUME NEW i \in 1..n, i <= n - f
               PROVE  failures[u][i].end + LockoutDuration <= now
    OBVIOUS
  <2>1. CASE Expired(u)
    BY <2>1, <1>5, AuthAssumption DEF Expired, Locked, LockoutCovers
  <2>2. CASE ~Expired(u)
    BY <2>2 DEF ClearedAttempts, UncountedPast
  <2> QED
    BY <2>1, <2>2
<1>12. UncountedPast'
  <2> SUFFICES ASSUME NEW v \in User, NEW i \in 1..Len(failures'[v]),
                      i <= Len(failures'[v]) - failed_attempts'[v]
               PROVE  failures'[v][i].end + LockoutDuration <= now'
    BY DEF UncountedPast
  <2>1. CASE v = u
    <3>1. i \in 1..n /\ i <= n - f
      BY <2>1, <1>1, <1>4,
         <1>6
    <3>2. failures'[u][i].end = failures[u][i].end /\ failures[u][i].end \in Nat
      BY <3>1, <1>4, <1>5
    <3> QED
      BY <2>1, <3>1, <3>2, <1>0, <1>11, AuthAssumption
  <2>2. CASE v # u
    <3>1. failures'[v] = failures[v] /\ failed_attempts'[v] = failed_attempts[v]
      BY <2>2, <1>8
    <3>2. failures[v][i].end \in Nat
      BY <3>1,
         <1>5
    <3> QED
      BY <3>1, <3>2, <1>0, AuthAssumption DEF UncountedPast
  <2> QED
    BY <2>1, <2>2
<1>13. Throttled'
  <2> SUFFICES ASSUME NEW v \in User, NEW i \in 1..(Len(failures'[v]) - MaxFailedAttempts)
               PROVE  failures'[v][i + MaxFailedAttempts].start
                        >= failures'[v][i].end + LockoutDuration
    BY DEF Throttled
  <2>1. CASE v # u
    BY <2>1, <1>8 DEF Throttled
  <2>2. CASE v = u /\ i + MaxFailedAttempts <= n
    <3>1. i \in 1..n /\ i + MaxFailedAttempts \in 1..n /\ i \in 1..(n - MaxFailedAttempts)
      BY <2>2, <1>1, <1>4, AuthAssumption
    <3> QED
      BY <2>2, <3>1, <1>4 DEF Throttled
  <2>3. CASE v = u /\ i + MaxFailedAttempts = n + 1
    <3>1. i \in 1..n /\ i <= n - f
      BY <2>3, <1>1, <1>4, AuthAssumption
    <3>2. failures[u][i].end + LockoutDuration <= now
      BY <3>1, <1>11
    <3> QED
      BY <2>3, <3>1, <3>2,
         <1>4
  <2>4. i + MaxFailedAttempts <= Len(failures'[v])
    BY <1>3, AuthAssumption
  <2> QED
    BY <2>1, <2>2, <2>3, <2>4, <1>1, <1>4, AuthAssumption
<1> QED
  BY <1>0, <1>3, <1>6, <1>7, <1>9, <1>10, <1>12, <1>13

-----------------------------------------------------------------------------
(* Sessions. *)

\* A new session has a token of its own and is not over.
LEMMA NewSessionInv ==
  ASSUME SessionInv, NEW u \in User, NewSession(u),
         now' \in Nat \ {0}, now' >= now
  PROVE  SessionInv'
<1> DEFINE new == [token |-> issued.token + 1, user_id |-> u,
                   expires_at |-> now' + SessionLifetime]
<1>1. /\ issued.token \in Nat
      /\ issued' = [issued EXCEPT !.token = @ + 1]
      /\ issued' \in [token : Nat, key : Nat]
      /\ issued'.token = issued.token + 1
  BY DEF SessionInv, NewSession
<1>2. new \in Session /\ new.token = issued.token + 1
  BY <1>1, AuthAssumption DEF Session
<1>3. /\ sessions' = sessions \cup {new}
      /\ \/ store' = store \cup {new} /\ kept' \in {kept, kept \cup {new}}
         \/ store' = store /\ kept' = kept
      /\ out' = out
  BY DEF NewSession
<1>4. \A s \in sessions \cup store \cup kept :
         /\ s.token \in Nat /\ s.expires_at \in Nat
         /\ s.token <= issued.token
  BY DEF SessionInv, TokensUnique, Session
<1> HIDE DEF new
<1>5. TokensUnique'
  <2>1. \A s \in sessions' \cup store' \cup kept' : s.token <= issued'.token
    BY <1>1, <1>2, <1>3, <1>4
  <2>2. \A s, t \in sessions' \cup store' \cup kept' : s.token = t.token => s = t
    <3> SUFFICES ASSUME NEW s \in sessions' \cup store' \cup kept',
                        NEW t \in sessions' \cup store' \cup kept', s.token = t.token
                 PROVE  s = t
      OBVIOUS
    <3>1. CASE s = new
      BY <3>1, <1>1, <1>2, <1>3, <1>4
    <3>2. CASE t = new
      BY <3>2, <1>1, <1>2, <1>3, <1>4
    <3>3. CASE s # new /\ t # new
      BY <3>3, <1>3 DEF SessionInv, TokensUnique
    <3> QED
      BY <3>1, <3>2, <3>3
  <2>3. \A t \in out' : t <= issued'.token
    <3> SUFFICES ASSUME NEW t \in out PROVE t <= issued.token + 1
      BY <1>1, <1>3
    <3> QED
      BY <1>1 DEF SessionInv, TokensUnique
  <2> QED
    BY <2>1, <2>2, <2>3 DEF TokensUnique
<1>6. StoredUntilEnd'
  <2> SUFFICES ASSUME NEW s \in kept' PROVE s \in store' \/ now' > s.expires_at
    BY DEF StoredUntilEnd
  <2>1. CASE s \in kept
    BY <2>1, <1>3, <1>4 DEF SessionInv, StoredUntilEnd
  <2>2. CASE s = new /\ s \notin kept
    BY <2>2, <1>3
  <2> QED
    BY <2>1, <2>2, <1>3
<1>7. LoggedOutForGood'
  <2> SUFFICES ASSUME NEW s \in sessions' \cup store' PROVE s.token \notin out
    BY <1>3 DEF LoggedOutForGood
  <2>1. CASE s \in sessions \cup store
    BY <2>1 DEF SessionInv, LoggedOutForGood
  <2>2. CASE s = new
    BY <2>2, <1>1, <1>2 DEF SessionInv, TokensUnique
  <2> QED
    BY <2>1, <2>2, <1>3
<1> QED
  BY <1>1, <1>2, <1>3, <1>5, <1>6, <1>7 DEF SessionInv

\* A session moves from the store to the cache, or leaves both when it is over.
LEMMA ValidateSessionInv ==
  ASSUME SessionInv, NEW token \in 1..MaxTokens, ValidateSession(token)
  PROVE  SessionInv'
<1>1. PICK s \in Known(token) :
         IF SessionExpired(s)
         THEN /\ sessions' = Without(sessions, token)
              /\ store' \in {store, Without(store, token)}
         ELSE /\ sessions' = sessions \cup {s}
              /\ UNCHANGED store
  BY DEF ValidateSession
<1>2. s \in sessions \cup store /\ s.token = token
  BY <1>1 DEF Known, ByToken
<1>3. UNCHANGED <<now, issued, kept, out>>
  BY DEF ValidateSession
<1>4. sessions' \cup store' \subseteq sessions \cup store
  BY <1>1, <1>2 DEF Without
<1>5. StoredUntilEnd'
  <2> SUFFICES ASSUME NEW k \in kept PROVE k \in store' \/ now > k.expires_at
    BY <1>3 DEF StoredUntilEnd
  <2>1. k \in store \/ now > k.expires_at
    BY DEF SessionInv, StoredUntilEnd
  <2>2. CASE SessionExpired(s) /\ k.token = token
    BY <2>2, <1>2 DEF SessionExpired, SessionInv, TokensUnique
  <2>3. CASE ~SessionExpired(s) \/ k.token # token
    BY <2>1, <2>3, <1>1 DEF Without
  <2> QED
    BY <2>2, <2>3
<1> QED
  BY <1>3, <1>4, <1>5 DEF SessionInv, TokensUnique, LoggedOutForGood

\* A session leaves the cache and, unless delete fails, the store.
LEMMA LogoutInv ==
  ASSUME SessionInv, NEW token \in 1..MaxTokens, Logout(token)
  PROVE  SessionInv'
<1>1. /\ sessions' = Without(sessions, token)
      /\ kept' = Without(kept, token)
      /\ \/ store' = Without(store, token) /\ out' = out \cup {token}
         \/ store' = store /\ out' = out
      /\ UNCHANGED <<now, issued>>
      /\ token <= issued.token
  BY DEF Logout, SessionInv
<1>2. StoredUntilEnd'
  BY <1>1 DEF SessionInv, StoredUntilEnd, Without
<1>3. LoggedOutForGood'
  BY <1>1 DEF SessionInv, LoggedOutForGood, Without
<1>4. TokensUnique'
  BY <1>1 DEF SessionInv, TokensUnique, Without
<1>5. /\ sessions' \subseteq sessions
      /\ store' \subseteq store
      /\ kept' \subseteq kept
  BY <1>1 DEF Without
<1>6. token \in Nat
  BY DEF Logout, SessionInv
<1>7. out' \subseteq Nat
  BY <1>1, <1>6 DEF SessionInv
<1> QED
  BY <1>1, <1>2, <1>3, <1>4, <1>5, <1>7 DEF SessionInv

\* Nothing but time changes, or the cache is lost.
LEMMA SessionsStay ==
  ASSUME SessionInv, now' \in Nat \ {0}, now' >= now, sessions' \subseteq sessions,
         UNCHANGED <<store, kept, out>>,
         issued' \in [token : Nat, key : Nat], issued'.token = issued.token
  PROVE  SessionInv'
<1>1. \A s \in kept : s.expires_at \in Nat
  BY DEF SessionInv, Session
<1>2. StoredUntilEnd'
  BY <1>1 DEF SessionInv, StoredUntilEnd
<1> QED
  BY <1>2 DEF SessionInv, TokensUnique, LoggedOutForGood

\* Accounts are of users that exist.
LEMMA AccountStep ==
  ASSUME users \subseteq User, [Next]_vars
  PROVE  users' \subseteq User
BY DEF Next, vars, account_vars, Tick, CreateUser, DeactivateUser, CreateApiKey, RevokeApiKey,
       LoginFails, LoginSucceeds, LoginRefused, LoginApiKey, ValidateSession, Logout, Restart

\* Every step keeps the invariant: one case per action.
LEMMA Step ==
  ASSUME users \subseteq User, LockoutInv, SessionInv, [Next]_vars
  PROVE  LockoutInv' /\ SessionInv'
<1> now \in Nat \ {0} /\ issued \in [token : Nat, key : Nat]
  BY DEF SessionInv
<1>1. CASE UNCHANGED vars
  <2>1. now' = now /\ UNCHANGED lockout /\ UNCHANGED <<sessions, store, kept, out, issued>>
    BY <1>1 DEF vars, session_vars
  <2> QED
    BY <2>1, TimePasses, SessionsStay
<1>2. CASE Tick
  <2>1. /\ now' = now + 1
        /\ UNCHANGED lockout
        /\ UNCHANGED <<sessions, store, kept, out, issued>>
    BY <1>2 DEF Tick, session_vars
  <2> QED
    BY <2>1, TimePasses, SessionsStay
<1>3. ASSUME NEW u \in User, CreateUser(u) \/ DeactivateUser(u)
      PROVE  LockoutInv' /\ SessionInv'
  <2>1. now' = now /\ UNCHANGED lockout /\ UNCHANGED <<sessions, store, kept, out, issued>>
    BY <1>3 DEF CreateUser, DeactivateUser, session_vars
  <2> QED
    BY <2>1, TimePasses, SessionsStay
<1>4. ASSUME NEW u \in User, NEW e, CreateApiKey(u, e)
      PROVE  LockoutInv' /\ SessionInv'
  <2>1. now' = now /\ UNCHANGED lockout /\ UNCHANGED <<sessions, store, kept, out>>
    BY <1>4 DEF CreateApiKey, session_vars
  <2>2. issued' \in [token : Nat, key : Nat] /\ issued'.token = issued.token
    BY <1>4 DEF CreateApiKey
  <2> QED
    BY <2>1, <2>2, TimePasses, SessionsStay
<1>5. ASSUME NEW u \in User,
       LoginFails(u)
      PROVE  LockoutInv' /\ SessionInv'
  <2>1. now' \in Nat \ {0} /\ now' >= now /\ UNCHANGED <<sessions, store, kept, out, issued>>
    BY <1>5, AuthAssumption DEF LoginFails, session_vars
  <2> QED
    BY <1>5, <2>1, LoginFailsLockout, SessionsStay
<1>6. ASSUME NEW u \in User,
       LoginSucceeds(u)
      PROVE  LockoutInv' /\ SessionInv'
  <2>1. now' \in Nat \ {0} /\ now' >= now /\ NewSession(u)
    BY <1>6, AuthAssumption DEF LoginSucceeds
  <2> QED
    BY <1>6, <2>1, LoginSucceedsLockout, NewSessionInv
<1>7. ASSUME NEW u \in User, LoginRefused(u)
      PROVE  LockoutInv' /\ SessionInv'
  <2>1. now' = now /\ UNCHANGED <<sessions, store, kept, out, issued>>
    BY <1>7 DEF LoginRefused, session_vars
  <2> QED
    BY <1>7, <2>1, LoginRefusedLockout, SessionsStay
<1>8. ASSUME NEW k \in keys, RevokeApiKey(k)
      PROVE  LockoutInv' /\ SessionInv'
  <2>1. now' = now /\ UNCHANGED lockout /\ UNCHANGED <<sessions, store, kept, out, issued>>
    BY <1>8 DEF RevokeApiKey, session_vars
  <2> QED
    BY <2>1, TimePasses, SessionsStay
<1>9. ASSUME NEW k \in keys, LoginApiKey(k)
      PROVE  LockoutInv' /\ SessionInv'
  <2>1. now' = now /\ UNCHANGED lockout /\ k.user_id \in User /\ NewSession(k.user_id)
    BY <1>9 DEF LoginApiKey
  <2> QED
    BY <2>1, TimePasses, NewSessionInv
<1>10. ASSUME NEW token \in 1..MaxTokens, ValidateSession(token) \/ Logout(token)
       PROVE  LockoutInv' /\ SessionInv'
  <2>1. now' = now /\ UNCHANGED lockout
    BY <1>10 DEF ValidateSession, Logout
  <2> QED
    BY <1>10, <2>1, TimePasses, ValidateSessionInv, LogoutInv
<1>11. CASE Restart
  <2>1. now' = now /\ UNCHANGED <<store, kept, out, issued>> /\ sessions' = {}
    BY <1>11 DEF Restart
  <2>2. SessionInv'
    BY <2>1, SessionsStay
  <2>3. LockoutInv'
    BY <1>11, AuthAssumption DEF Restart,
       LockoutInv, LockedWhenExhausted, LockoutCovers, UncountedPast, Throttled,
       Interval, NoEntry
  <2> QED
    BY <2>2, <2>3
<1> QED
  BY <1>1, <1>2, <1>3, <1>4, <1>5, <1>6, <1>7, <1>8, <1>9, <1>10, <1>11 DEF Next

\* The invariant holds always.
THEOREM Invariant ==
  Spec => [](users \subseteq User /\ LockoutInv /\ SessionInv)
<1> DEFINE Inv == users \subseteq User /\ LockoutInv /\ SessionInv
<1>1. Init => Inv
  BY InitLockout, InitSession DEF Init
<1>2. Inv /\ [Next]_vars => Inv'
  BY Step, AccountStep
<1> QED
  BY <1>1, <1>2, PTL DEF Spec

\* The lockout throttles guessing: of the failed verifications since the last
\* success, the one max_failed_attempts later begins lockout_duration after
\* login finished the earlier one, for any threshold, duration and slowness.
THEOREM AlwaysThrottled == Spec => []Throttled
<1>1. LockoutInv => Throttled
  BY DEF LockoutInv
<1> QED
  BY <1>1, Invariant, PTL

\* login records a lockout exactly when the attempts are used up.
THEOREM AlwaysLockedWhenExhausted == Spec => []LockedWhenExhausted
<1>1. LockoutInv => LockedWhenExhausted
  BY DEF LockoutInv
<1> QED
  BY <1>1, Invariant, PTL

\* A session that cache_and_persist_session stored is in the store until it
\* expires or logout ends it, through restarts.
THEOREM AlwaysStoredUntilEnd == Spec => []StoredUntilEnd
<1>1. SessionInv => StoredUntilEnd
  BY DEF SessionInv
<1> QED
  BY <1>1, Invariant, PTL

\* A token that logout removed from the store never comes back.
THEOREM AlwaysLoggedOutForGood == Spec => []LoggedOutForGood
<1>1. SessionInv => LoggedOutForGood
  BY DEF SessionInv
<1> QED
  BY <1>1, Invariant, PTL

-------------------------------------------------------------------------------
(* The session store. *)

\* A line that does not parse is no session.
StoreAssumption == Damaged \notin StoredSession /\ MaxTime \in Nat

Line == StoredSession \cup {Damaged}

-----------------------------------------------------------------------------
(* Lines and sessions. *)

\* No later line of the file is of the same token.
Latest(lines, i) == \A k \in DOMAIN lines : lines[k].token = lines[i].token => k <= i

LEMMA Reading ==
    ASSUME NEW f, NEW x
    PROVE  x \in ReadAll(f) <=> \E i \in DOMAIN f.lines : Latest(f.lines, i) /\ x = f.lines[i]
BY Zenon DEF ReadAll, Latest

LEMMA Readability ==
    ASSUME NEW f
    PROVE  Readable(f) <=> \A i \in DOMAIN f.lines : f.lines[i] # Damaged
BY Zenon DEF Readable, ToSet

\* What is read is a finite map from tokens to sessions.
LEMMA ReadIsMap ==
    ASSUME NEW f, f.lines \in Seq(Line), Readable(f)
    PROVE  /\ ReadAll(f) \subseteq StoredSession /\ IsMap(ReadAll(f))
           /\ IsFiniteSet(ReadAll(f))
<1> DEFINE l == f.lines
           J == {j \in DOMAIN l : Latest(l, j)}
<1>1. l \in Seq(Line) /\ DOMAIN l = 1..Len(l) /\ Len(l) \in Nat
  OBVIOUS
<1>2. ReadAll(f) \subseteq StoredSession
  <2>1. \A i \in DOMAIN l : l[i] \in Line
    BY <1>1
  <2>2. \A x \in ReadAll(f) : \E i \in DOMAIN l : x = l[i]
    BY Reading
  <2>3. \A i \in DOMAIN l : l[i] # Damaged
    BY Readability
  <2> QED  BY <2>1, <2>2, <2>3 DEF Line
<1>3. IsMap(ReadAll(f))
  <2> SUFFICES ASSUME NEW s \in ReadAll(f), NEW t \in ReadAll(f), s.token = t.token
               PROVE  s = t
    BY DEF IsMap
  <2>1. PICK i \in DOMAIN l : Latest(l, i) /\ s = l[i]
    BY Reading
  <2>2. PICK j \in DOMAIN l : Latest(l, j) /\ t = l[j]
    BY Reading
  <2>3. i <= j /\ j <= i
    BY <2>1, <2>2 DEF Latest
  <2>4. i = j
    BY <1>1, <2>3
  <2> QED  BY <2>1, <2>2, <2>4
<1>4. IsFiniteSet(ReadAll(f))
  <2>1. IsFiniteSet(J)
    <3>1. IsFiniteSet(1..Len(l))  BY <1>1, FS_Interval
    <3>2. J \in SUBSET (1..Len(l))  BY <1>1
    <3> HIDE DEF J, l
    <3> QED  BY <3>1, <3>2, FS_Subset
  <2> DEFINE g == [j \in J |-> l[j]]
  <2>2. g \in Surjection(J, ReadAll(f))
    <3>1. \A j \in J : l[j] \in ReadAll(f)
      BY Reading
    <3>2. \A x \in ReadAll(f) : \E j \in J : l[j] = x
      BY Reading
    <3> HIDE DEF J, l
    <3> QED  BY <3>1, <3>2 DEF Surjection
  <2> HIDE DEF J, g
  <2> QED  BY <2>1, <2>2, FS_Surjection
<1> QED  BY <1>2, <1>3, <1>4

\* A finite set written as lines is each of its elements once.
LEMMA Enumerated ==
    ASSUME NEW S, IsFiniteSet(S)
    PROVE  /\ SetToSeq(S) \in Seq(S)
           /\ \A x \in S : \E i \in DOMAIN SetToSeq(S) : SetToSeq(S)[i] = x
           /\ \A i, j \in DOMAIN SetToSeq(S) : SetToSeq(S)[i] = SetToSeq(S)[j] => i = j
<1> DEFINE n == Cardinality(S)
           q == SetToSeq(S)
<1>1. n \in Nat /\ ExistsBijection(1..n, S)
  BY FS_CardinalityType
<1>2. \E g \in [1..n -> S] : IsInjective(g)
  BY <1>1 DEF ExistsBijection, Bijection, Injection
<1>3. q \in [1..n -> S] /\ IsInjective(q)
  BY <1>2, Zenon DEF SetToSeq
<1>4. IsFiniteSet(1..n) /\ Cardinality(1..n) = n
  BY <1>1, FS_Interval
<1> HIDE DEF q
<1>5. q \in Surjection(1..n, S)
  <2>1. q \in Injection(1..n, S)
    BY <1>3 DEF Injection
  <2> QED  BY <1>4, <2>1, FS_Injection
<1>6. q \in Seq(S) /\ DOMAIN q = 1..n
  <2> HIDE DEF n
  <2> QED  BY <1>1, <1>3
<1>7. \A x \in S : \E i \in DOMAIN q : q[i] = x
  BY <1>5, <1>6 DEF Surjection
<1>8. \A i, j \in DOMAIN q : q[i] = q[j] => i = j
  BY <1>3 DEF IsInjective
<1> QED  BY <1>6, <1>7, <1>8 DEF q

\* A rewritten file reads as the sessions it was written from.
LEMMA ReadRewritten ==
    ASSUME StoreAssumption, NEW S \in SUBSET StoredSession, IsFiniteSet(S), IsMap(S),
           NEW f, f.lines = SetToSeq(S)
    PROVE  f.lines \in Seq(Line) /\ Readable(f) /\ ReadAll(f) = S
<1> DEFINE l == f.lines
<1>1. /\ l \in Seq(S)
      /\ \A x \in S : \E i \in DOMAIN l : l[i] = x
      /\ \A i, j \in DOMAIN l : l[i] = l[j] => i = j
  BY Enumerated
<1>2. \A i \in DOMAIN l : l[i] \in S
  BY <1>1
<1>3. l \in Seq(Line)
  BY <1>1 DEF Line
<1>4. Readable(f)
  BY <1>2, Readability DEF StoreAssumption
<1>5. \A i \in DOMAIN l : Latest(l, i)
  <2> SUFFICES ASSUME NEW i \in DOMAIN l, NEW k \in DOMAIN l, l[k].token = l[i].token
               PROVE  k <= i
    BY DEF Latest
  <2>1. l[k] = l[i]
    BY <1>2 DEF IsMap
  <2>2. k = i /\ i \in Nat
    BY <1>1, <2>1
  <2> QED  BY <2>2
<1>6. \A x : x \in ReadAll(f) <=> \E i \in DOMAIN l : Latest(l, i) /\ x = l[i]
  BY Reading
<1>7. \A x : x \in ReadAll(f) <=> x \in S
  <2> HIDE DEF l
  <2> QED  BY <1>1, <1>2, <1>5, <1>6
<1> QED  BY <1>3, <1>4, <1>7

\* A line appended to a whole file takes the place of the token's earlier one.
LEMMA ReadAppended ==
    ASSUME StoreAssumption, NEW f, f.lines \in Seq(Line), NEW s \in StoredSession,
           NEW g, g.lines = Append(f.lines, s)
    PROVE  /\ g.lines \in Seq(Line) /\ (Readable(g) <=> Readable(f))
           /\ ReadAll(g) = LessTokens(ReadAll(f), {s.token}) \cup {s}
<1> DEFINE l == f.lines
           m == g.lines
           n == Len(l)
<1>1. /\ m \in Seq(Line) /\ n \in Nat /\ DOMAIN l = 1..n /\ DOMAIN m = 1..(n + 1)
      /\ m[n + 1] = s /\ \A i \in 1..n : m[i] = l[i]
  <2>1. l \in Seq(Line) /\ s \in Line /\ m = Append(l, s)  BY DEF Line
  <2> HIDE DEF l, m
  <2> QED  BY <2>1
<1> HIDE DEF n
<1>2. 1..(n + 1) = 1..n \cup {n + 1} /\ \A i \in 1..n : i < n + 1 /\ i \in Nat
  BY <1>1
<1>3. Readable(g) <=> Readable(f)
  <2>1. s # Damaged  BY DEF StoreAssumption
  <2> QED  BY <1>1, <1>2, <2>1, Readability
<1>4. Latest(m, n + 1)
  <2>1. \A k \in DOMAIN m : k <= n + 1  BY <1>1
  <2> QED  BY <2>1 DEF Latest
<1>5. ASSUME NEW i \in 1..n PROVE Latest(m, i) <=> (Latest(l, i) /\ l[i].token # s.token)
  <2>1. ~(n + 1 <= i)  BY <1>1
  <2> QED  BY <1>1, <1>2, <2>1 DEF Latest
<1>6. ASSUME NEW x
      PROVE  x \in ReadAll(g) <=> x \in LessTokens(ReadAll(f), {s.token}) \cup {s}
  <2>1. x \in ReadAll(g) <=> \E i \in 1..(n + 1) : Latest(m, i) /\ x = m[i]
    <3>1. x \in ReadAll(g) <=> \E i \in DOMAIN m : Latest(m, i) /\ x = m[i]
      BY Reading, Zenon
    <3> QED  BY <3>1, <1>1
  <2>2. x \in ReadAll(g) <=> x = s \/ \E i \in 1..n : Latest(l, i) /\ l[i].token # s.token /\ x = l[i]
    BY <1>1, <1>2, <1>4, <1>5, <2>1
  <2>3. x \in ReadAll(f) <=> \E i \in 1..n : Latest(l, i) /\ x = l[i]
    <3>1. x \in ReadAll(f) <=> \E i \in DOMAIN l : Latest(l, i) /\ x = l[i]
      BY Reading
    <3> QED  BY <3>1, <1>1
  <2> QED  BY <2>2, <2>3 DEF LessTokens
<1> QED  BY <1>1, <1>3, <1>6

\* What a save leaves of the file: it is unreadable, or the session is in it.
Saved(f, s, partial, g) ==
    /\ g.lines \in Seq(Line) /\ g.partial = partial
    /\ Readable(g) => /\ Readable(f) /\ f.partial # TRUE
                      /\ ReadAll(g) = LessTokens(ReadAll(f), {s.token}) \cup {s}
    /\ Readable(f) /\ f.partial = FALSE => Readable(g)

LEMMA SavedLine ==
    ASSUME StoreAssumption, NEW f, f.lines \in Seq(Line), NEW s \in StoredSession, NEW partial
    PROVE  Saved(f, s, partial, WithLine(f, s, partial))
<1> SUFFICES ASSUME NEW g, g = WithLine(f, s, partial)
             PROVE  /\ g.lines \in Seq(Line) /\ g.partial = partial
                    /\ Readable(g) => /\ Readable(f) /\ f.partial # TRUE
                                      /\ ReadAll(g) = LessTokens(ReadAll(f), {s.token}) \cup {s}
                    /\ Readable(f) /\ f.partial = FALSE => Readable(g)
  BY Zenon DEF Saved
<1> DEFINE l == f.lines
<1>1. l \in Seq(Line) /\ g.partial = partial
  BY DEF WithLine
<1>2. CASE f.partial
  <2>1. g.lines = Append(Front(l), Damaged)
    BY <1>2 DEF WithLine
  <2>2. Front(l) \in Seq(Line)
    <3> HIDE DEF l
    <3> QED  BY <1>1 DEF Front
  <2>3. /\ Append(Front(l), Damaged) \in Seq(Line)
        /\ \E i \in DOMAIN Append(Front(l), Damaged) : Append(Front(l), Damaged)[i] = Damaged
    <3> DEFINE h == Front(l)
    <3>1. h \in Seq(Line) /\ Damaged \in Line  BY <2>2 DEF Line
    <3> HIDE DEF h
    <3>2. Append(h, Damaged) \in Seq(Line) /\ Len(h) + 1 \in DOMAIN Append(h, Damaged)
          /\ Append(h, Damaged)[Len(h) + 1] = Damaged
      BY <3>1
    <3> QED  BY <3>2 DEF h
  <2>4. g.lines \in Seq(Line) /\ ~Readable(g)
    <3> HIDE DEF l
    <3> QED  BY <2>1, <2>3, Readability
  <2> QED  BY <1>1, <1>2, <2>4
<1>3. CASE ~f.partial
  <2>1. g.lines = Append(l, s)
    BY <1>3 DEF WithLine
  <2>2. /\ g.lines \in Seq(Line) /\ (Readable(g) <=> Readable(f))
        /\ ReadAll(g) = LessTokens(ReadAll(f), {s.token}) \cup {s}
    BY <2>1, ReadAppended
  <2> QED  BY <1>1, <1>3, <2>2
<1> QED  BY <1>2, <1>3

\* Part of a line leaves a file that cannot be read.
LEMMA TornLine ==
    ASSUME NEW f, f.lines \in Seq(Line)
    PROVE  LET g == WithLine(f, Damaged, TRUE)
           IN  g.lines \in Seq(Line) /\ g.partial = TRUE /\ ~Readable(g)
<1> DEFINE g == WithLine(f, Damaged, TRUE)
           l == IF f.partial THEN Front(f.lines) ELSE f.lines
<1>1. g.lines = Append(l, Damaged) /\ g.partial = TRUE
  BY DEF WithLine
<1>2. l \in Seq(Line) /\ Damaged \in Line
  <2>1. Front(f.lines) \in Seq(Line)
    <3> DEFINE k == f.lines
    <3>1. k \in Seq(Line)  OBVIOUS
    <3> HIDE DEF k
    <3>2. Front(k) \in Seq(Line)  BY <3>1 DEF Front
    <3> QED  BY <3>2 DEF k
  <2> QED  BY <2>1 DEF Line
<1> HIDE DEF l, g
<1>3. /\ Append(l, Damaged) \in Seq(Line)
      /\ \E i \in DOMAIN Append(l, Damaged) : Append(l, Damaged)[i] = Damaged
  <2>1. Append(l, Damaged) \in Seq(Line) /\ Len(l) + 1 \in DOMAIN Append(l, Damaged)
        /\ Append(l, Damaged)[Len(l) + 1] = Damaged
    BY <1>2
  <2> QED  BY <2>1
<1>4. g.lines \in Seq(Line) /\ ~Readable(g)
  BY <1>1, <1>3, Readability
<1> QED  BY <1>1, <1>4 DEF g

-----------------------------------------------------------------------------
(* The invariant. *)

\* A set of sessions says what the answers said: it has the sessions held, and
\* none that is gone, but for exposed tokens.
Faithful(found, h, g, e) ==
    /\ \A s \in h : s.token \notin e => s \in found
    /\ \A s \in found : s.token \in g => s.token \in e

\* What a removal read, and is going to write, is as faithful as a file would
\* be once its tokens are no longer held.
Pending(r, h, g, e) ==
    r.on => /\ IsMap(r.keep) /\ IsFiniteSet(r.keep)
            /\ \A s \in r.keep : s.token \notin r.drop
            /\ Faithful(r.keep, LessTokens(h, r.drop), g, e)

Removal == [on : BOOLEAN, keep : SUBSET StoredSession, drop : SUBSET Token]

StoreInv ==
    /\ file.lines \in Seq(Line) /\ file.partial \in BOOLEAN /\ torn \in BOOLEAN
    /\ removal \in [Thread -> Removal]
    /\ held \subseteq StoredSession
    /\ Readable(file) => Faithful(ReadAll(file), held, gone, exposed)
    /\ ~torn => Readable(file) /\ file.partial = FALSE
    /\ \A th \in Thread : Pending(removal[th], held, gone, exposed)

\* Faithfulness outlasts a call that gives up sessions, or exposes what it adds.
LEMMA StaysFaithful ==
    ASSUME NEW found, NEW h, NEW g, NEW e, NEW h2, NEW g2, NEW e2,
           Faithful(found, h, g, e),
           \A s \in h2 : s.token \notin e2 => s \in h /\ s.token \notin e,
           \A x \in g2 : x \in g \/ x \in e2, e \subseteq e2
    PROVE  Faithful(found, h2, g2, e2)
BY DEF Faithful

LEMMA StaysPending ==
    ASSUME NEW r, NEW h, NEW g, NEW e, NEW h2, NEW g2, NEW e2,
           Pending(r, h, g, e),
           \A s \in h2 : s.token \notin e2 => s \in h,
           \A x \in g2 : x \in g \/ x \in e2, e \subseteq e2
    PROVE  Pending(r, h2, g2, e2)
<1> SUFFICES ASSUME r.on PROVE Pending(r, h2, g2, e2)
  BY DEF Pending
<1>1. Faithful(r.keep, LessTokens(h, r.drop), g, e)
  BY DEF Pending
<1>2. \A s \in LessTokens(h2, r.drop) : s.token \notin e2 => s \in LessTokens(h, r.drop) /\ s.token \notin e
  BY DEF LessTokens
<1>3. Faithful(r.keep, LessTokens(h2, r.drop), g2, e2)
  BY <1>1, <1>2, StaysFaithful
<1> QED  BY <1>3 DEF Pending

\* A call that names tokens says nothing new of the others.
LEMMA RenamedFaithful ==
    ASSUME NEW found, NEW h, NEW g, NEW e, NEW T, NEW e2, Faithful(found, h, g, e),
           e2 = e \cup T \/ e2 = e \ T
    PROVE  /\ Faithful(LessTokens(found, T), LessTokens(h, T), g \cup T, e2)
           /\ \A s : T = {s.token} =>
                 Faithful(LessTokens(found, T) \cup {s}, LessTokens(h, T) \cup {s}, g \ T, e2)
BY DEF Faithful, LessTokens

\* A call of an idle thread does not disturb the removals of the others.
LEMMA OthersPending ==
    ASSUME StoreInv, NEW th \in Thread, NEW T, NEW h2, NEW g2,
           ~removal[th].on, Expose(th, T), UNCHANGED removal,
           \A s \in h2 : s \in held \/ s.token \in T, \A x \in g2 : x \in gone \/ x \in T
    PROVE  \A u \in Thread : Pending(removal'[u], h2, g2, exposed')
<1> SUFFICES ASSUME NEW u \in Thread, removal[u].on
             PROVE  Pending(removal[u], h2, g2, exposed')
  BY DEF Pending
<1>1. u # th /\ OthersRemoving(th)
  BY DEF OthersRemoving
<1>2. exposed' = exposed \cup T
  BY <1>1 DEF Expose
<1>3. Pending(removal[u], held, gone, exposed)
  BY DEF StoreInv
<1> QED  BY <1>2, <1>3, StaysPending

LEMMA SaveKeeps ==
    ASSUME StoreAssumption, StoreInv, NEW th \in Thread, NEW s \in StoredSession, Save(th, s)
    PROVE  StoreInv'
<1> DEFINE T == {s.token}
<1>1. /\ ~removal[th].on /\ file' = WithLine(file, s, FALSE)
      /\ held' = LessTokens(held, T) \cup {s} /\ gone' = gone \ T
      /\ Expose(th, T) /\ UNCHANGED <<removal, torn>>
  BY DEF Save, Idle
<1>2. /\ file'.lines \in Seq(Line) /\ file'.partial = FALSE
      /\ Readable(file') => /\ Readable(file)
                            /\ ReadAll(file') = LessTokens(ReadAll(file), T) \cup {s}
      /\ Readable(file) /\ file.partial = FALSE => Readable(file')
  <2>1. file.lines \in Seq(Line)  BY DEF StoreInv
  <2>2. Saved(file, s, FALSE, WithLine(file, s, FALSE))  BY <2>1, SavedLine, Zenon
  <2>3. Saved(file, s, FALSE, file')  BY <2>2, <1>1, Zenon
  <2> QED  BY <2>3, Zenon DEF Saved
<1>3. held' \subseteq StoredSession
  BY <1>1 DEF StoreInv, LessTokens
<1>4. Readable(file') => Faithful(ReadAll(file'), held', gone', exposed')
  <2> SUFFICES ASSUME Readable(file')
               PROVE  Faithful(ReadAll(file'), held', gone', exposed')
    OBVIOUS
  <2>1. Faithful(ReadAll(file), held, gone, exposed)
    BY <1>2 DEF StoreInv
  <2>2. exposed' = exposed \cup T \/ exposed' = exposed \ T
    BY <1>1 DEF Expose
  <2>3. Faithful(LessTokens(ReadAll(file), T) \cup {s}, LessTokens(held, T) \cup {s}, gone \ T, exposed')
    <3> DEFINE all == ReadAll(file)
    <3> HIDE DEF all
    <3> QED  BY <2>1, <2>2, RenamedFaithful, Zenon DEF all
  <2> QED  BY <1>1, <1>2, <2>3
<1>5. \A u \in Thread : Pending(removal'[u], held', gone', exposed')
  <2>1. \A x \in held' : x \in held \/ x.token \in T
    BY <1>1 DEF LessTokens
  <2>2. \A x \in gone' : x \in gone \/ x \in T
    BY <1>1
  <2> HIDE DEF T
  <2> QED  BY <1>1, <2>1, <2>2, OthersPending
<1> QED  BY <1>1, <1>2, <1>3, <1>4, <1>5 DEF StoreInv

LEMMA SaveFailsKeeps ==
    ASSUME StoreAssumption, StoreInv, NEW th \in Thread, NEW s \in StoredSession, SaveFails(th, s)
    PROVE  StoreInv'
<1> DEFINE T == {s.token}
<1>1. /\ file' \in {file, WithLine(file, Damaged, TRUE), WithLine(file, s, TRUE), WithLine(file, s, FALSE)}
      /\ torn' = (torn \/ file'.partial)
      /\ held' = LessTokens(held, T) /\ gone' = gone \ T
      /\ UNCHANGED <<removal, exposed>>
  BY DEF SaveFails
<1>2. held' \subseteq held /\ gone' \subseteq gone
  BY <1>1 DEF LessTokens
<1>3. ASSUME NEW partial, file' = WithLine(file, s, partial)
      PROVE  /\ file'.lines \in Seq(Line) /\ file'.partial = partial
             /\ Readable(file') => /\ Readable(file)
                                   /\ ReadAll(file') = LessTokens(ReadAll(file), T) \cup {s}
             /\ Readable(file) /\ file.partial = FALSE => Readable(file')
  <2>1. file.lines \in Seq(Line)  BY DEF StoreInv
  <2>2. Saved(file, s, partial, WithLine(file, s, partial))  BY <2>1, SavedLine, Zenon
  <2>3. Saved(file, s, partial, file')  BY <2>2, <1>3, Zenon
  <2> QED  BY <2>3, Zenon DEF Saved
<1>4. file'.lines \in Seq(Line) /\ file'.partial \in BOOLEAN
  <2>1. CASE file' = file  BY <2>1 DEF StoreInv
  <2>2. CASE file' = WithLine(file, Damaged, TRUE)  BY <2>2, TornLine DEF StoreInv
  <2>3. CASE file' = WithLine(file, s, TRUE) \/ file' = WithLine(file, s, FALSE)
    BY <2>3, <1>3
  <2> QED  BY <1>1, <2>1, <2>2, <2>3
<1>5. Readable(file') => Faithful(ReadAll(file'), held', gone', exposed')
  <2> SUFFICES ASSUME Readable(file')
               PROVE  Faithful(ReadAll(file'), held', gone', exposed')
    OBVIOUS
  <2>1. file' # WithLine(file, Damaged, TRUE)
    BY TornLine DEF StoreInv
  <2>2. CASE file' = file
    <3>1. Faithful(ReadAll(file), held, gone, exposed)
      BY <2>2 DEF StoreInv
    <3> QED  BY <3>1, <2>2, <1>1, <1>2 DEF Faithful
  <2>3. CASE file' = WithLine(file, s, TRUE) \/ file' = WithLine(file, s, FALSE)
    <3>1. Readable(file) /\ ReadAll(file') = LessTokens(ReadAll(file), T) \cup {s}
      BY <2>3, <1>3
    <3>2. Faithful(ReadAll(file), held, gone, exposed)
      BY <3>1 DEF StoreInv
    <3>3. Faithful(LessTokens(ReadAll(file), T) \cup {s}, LessTokens(held, T), gone \ T, exposed)
      <4> DEFINE all == ReadAll(file)
      <4> HIDE DEF all
      <4> QED  BY <3>2 DEF all, Faithful, LessTokens
    <3> QED  BY <3>1, <3>3, <1>1
  <2> QED  BY <1>1, <2>1, <2>2, <2>3
<1>6. ~torn' => Readable(file') /\ file'.partial = FALSE
  <2> SUFFICES ASSUME ~torn' PROVE Readable(file') /\ file'.partial = FALSE
    OBVIOUS
  <2>1. ~torn /\ ~file'.partial
    BY <1>1
  <2>2. Readable(file) /\ file.partial = FALSE
    BY <2>1 DEF StoreInv
  <2>3. file' # WithLine(file, Damaged, TRUE)
    BY <2>1, TornLine DEF StoreInv
  <2>4. CASE file' = file  BY <2>2, <2>4
  <2>5. CASE file' = WithLine(file, s, TRUE) \/ file' = WithLine(file, s, FALSE)
    BY <2>1, <2>2, <2>5, <1>3
  <2> QED  BY <1>1, <2>3, <2>4, <2>5
<1>7. ASSUME NEW u \in Thread PROVE Pending(removal'[u], held', gone', exposed')
  <2>1. Pending(removal[u], held, gone, exposed)  BY DEF StoreInv
  <2>2. Pending(removal[u], held', gone', exposed)
    BY <2>1, <1>2, StaysPending
  <2> QED  BY <2>2, <1>1
<1>8. torn' \in BOOLEAN /\ held' \subseteq StoredSession
  BY <1>1, <1>2, <1>4 DEF StoreInv
<1> QED  BY <1>1, <1>4, <1>5, <1>6, <1>7, <1>8 DEF StoreInv

\* A removal that begins reads a faithful file.
LEMMA RemovalBegins ==
    ASSUME StoreInv, Readable(file), NEW th \in Thread, NEW r \in Removal,
           removal' = [removal EXCEPT ![th] = r], UNCHANGED <<file, held, gone, exposed, torn>>,
           r.keep \subseteq ReadAll(file),
           \A s \in r.keep : s.token \notin r.drop,
           \A s \in ReadAll(file) : s \in r.keep \/ s.token \in r.drop
    PROVE  StoreInv'
<1>1. Faithful(ReadAll(file), held, gone, exposed) /\ file.lines \in Seq(Line)
  BY DEF StoreInv
<1>2. Pending(r, held, gone, exposed)
  <2>1. IsMap(ReadAll(file)) /\ IsFiniteSet(ReadAll(file))
    BY <1>1, ReadIsMap
  <2>2. IsMap(r.keep)
    BY <2>1 DEF IsMap
  <2>3. IsFiniteSet(r.keep)
    BY <2>1, FS_Subset
  <2>4. Faithful(r.keep, LessTokens(held, r.drop), gone, exposed)
    <3> DEFINE all == ReadAll(file)
    <3> HIDE DEF all
    <3> QED  BY <1>1 DEF all, Faithful, LessTokens
  <2> QED  BY <2>2, <2>3, <2>4 DEF Pending
<1>3. removal' \in [Thread -> Removal]
  BY DEF StoreInv
<1>4. ASSUME NEW u \in Thread PROVE Pending(removal'[u], held, gone, exposed)
  <2>1. removal'[u] = IF u = th THEN r ELSE removal[u]
    BY DEF StoreInv
  <2>2. Pending(removal[u], held, gone, exposed)  BY DEF StoreInv
  <2> QED  BY <2>1, <2>2, <1>2
<1> QED  BY <1>3, <1>4 DEF StoreInv

LEMMA DeleteKeeps ==
    ASSUME StoreInv, NEW th \in Thread, NEW token \in Token, Delete(th, token)
    PROVE  StoreInv'
<1> DEFINE all == ReadAll(file)
           T == {token}
<1>1. /\ ~removal[th].on /\ Readable(file) /\ file.lines \in Seq(Line)
      /\ UNCHANGED <<file, torn>>
  BY DEF Delete, Idle, StoreInv
<1>2. all \subseteq StoredSession
  BY <1>1, ReadIsMap
<1>3. CASE \E s \in all : s.token = token
  <2> DEFINE keep == LessTokens(all, T)
             r == [on |-> TRUE, keep |-> keep, drop |-> T]
  <2>1. removal' = [removal EXCEPT ![th] = r] /\ UNCHANGED <<held, gone, exposed>>
    BY <1>3 DEF Delete
  <2> HIDE DEF all
  <2>2. keep \subseteq all /\ (\A s \in keep : s.token \notin T)
        /\ \A s \in all : s \in keep \/ s.token \in T
    BY DEF LessTokens
  <2>3. keep \in SUBSET StoredSession /\ T \in SUBSET Token
    BY <1>2, <2>2
  <2> HIDE DEF keep, T
  <2>4. r \in Removal /\ r.keep = keep /\ r.drop = T
    BY <2>3 DEF Removal
  <2> HIDE DEF r
  <2> QED  BY <1>1, <2>1, <2>2, <2>4, RemovalBegins DEF all
<1>4. CASE ~\E s \in all : s.token = token
  <2>1. /\ held' = LessTokens(held, T) /\ gone' = gone \cup T /\ Expose(th, T)
        /\ UNCHANGED removal
    BY <1>4 DEF Delete
  <2>2. exposed' = exposed \cup T \/ exposed' = exposed \ T
    BY <2>1 DEF Expose
  <2>3. Faithful(all, held', gone', exposed')
    <3>1. LessTokens(all, T) = all
      BY <1>4 DEF LessTokens
    <3>2. Faithful(all, held, gone, exposed)
      BY <1>1 DEF StoreInv
    <3> HIDE DEF all, T
    <3>3. Faithful(LessTokens(all, T), LessTokens(held, T), gone \cup T, exposed')
      BY <3>2, <2>2, RenamedFaithful
    <3> QED  BY <3>1, <3>3, <2>1
  <2>4. \A u \in Thread : Pending(removal'[u], held', gone', exposed')
    <3>1. /\ \A s \in held' : s \in held \/ s.token \in T
          /\ \A x \in gone' : x \in gone \/ x \in T
      BY <2>1 DEF LessTokens
    <3> HIDE DEF T
    <3> QED  BY <1>1, <2>1, <3>1, OthersPending
  <2>5. held' \subseteq StoredSession
    BY <2>1 DEF LessTokens, StoreInv
  <2> QED  BY <1>1, <2>1, <2>3, <2>4, <2>5 DEF StoreInv
<1> QED  BY <1>3, <1>4

LEMMA DeleteExpiredKeeps ==
    ASSUME StoreAssumption, StoreInv, NEW th \in Thread, NEW before \in 1..MaxTime,
           DeleteExpired(th, before)
    PROVE  StoreInv'
<1> DEFINE all == ReadAll(file)
           keep == Unexpired(before)
           drop == {s.token : s \in {t \in all : t.expires_at < before}}
           r == [on |-> TRUE, keep |-> keep, drop |-> drop]
<1>1. /\ Readable(file) /\ file.lines \in Seq(Line)
      /\ removal' = [removal EXCEPT ![th] = r]
      /\ UNCHANGED <<file, held, gone, exposed, torn>>
  BY DEF DeleteExpired, StoreInv
<1>2. all \subseteq StoredSession /\ IsMap(all)
  BY <1>1, ReadIsMap
<1>3. \A s \in StoredSession : s.expires_at \in Int /\ s.token \in Token /\ before \in Int
  BY DEF StoredSession, StoreAssumption
<1>4. keep = {s \in all : s.expires_at >= before}
  BY DEF Unexpired
<1> HIDE DEF all, keep
<1>5. \A s \in keep : s.token \notin drop
  <2> SUFFICES ASSUME NEW s \in keep, NEW t \in all, t.expires_at < before, s.token = t.token
               PROVE  FALSE
    OBVIOUS
  <2>1. s = t
    BY <1>2, <1>4 DEF IsMap
  <2> QED  BY <2>1, <1>2, <1>3, <1>4
<1>6. \A s \in all : s \in keep \/ s.token \in drop
  <2> SUFFICES ASSUME NEW s \in all, ~(s.expires_at < before)
               PROVE  s \in keep
    OBVIOUS
  <2> QED  BY <1>2, <1>3, <1>4
<1>7. keep \subseteq all /\ keep \in SUBSET StoredSession /\ drop \in SUBSET Token
  BY <1>2, <1>3, <1>4
<1> HIDE DEF drop
<1>8. r \in Removal /\ r.keep = keep /\ r.drop = drop
  BY <1>7 DEF Removal
<1> HIDE DEF r
<1> QED  BY <1>1, <1>5, <1>6, <1>7, <1>8, RemovalBegins DEF all

LEMMA RewriteKeeps ==
    ASSUME StoreAssumption, StoreInv, NEW th \in Thread, Rewrite(th)
    PROVE  StoreInv'
<1> DEFINE r == removal[th]
           keep == r.keep
           drop == r.drop
<1>1. /\ r.on /\ file' = [lines |-> SetToSeq(keep), partial |-> FALSE]
      /\ held' = LessTokens(held, drop) /\ gone' = gone \cup drop /\ Expose(th, drop)
      /\ removal' = [removal EXCEPT ![th] = NoRemoval] /\ UNCHANGED torn
  BY DEF Rewrite
<1>2. /\ keep \in SUBSET StoredSession /\ IsMap(keep) /\ IsFiniteSet(keep)
      /\ \A s \in keep : s.token \notin drop
      /\ Faithful(keep, LessTokens(held, drop), gone, exposed)
  BY <1>1 DEF StoreInv, Removal, Pending
<1> HIDE DEF keep, drop
<1>3. /\ file'.lines \in Seq(Line) /\ file'.partial = FALSE
      /\ Readable(file') /\ ReadAll(file') = keep
  <2>1. file'.lines = SetToSeq(keep) /\ file'.partial = FALSE
    BY <1>1
  <2> QED  BY <2>1, <1>2, ReadRewritten
<1>4. exposed' = exposed \cup drop \/ exposed' = exposed \ drop
  BY <1>1 DEF Expose
<1>5. Faithful(keep, held', gone', exposed')
  <2>1. LessTokens(keep, drop) = keep /\ LessTokens(LessTokens(held, drop), drop) = LessTokens(held, drop)
    BY <1>2 DEF LessTokens
  <2> DEFINE h == LessTokens(held, drop)
  <2> HIDE DEF h
  <2>2. Faithful(keep, h, gone, exposed)  BY <1>2 DEF h
  <2>3. Faithful(LessTokens(keep, drop), LessTokens(h, drop), gone \cup drop, exposed')
    BY <2>2, <1>4, RenamedFaithful
  <2> QED  BY <2>1, <2>3, <1>1 DEF h
<1>6. removal' \in [Thread -> Removal]
  <2>1. NoRemoval \in Removal  BY DEF NoRemoval, Removal
  <2> QED  BY <2>1, <1>1 DEF StoreInv
<1>7. ASSUME NEW u \in Thread PROVE Pending(removal'[u], held', gone', exposed')
  <2>1. CASE u = th
    <3>1. removal'[u] = NoRemoval  BY <2>1, <1>1 DEF StoreInv
    <3> QED  BY <3>1 DEF Pending, NoRemoval
  <2>2. CASE u # th
    <3>1. removal'[u] = removal[u]  BY <2>2, <1>1 DEF StoreInv
    <3>2. CASE ~removal[u].on  BY <3>1, <3>2 DEF Pending
    <3>3. CASE removal[u].on
      <4>1. exposed' = exposed \cup drop
        <5>1. OthersRemoving(th)  BY <2>2, <3>3 DEF OthersRemoving
        <5> QED  BY <5>1, <1>1 DEF Expose
      <4>2. Pending(removal[u], held, gone, exposed)  BY DEF StoreInv
      <4>3. held' \subseteq held  BY <1>1 DEF LessTokens
      <4>4. Pending(removal[u], held', gone', exposed')
        BY <4>1, <4>2, <4>3, <1>1, StaysPending
      <4> QED  BY <3>1, <4>4
    <3> QED  BY <3>2, <3>3
  <2> QED  BY <2>1, <2>2
<1>8. held' \subseteq StoredSession
  BY <1>1 DEF LessTokens, StoreInv
<1> QED  BY <1>1, <1>3, <1>5, <1>6, <1>7, <1>8 DEF StoreInv

LEMMA RemovalEnds ==
    ASSUME StoreInv, UNCHANGED <<file, held, gone, exposed, torn>>,
           removal' \in [Thread -> Removal],
           \A th \in Thread : removal'[th] = removal[th] \/ removal'[th] = NoRemoval
    PROVE  StoreInv'
<1>1. ASSUME NEW u \in Thread PROVE Pending(removal'[u], held, gone, exposed)
  <2>1. Pending(removal[u], held, gone, exposed)  BY DEF StoreInv
  <2>2. Pending(NoRemoval, held, gone, exposed)  BY DEF Pending, NoRemoval
  <2> QED  BY <2>1, <2>2
<1> QED  BY <1>1 DEF StoreInv

LEMMA StoreKeeps ==
    ASSUME StoreAssumption, StoreInv, [StoreNext]_store_vars
    PROVE  StoreInv'
<1>1. NoRemoval \in Removal /\ removal \in [Thread -> Removal]
  BY DEF NoRemoval, Removal, StoreInv
<1>2. CASE UNCHANGED store_vars
  BY <1>2 DEF store_vars, StoreInv, Pending
<1>3. ASSUME NEW th \in Thread, NEW s \in StoredSession, Save(th, s) PROVE StoreInv'
  BY <1>3, SaveKeeps
<1>4. ASSUME NEW th \in Thread, NEW s \in StoredSession, SaveFails(th, s) PROVE StoreInv'
  BY <1>4, SaveFailsKeeps
<1>5. ASSUME NEW th \in Thread, NEW token \in Token, Delete(th, token) PROVE StoreInv'
  BY <1>5, DeleteKeeps
<1>6. ASSUME NEW th \in Thread, NEW before \in 1..MaxTime, DeleteExpired(th, before) PROVE StoreInv'
  BY <1>6, DeleteExpiredKeeps
<1>7. ASSUME NEW th \in Thread, Rewrite(th) PROVE StoreInv'
  BY <1>7, RewriteKeeps
<1>8. ASSUME NEW th \in Thread, RewriteFails(th) PROVE StoreInv'
  <2>1. removal' = [removal EXCEPT ![th] = NoRemoval] /\ UNCHANGED <<file, held, gone, exposed, torn>>
    BY <1>8 DEF RewriteFails
  <2> HIDE DEF NoRemoval
  <2>2. removal' \in [Thread -> Removal]
        /\ \A u \in Thread : removal'[u] = removal[u] \/ removal'[u] = NoRemoval
    BY <1>1, <2>1
  <2> QED  BY <2>1, <2>2, RemovalEnds
<1>9. CASE StoreRestart
  <2>1. removal' = [th \in Thread |-> NoRemoval] /\ UNCHANGED <<file, held, gone, exposed, torn>>
    BY <1>9 DEF StoreRestart
  <2>2. removal' \in [Thread -> Removal]
        /\ \A u \in Thread : removal'[u] = removal[u] \/ removal'[u] = NoRemoval
    BY <1>1, <2>1
  <2> QED  BY <2>1, <2>2, RemovalEnds
<1> QED  BY <1>2, <1>3, <1>4, <1>5, <1>6, <1>7, <1>8, <1>9 DEF StoreNext

\* A session whose save was answered while no removal was half way is what load
\* returns until it is saved again or removed, a removed token stays removed, and
\* only a save that was cut short makes the file unreadable, whatever threads,
\* failed calls and restarts come between (save, delete, delete_expired, load).
THEOREM SessionsAreDurable ==
    ASSUME StoreAssumption
    PROVE  StoreSpec => []SessionsDurable
<1>1. StoreInit => StoreInv
  <2> SUFFICES ASSUME StoreInit PROVE StoreInv
    OBVIOUS
  <2>1. file.lines = << >> /\ file.partial = FALSE /\ file.lines \in Seq(Line)
    BY DEF StoreInit
  <2>2. Readable(file)
    BY <2>1, Readability
  <2>3. Faithful(ReadAll(file), held, gone, exposed)
    BY DEF StoreInit, Faithful
  <2>4. removal \in [Thread -> Removal]
    BY DEF StoreInit, NoRemoval, Removal
  <2>5. \A th \in Thread : Pending(removal[th], held, gone, exposed)
    BY DEF StoreInit, NoRemoval, Pending
  <2> QED  BY <2>1, <2>2, <2>3, <2>4, <2>5 DEF StoreInv, StoreInit
<1>2. StoreInv /\ [StoreNext]_store_vars => StoreInv'
  BY StoreKeeps
<1>3. StoreInv => SessionsDurable
  BY DEF StoreInv, SessionsDurable, SavedKept, DeletedGone, OnlyTornCorrupts, Faithful
<1> QED  BY <1>1, <1>2, <1>3, PTL DEF StoreSpec

-----------------------------------------------------------------------------
(* Lists of what is retained. *)

\* A set of natural numbers that is not empty has a least element.
LEMMA LeastNat ==
    ASSUME NEW T \in SUBSET Nat, T # {}
    PROVE  \E x \in T : \A y \in T : x <= y
<1> DEFINE R == {ss \in Nat \X Nat : ss[1] < ss[2]}
<1>1. IsWellFoundedOn(R, Nat)
  BY NatLessThanWellFounded DEF OpToRel
<1>2. \A x, y \in Nat : x < y => <<x, y>> \in R
  OBVIOUS
<1> HIDE DEF R
<1>3. PICK x \in T : \A y \in T : ~ (<<y, x>> \in R)
  BY <1>1, WFMin, Zenon
<1>4. \A y \in T : x \in Nat /\ y \in Nat /\ ~ (y < x)
  BY <1>2, <1>3
<1>5. \A y \in T : x <= y
  BY <1>4
<1> QED BY <1>5

\* ... and a greatest one when it is bounded.
LEMMA GreatestNat ==
    ASSUME NEW T \in SUBSET Nat, T # {}, NEW n \in Nat, \A y \in T : y <= n
    PROVE  \E x \in T : \A y \in T : y <= x
<1> DEFINE U == {m \in Nat : \E y \in T : m = n - y}
<1>1. U \in SUBSET Nat /\ U # {}
  <2>1. PICK y \in T : TRUE
    OBVIOUS
  <2>2. n - y \in U
    OBVIOUS
  <2> QED BY <2>2
<1>2. PICK x \in U : \A y \in U : x <= y
  BY <1>1, LeastNat
<1>3. PICK z \in T : x = n - z
  OBVIOUS
<1> QED BY <1>2, <1>3

\* The elements of a finite set of integers, numbered from below.
Rank(S, x) == Cardinality({y \in S : y <= x})

\* A rank is a place, and every place is the rank of one element.
LEMMA Ranks ==
    ASSUME NEW S \in SUBSET Int, IsFiniteSet(S)
    PROVE  /\ Cardinality(S) \in Nat
           /\ \A x \in S : Rank(S, x) \in 1..Cardinality(S)
           /\ \A k \in 1..Cardinality(S) : \E x \in S : Rank(S, x) = k
           /\ \A x, y \in S : Rank(S, x) = Rank(S, y) => x = y
           /\ \A x, y \in S : x < y => Rank(S, x) < Rank(S, y)
<1> DEFINE n == Cardinality(S)
           Below(x) == {y \in S : y <= x}
           r == [x \in S |-> Cardinality(Below(x))]
<1>1. n \in Nat
  BY FS_CardinalityType
<1>2. \A x \in S : IsFiniteSet(Below(x)) /\ Cardinality(Below(x)) \in 1..n
  <2> SUFFICES ASSUME NEW x \in S
               PROVE  IsFiniteSet(Below(x)) /\ Cardinality(Below(x)) \in 1..n
    OBVIOUS
  <2>1. IsFiniteSet(Below(x)) /\ Cardinality(Below(x)) <= n
    <3>1. Below(x) \in SUBSET S
      OBVIOUS
    <3> HIDE DEF Below
    <3> QED  BY <3>1, FS_Subset
  <2>2. Cardinality(Below(x)) \in Nat
    <3> HIDE DEF Below
    <3> QED  BY <2>1, FS_CardinalityType
  <2>3. Cardinality(Below(x)) # 0
    <3>1. x \in Below(x)
      OBVIOUS
    <3> HIDE DEF Below
    <3> QED  BY <2>1, <3>1, FS_EmptySet
  <2> HIDE DEF Below
  <2> QED  BY <1>1, <2>1, <2>2, <2>3
<1>3. \A x, y \in S : x < y => r[x] < r[y]
  <2> SUFFICES ASSUME NEW x \in S, NEW y \in S, x < y
               PROVE  Cardinality(Below(x)) < Cardinality(Below(y))
    OBVIOUS
  <2>1. Below(x) \in SUBSET Below(y) /\ Below(x) # Below(y)
    <3>1. y \in Below(y) /\ y \notin Below(x)
      OBVIOUS
    <3>2. \A z \in Below(x) : z \in Below(y)
      OBVIOUS
    <3> HIDE DEF Below
    <3> QED  BY <3>1, <3>2
  <2> HIDE DEF Below
  <2>2. Cardinality(Below(x)) <= Cardinality(Below(y))
        /\ Cardinality(Below(x)) # Cardinality(Below(y))
    BY <1>2, <2>1, FS_Subset, Zenon
  <2> QED  BY <1>2, <2>2
<1>4. r \in Injection(S, 1..n)
  <2>1. r \in [S -> 1..n]
    <3> HIDE DEF Below
    <3> QED  BY <1>2
  <2>2. \A x, y \in S : x # y => r[x] # r[y]
    <3> SUFFICES ASSUME NEW x \in S, NEW y \in S, x # y PROVE r[x] # r[y]
      OBVIOUS
    <3>1. x \in Int /\ y \in Int /\ (x < y \/ y < x)
      OBVIOUS
    <3>2. r[x] \in 1..n /\ r[y] \in 1..n
      <4> HIDE DEF r, n
      <4> QED  BY <2>1
    <3> HIDE DEF r
    <3> QED  BY <1>3, <3>1, <3>2
  <2> HIDE DEF r
  <2> QED  BY <2>1, <2>2, Zenon DEF Injection, IsInjective
<1>5. r \in Surjection(S, 1..n)
  <2>1. IsFiniteSet(1..n) /\ Cardinality(1..n) = n
    BY <1>1, FS_Interval
  <2> HIDE DEF r
  <2> QED  BY <1>4, <2>1, FS_Injection
<1>6. \A k \in 1..n : \E x \in S : r[x] = k
  <2> HIDE DEF r
  <2> QED  BY <1>5 DEF Surjection
<1>7. \A x \in S : r[x] = Rank(S, x)
  BY DEF Rank
<1>8. \A x \in S : r[x] \in 1..n
  <2> HIDE DEF r
  <2> QED  BY <1>4 DEF Injection
<1>9. \A x, y \in S : r[x] = r[y] => x = y
  <2> HIDE DEF r
  <2> QED  BY <1>4 DEF Injection, IsInjective
<1>10. \A x, y \in S : x < y => Rank(S, x) < Rank(S, y)
  <2> HIDE DEF r
  <2> QED  BY <1>3, <1>7
<1> HIDE DEF r
<1> QED  BY <1>1, <1>6, <1>7, <1>8, <1>9, <1>10

\* Places in a list, in its order, and none twice.
Places(p, n, m) == /\ \A k \in 1..n : p[k] \in 1..m
                   /\ \A k \in 1..n : \A l \in 1..n : k < l => p[k] < p[l]

\* There are no more of them than the list has, and as many only if all are.
LEMMA PlacesAre ==
    ASSUME NEW n \in Nat, NEW m \in Nat, NEW p, Places(p, n, m)
    PROVE  /\ n <= m
           /\ n = m => \A k \in 1..n : p[k] = k
<1>1. \A k \in 1..n : p[k] \in 1..m
  BY DEF Places
<1>2. \A k \in 1..n : \A l \in 1..n : k < l => p[k] < p[l]
  BY DEF Places
<1>3. \A k \in 1..n : k <= p[k]
  <2> SUFFICES ASSUME NEW j \in 1..n, ~ (j <= p[j]) PROVE FALSE
    OBVIOUS
  <2> DEFINE T == {k \in 1..n : ~ (k <= p[k])}
  <2>1. T \in SUBSET Nat /\ T # {}
    OBVIOUS
  <2> HIDE DEF T
  <2>2. PICK k \in T : \A l \in T : k <= l
    BY <2>1, LeastNat
  <2>3. k \in 1..n /\ ~ (k <= p[k]) /\ \A l \in 1..n : l < k => l <= p[l]
    BY <2>2 DEF T
  <2>4. CASE k = 1
    BY <1>1, <2>3, <2>4
  <2>5. CASE k # 1
    <3>1. k - 1 \in 1..n /\ k - 1 < k
      BY <2>3, <2>5
    <3>2. k - 1 <= p[k - 1] /\ p[k - 1] < p[k] /\ p[k] \in 1..m /\ p[k - 1] \in 1..m
      BY <1>1, <1>2, <2>3, <3>1
    <3> QED  BY <2>3, <3>2
  <2> QED  BY <2>4, <2>5
<1>4. n <= m
  <2>1. CASE n = 0
    BY <2>1
  <2>2. CASE n # 0
    BY <1>1, <1>3, <2>2
  <2> QED  BY <2>1, <2>2
<1>5. ASSUME n = m PROVE \A k \in 1..n : p[k] = k
  <2> SUFFICES ASSUME NEW j \in 1..n, p[j] # j PROVE FALSE
    OBVIOUS
  <2> DEFINE T == {k \in 1..n : p[k] # k}
  <2>1. T \in SUBSET Nat /\ T # {} /\ \A k \in T : k <= n
    OBVIOUS
  <2> HIDE DEF T
  <2>2. PICK k \in T : \A l \in T : l <= k
    BY <2>1, GreatestNat
  <2>3. k \in 1..n /\ p[k] # k /\ \A l \in 1..n : k < l => p[l] = l
    BY <2>2 DEF T
  <2>4. k < p[k] /\ p[k] <= n
    BY <1>1, <1>3, <1>5, <2>3
  <2>5. k + 1 \in 1..n /\ k < k + 1
    BY <1>1, <2>3, <2>4
  <2>6. p[k] < p[k + 1] /\ p[k + 1] = k + 1
    BY <1>2, <2>3, <2>5
  <2> QED  BY <1>1, <2>3, <2>4, <2>6
<1> QED  BY <1>4, <1>5

\* A list drawn from another one.
Drawn(new, list, p) == Places(p, Len(new), Len(list)) /\ \A k \in 1..Len(new) : new[k] = list[p[k]]

\* retain keeps elements that are not dropped, in their order.
LEMMA Retained ==
    ASSUME NEW S, NEW list \in Seq(S), NEW dropped
    PROVE  /\ Retain(list, dropped) \in Seq(S)
           /\ \E p : Drawn(Retain(list, dropped), list, p)
           /\ \A x : (\E k \in 1..Len(Retain(list, dropped)) : Retain(list, dropped)[k] = x)
                      <=> (\E i \in 1..Len(list) : list[i] = x) /\ x \notin dropped
<1> DEFINE remain == {i \in DOMAIN list : list[i] \notin dropped}
           n == Cardinality(remain)
           at(k) == CHOOSE i \in remain : Rank(remain, i) = k
           p == [k \in 1..n |-> at(k)]
           q == [k \in 1..n |-> list[at(k)]]
<1>1. Retain(list, dropped) = q
  BY Zenon DEF Retain, Rank
<1>2. DOMAIN list = 1..Len(list) /\ Len(list) \in Nat /\ \A i \in 1..Len(list) : list[i] \in S
  OBVIOUS
<1>3. remain \in SUBSET Int /\ IsFiniteSet(remain)
  <2>1. remain \in SUBSET (1..Len(list))
    BY <1>2
  <2>2. IsFiniteSet(1..Len(list))
    BY <1>2, FS_Interval
  <2> HIDE DEF remain
  <2>3. \A i \in 1..Len(list) : i \in Int
    OBVIOUS
  <2> QED  BY <2>1, <2>2, <2>3, FS_Subset
<1>4. /\ n \in Nat /\ \A x \in remain : Rank(remain, x) \in 1..n
      /\ \A k \in 1..n : \E x \in remain : Rank(remain, x) = k
      /\ \A x, y \in remain : Rank(remain, x) = Rank(remain, y) => x = y
      /\ \A x, y \in remain : x < y => Rank(remain, x) < Rank(remain, y)
  <2> HIDE DEF remain
  <2> QED  BY <1>3, Ranks
<1> HIDE DEF n
<1>5. \A k \in 1..n : at(k) \in remain /\ Rank(remain, at(k)) = k
  <2> HIDE DEF remain
  <2> QED  BY <1>4
<1> HIDE DEF at
<1>6. /\ \A i : i \in remain => i \in 1..Len(list) /\ list[i] \notin dropped
      /\ \A i \in 1..Len(list) : list[i] \notin dropped => i \in remain
  BY <1>2
<1>7. \A k \in 1..n : \A l \in 1..n : k < l => at(k) < at(l)
  <2> SUFFICES ASSUME NEW k \in 1..n, NEW l \in 1..n, k < l PROVE at(k) < at(l)
    OBVIOUS
  <2> HIDE DEF remain
  <2>1. at(k) \in Int /\ at(l) \in Int
    BY <1>3, <1>5
  <2>2. at(l) < at(k) => l < k
    BY <1>4, <1>5
  <2>3. at(l) = at(k) => l = k
    BY <1>5
  <2> QED  BY <2>1, <2>2, <2>3
<1> HIDE DEF remain
<1>8. q \in Seq(S) /\ Len(q) = n /\ \A k \in 1..n : q[k] = list[at(k)]
  BY <1>2, <1>4, <1>5, <1>6
<1> HIDE DEF q
<1>9. \A k \in 1..n : p[k] = at(k)
  OBVIOUS
<1> HIDE DEF p
<1>10. Places(p, n, Len(list))
  BY <1>5, <1>6, <1>7, <1>9 DEF Places
<1>11. Drawn(q, list, p)
  BY <1>8, <1>9, <1>10 DEF Drawn
<1>12. ASSUME NEW x
       PROVE  (\E k \in 1..Len(q) : q[k] = x) <=> (\E i \in 1..Len(list) : list[i] = x) /\ x \notin dropped
  <2>1. ASSUME NEW k \in 1..Len(q), q[k] = x PROVE (\E i \in 1..Len(list) : list[i] = x) /\ x \notin dropped
    BY <1>5, <1>6, <1>8, <2>1
  <2>2. ASSUME NEW i \in 1..Len(list), list[i] = x, x \notin dropped PROVE \E k \in 1..Len(q) : q[k] = x
    <3>1. i \in remain
      BY <1>6, <2>2
    <3>2. PICK k \in 1..n : Rank(remain, i) = k
      BY <1>4, <3>1
    <3>3. at(k) = i
      BY <1>4, <1>5, <3>1, <3>2
    <3> QED  BY <1>8, <2>2, <3>2, <3>3
  <2> QED  BY <2>1, <2>2
<1> QED  BY <1>1, <1>8, <1>11, <1>12

-----------------------------------------------------------------------------
(* The audit log. *)

\* What verify_chain finds wrong with an entry.
Bad(es, i) == es[i].prev_hash # (IF i = 1 THEN EmptyHash ELSE es[i - 1].entry_hash) \/ es[i].entry_hash # ComputeHash(es[i])

\* verify_chain names the first bad entry.
LEMMA ChainFinds ==
    ASSUME NEW es, NEW n \in Nat, DOMAIN es = 1..n
    PROVE  /\ VerifyChain(es) = 0 <=> \A i \in 1..n : ~Bad(es, i)
           /\ \A i \in 1..n : Bad(es, i) /\ (\A j \in 1..n : j < i => ~Bad(es, j)) => VerifyChain(es) = i
<1> DEFINE B == {i \in DOMAIN es : Bad(es, i)}
           c == CHOOSE i \in B : \A j \in B : i <= j
<1>1. VerifyChain(es) = IF B = {} THEN 0 ELSE c
  BY Zenon DEF VerifyChain, Bad
<1>2. B \in SUBSET Nat /\ B \in SUBSET (1..n) /\ \A i \in 1..n : i \in B <=> Bad(es, i)
  OBVIOUS
<1> HIDE DEF B
<1>3. B # {} => c \in B /\ \A j \in B : c <= j
  <2> SUFFICES ASSUME B # {} PROVE \E i \in B : \A j \in B : i <= j
    OBVIOUS
  <2> QED  BY <1>2, LeastNat
<1> HIDE DEF c
<1>4. ASSUME NEW i \in 1..n, Bad(es, i), \A j \in 1..n : j < i => ~Bad(es, j)
      PROVE  VerifyChain(es) = i
  <2>1. i \in B /\ c \in B /\ c <= i /\ c \in 1..n
    BY <1>2, <1>3, <1>4
  <2>2. ~ (c < i)
    BY <1>2, <1>4, <2>1
  <2> QED  BY <1>1, <2>1, <2>2
<1>5. VerifyChain(es) = 0 <=> B = {}
  BY <1>1, <1>2, <1>3
<1> QED  BY <1>2, <1>4, <1>5

\* Entries in a chain: each has its own hash and that of the one before it.
Linked(ch) == \A i \in 1..Len(ch) : /\ ch[i].entry_hash = ComputeHash(ch[i])
                                    /\ ch[i].prev_hash = IF i = 1 THEN EmptyHash ELSE ch[i - 1].entry_hash

\* A hash of something is not that of nothing.
LEMMA HashIsNotEmpty == ASSUME NEW a, NEW b, NEW c, NEW d, NEW e PROVE <<a, b, c, d, e>> # << >>
<1>1. Len(<<a, b, c, d, e>>) = 5 /\ Len(<< >>) = 0
  OBVIOUS
<1> QED  BY <1>1

\* As every hash holds the one before, no two of a chain are equal.
LEMMA HashesDiffer ==
    ASSUME NEW ch, Len(ch) \in Nat, Linked(ch),
           NEW i \in 1..Len(ch), NEW j \in 1..Len(ch), ch[i].entry_hash = ch[j].entry_hash
    PROVE  i = j
<1> DEFINE T == {k \in 1..Len(ch) : \E l \in 1..Len(ch) : k < l /\ ch[k].entry_hash = ch[l].entry_hash}
<1>1. \A k \in 1..Len(ch) : ch[k].entry_hash = <<ch[k].sequence, ch[k].timestamp, ch[k].what.who, Run(ch[k].what), ch[k].prev_hash>>
  BY DEF Linked, ComputeHash
<1>2. \A k \in 1..Len(ch) : ch[k].prev_hash = IF k = 1 THEN EmptyHash ELSE ch[k - 1].entry_hash
  BY DEF Linked
<1>3. T = {}
  <2> SUFFICES ASSUME T # {} PROVE FALSE
    OBVIOUS
  <2>1. T \in SUBSET Nat
    OBVIOUS
  <2>2. PICK k \in T : \A z \in T : k <= z
    <3> HIDE DEF T
    <3> QED  BY <2>1, LeastNat
  <2>3. PICK l \in 1..Len(ch) : k < l /\ ch[k].entry_hash = ch[l].entry_hash
    OBVIOUS
  <2>4. k \in 1..Len(ch) /\ l # 1 /\ l - 1 \in 1..Len(ch)
    BY <2>3
  <2>5. ch[k].prev_hash = ch[l].prev_hash /\ ch[l].prev_hash = ch[l - 1].entry_hash
    BY <1>1, <1>2, <2>3, <2>4
  <2>6. CASE k = 1
    <3>1. ch[l - 1].entry_hash = << >>
      BY <1>2, <2>4, <2>5, <2>6 DEF EmptyHash
    <3>2. ch[l - 1].entry_hash = <<ch[l - 1].sequence, ch[l - 1].timestamp, ch[l - 1].what.who, Run(ch[l - 1].what), ch[l - 1].prev_hash>>
      BY <1>1, <2>4
    <3> QED  BY <3>1, <3>2, HashIsNotEmpty, Zenon
  <2>7. CASE k # 1
    <3>1. k - 1 \in 1..Len(ch) /\ k - 1 < l - 1 /\ k - 1 < k
      BY <2>3, <2>4, <2>7
    <3>2. ch[k - 1].entry_hash = ch[l - 1].entry_hash
      BY <1>2, <2>4, <2>5, <2>7
    <3>3. k - 1 \in T
      BY <2>4, <3>1, <3>2
    <3> HIDE DEF T
    <3> QED  BY <2>2, <2>4, <3>1, <3>3
  <2> QED  BY <2>6, <2>7
<1>4. \A k, l \in 1..Len(ch) : k < l => ch[k].entry_hash # ch[l].entry_hash
  BY <1>3
<1> HIDE DEF T
<1> QED  BY <1>4

\* A chain is one of its own entries only: what is drawn from it up to its end
\* and linked leaves nothing out.
Within(es, ch) == /\ es = << >> => ch = << >>
                  /\ \E p : Drawn(es, ch, p) /\ (es # << >> => p[Len(es)] = Len(ch))

\* Kept entries of which none is bad are the whole of the linked chain.
LEMMA LinkedIsWhole ==
    ASSUME NEW U, NEW es \in Seq(U), NEW ch \in Seq(U), Linked(ch), Within(es, ch),
           \A i \in 1..Len(es) : ~Bad(es, i)
    PROVE  es = ch
<1>1. PICK p : Drawn(es, ch, p) /\ (es # << >> => p[Len(es)] = Len(ch))
  BY DEF Within
<1>2. Len(es) \in Nat /\ Len(ch) \in Nat
  OBVIOUS
<1>3. /\ \A k \in 1..Len(es) : p[k] \in 1..Len(ch) /\ es[k] = ch[p[k]]
      /\ \A k \in 1..Len(es) : \A l \in 1..Len(es) : k < l => p[k] < p[l]
  BY <1>1 DEF Drawn, Places
<1>4. \A i \in 1..Len(ch) : ch[i].prev_hash = IF i = 1 THEN EmptyHash ELSE ch[i - 1].entry_hash
  BY DEF Linked
<1>5. \A i \in 1..Len(es) : es[i].prev_hash = IF i = 1 THEN EmptyHash ELSE es[i - 1].entry_hash
  BY DEF Bad
<1>6. \A k \in 1..Len(es) : p[k] = k
  <2> SUFFICES ASSUME NEW j \in 1..Len(es), p[j] # j PROVE FALSE
    OBVIOUS
  <2> DEFINE T == {k \in 1..Len(es) : p[k] # k}
  <2>1. T \in SUBSET Nat /\ T # {}
    OBVIOUS
  <2> HIDE DEF T
  <2>2. PICK k \in T : \A l \in T : k <= l
    BY <2>1, LeastNat
  <2>3. k \in 1..Len(es) /\ p[k] # k /\ p[k] \in 1..Len(ch) /\ es[k].prev_hash = ch[p[k]].prev_hash
    BY <1>3, <2>2 DEF T
  <2>4. \A l \in 1..Len(es) : l < k => p[l] = l
    BY <2>2 DEF T
  <2>5. CASE k = 1
    <3>1. ch[p[k]].prev_hash = << >> /\ p[k] # 1
      BY <1>5, <2>3, <2>5 DEF EmptyHash
    <3>2. p[k] - 1 \in 1..Len(ch) /\ ch[p[k] - 1].entry_hash = << >>
      BY <1>2, <1>4, <2>3, <3>1
    <3>3. ch[p[k] - 1].entry_hash = ComputeHash(ch[p[k] - 1])
      BY <3>2 DEF Linked
    <3> QED  BY <3>2, <3>3, HashIsNotEmpty, Zenon DEF ComputeHash
  <2>6. CASE k # 1
    <3>1. k - 1 \in 1..Len(es) /\ k - 1 < k
      BY <1>2, <2>3, <2>6
    <3>2. p[k - 1] = k - 1 /\ p[k - 1] < p[k]
      BY <1>3, <2>3, <2>4, <3>1
    <3>3. p[k] # 1 /\ p[k] - 1 \in 1..Len(ch) /\ k - 1 \in 1..Len(ch)
      BY <1>2, <1>3, <2>3, <3>1, <3>2
    <3>4. ch[p[k] - 1].entry_hash = es[k - 1].entry_hash /\ es[k - 1] = ch[k - 1]
      BY <1>3, <1>4, <1>5, <2>3, <2>6, <3>1, <3>2, <3>3
    <3>5. p[k] - 1 = k - 1
      BY <1>2, <3>3, <3>4, HashesDiffer
    <3> QED  BY <1>2, <2>3, <3>3, <3>5
  <2> QED  BY <2>5, <2>6
<1>7. CASE es = << >>
  BY <1>7 DEF Within
<1>8. CASE es # << >>
  <2>1. Len(es) \in 1..Len(es)
    BY <1>2, <1>8
  <2>2. Len(es) = Len(ch)
    BY <1>1, <1>6, <1>8, <2>1
  <2>3. \A i \in 1..Len(es) : es[i] = ch[i]
    BY <1>3, <1>6
  <2> QED  BY <1>2, <2>2, <2>3
<1> QED  BY <1>7, <1>8

\* A list of elements of a set is one of a larger set.
LEMMA SeqWiden == ASSUME NEW S, NEW T, S \subseteq T, NEW s \in Seq(S) PROVE s \in Seq(T)
<1> DEFINE n == Len(s)
<1>1. n \in Nat /\ s \in [1..n -> S]
  OBVIOUS
<1> HIDE DEF n
<1>2. s \in [1..n -> T]
  BY <1>1
<1> QED  BY <1>1, <1>2

\* What is left when one element is removed.
LEMMA RemovedIs ==
    ASSUME NEW S, NEW s \in Seq(S), NEW p \in 1..Len(s)
    PROVE  /\ RemoveAt(s, p) \in Seq(S) /\ Len(RemoveAt(s, p)) = Len(s) - 1
           /\ \A i \in 1..(Len(s) - 1) : RemoveAt(s, p)[i] = IF i < p THEN s[i] ELSE s[i + 1]
<1> DEFINE n == Len(s)
           a == SubSeq(s, 1, p - 1)
           b == SubSeq(s, p + 1, n)
           new == a \o b
<1>1. RemoveAt(s, p) = new
  BY DEF RemoveAt
<1>a. n \in Nat /\ p \in 1..n /\ DOMAIN s = 1..n /\ Len(s) = n /\ p \in Nat /\ p - 1 \in Nat /\ n - p \in Nat
  OBVIOUS
<1> HIDE DEF n
<1>2. a \in Seq(S) /\ Len(a) = p - 1 /\ \A i \in 1..(p - 1) : a[i] = s[i]
  BY <1>a
<1>3. b \in Seq(S) /\ Len(b) = n - p /\ \A i \in 1..(n - p) : b[i] = s[p + i]
  BY <1>a
<1> HIDE DEF a, b
<1>4. new \in Seq(S) /\ Len(new) = Len(a) + Len(b)
      /\ \A i \in 1..(Len(a) + Len(b)) : new[i] = IF i <= Len(a) THEN a[i] ELSE b[i - Len(a)]
  BY <1>2, <1>3, ConcatProperties
<1> HIDE DEF new
<1>5. Len(new) = n - 1 /\ \A i \in 1..(n - 1) : new[i] = IF i <= p - 1 THEN a[i] ELSE b[i - (p - 1)]
  <2>1. Len(a) + Len(b) = n - 1
    BY <1>2, <1>3, <1>a
  <2> QED  BY <1>2, <1>4, <2>1
<1>6. ASSUME NEW i \in 1..(n - 1) PROVE new[i] = IF i < p THEN s[i] ELSE s[i + 1]
  <2>1. CASE i < p
    <3>1. i <= p - 1 /\ i \in 1..(p - 1)
      BY <1>a, <2>1
    <3> QED  BY <1>2, <1>5, <2>1, <3>1
  <2>2. CASE ~ (i < p)
    <3>1. i - (p - 1) \in 1..(n - p) /\ p + (i - (p - 1)) = i + 1 /\ ~ (i <= p - 1)
      BY <1>a, <2>2
    <3> QED  BY <1>3, <1>5, <2>2, <3>1
  <2> QED  BY <2>1, <2>2
<1> QED  BY <1>1, <1>4, <1>5, <1>6 DEF n

IsEntry(e) == /\ e = [sequence |-> e.sequence, timestamp |-> e.timestamp, what |-> e.what,
                       prev_hash |-> e.prev_hash, entry_hash |-> e.entry_hash]
              /\ e.what \in What

\* The log is drawn from the chain its last entry ends, and the chain from what
\* was forwarded; a log of all that was appended is what was forwarded.
AuditInv ==
    /\ appends \in Nat /\ Len(sink) = appends /\ Len(entries) <= appends
    /\ sink \in Seq(ToSet(sink)) /\ chain \in Seq(ToSet(sink)) /\ entries \in Seq(ToSet(sink))
    /\ \A e \in ToSet(sink) : IsEntry(e)
    /\ Linked(chain) /\ Within(entries, chain)
    /\ Len(entries) = appends => entries = sink /\ \A i \in 1..Len(entries) : entries[i].sequence = i

\* At the start the log is empty.
LEMMA AuditBegins == AuditInit => AuditInv
<1> SUFFICES ASSUME AuditInit PROVE AuditInv
  OBVIOUS
<1>1. entries = << >> /\ sink = << >> /\ appends = 0 /\ chain = << >> /\ Len(<< >>) = 0
  BY DEF AuditInit
<1>2. ToSet(sink) = {}
  BY <1>1 DEF ToSet
<1>3. Drawn(entries, chain, << >>)
  BY <1>1 DEF Drawn, Places
<1>4. sink \in Seq(ToSet(sink)) /\ chain \in Seq(ToSet(sink)) /\ entries \in Seq(ToSet(sink))
  BY <1>1
<1>5. Linked(chain) /\ Within(entries, chain)
  BY <1>1, <1>3 DEF Linked, Within
<1> QED  BY <1>1, <1>2, <1>4, <1>5 DEF AuditInv

\* One entry more in a list of all there are.
LEMMA AppendedIs ==
    ASSUME NEW s, s \in Seq(ToSet(s)), NEW e
    PROVE  /\ ToSet(Append(s, e)) = ToSet(s) \cup {e}
           /\ \A t \in Seq(ToSet(s)) : /\ Append(t, e) \in Seq(ToSet(Append(s, e)))
                                       /\ Len(Append(t, e)) = Len(t) + 1 /\ Append(t, e)[Len(t) + 1] = e
                                       /\ \A i \in 1..Len(t) : Append(t, e)[i] = t[i]
<1> DEFINE U == ToSet(s)
           V == U \cup {e}
<1>1. \A x : x \in U <=> \E i \in 1..Len(s) : s[i] = x
  BY DEF ToSet
<1>2. s \in Seq(U) /\ U \in SUBSET V /\ e \in V
  OBVIOUS
<1> HIDE DEF U, V
<1>3. \A t \in Seq(U) : t \in Seq(V)
  BY <1>2, SeqWiden
<1>4. \A t \in Seq(V) : /\ Append(t, e) \in Seq(V) /\ Len(Append(t, e)) = Len(t) + 1
                        /\ Append(t, e)[Len(t) + 1] = e /\ \A i \in 1..Len(t) : Append(t, e)[i] = t[i]
  BY <1>2
<1>5. ToSet(Append(s, e)) = V
  <2> DEFINE a == Append(s, e)
  <2>1. \A x : x \in ToSet(a) <=> \E i \in 1..(Len(s) + 1) : a[i] = x
    <3>1. a \in Seq(V) /\ Len(a) = Len(s) + 1
      BY <1>2, <1>3, <1>4
    <3> HIDE DEF a
    <3> QED  BY <3>1 DEF ToSet
  <2>2. a[Len(s) + 1] = e /\ (\A i \in 1..Len(s) : a[i] = s[i]) /\ Len(s) \in Nat
    BY <1>2, <1>3, <1>4
  <2> HIDE DEF a
  <2>3. \A x : x \in V <=> x = e \/ \E i \in 1..Len(s) : s[i] = x
    BY <1>1 DEF V
  <2>4. \A x : x \in ToSet(a) <=> x \in V
    BY <2>1, <2>2, <2>3
  <2>5. ToSet(a) = V
    BY <2>4
  <2> QED  BY <2>5 DEF a
<1> QED  BY <1>3, <1>4, <1>5 DEF U, V

\* An entry appended is chained to the one before it.
LEMMA AppendKeeps == ASSUME AuditInv, NEW what \in What, AppendEntry(what) PROVE AuditInv'
<1> DEFINE n == Len(entries)
           m == Len(chain)
           prev == IF entries = << >> THEN EmptyHash ELSE entries[n].entry_hash
           draft == [sequence |-> n + 1, timestamp |-> clock, what |-> what, prev_hash |-> prev, entry_hash |-> EmptyHash]
           entry == [draft EXCEPT !.entry_hash = ComputeHash(draft)]
<1>1. /\ appends' = appends + 1 /\ sink' = Append(sink, entry)
      /\ entries' = Append(entries, entry) /\ chain' = Append(chain, entry)
  BY DEF AppendEntry
<1>2. entry = [sequence |-> n + 1, timestamp |-> clock, what |-> what, prev_hash |-> prev,
               entry_hash |-> <<n + 1, clock, what.who, Run(what), prev>>]
  BY DEF ComputeHash
<1>3. /\ entry.sequence = n + 1 /\ entry.prev_hash = prev /\ entry.entry_hash = ComputeHash(entry) /\ IsEntry(entry)
  <2> HIDE DEF entry, prev
  <2> QED  BY <1>2 DEF ComputeHash, IsEntry
<1> HIDE DEF entry, prev
<1>4. /\ appends \in Nat /\ Len(sink) = appends /\ n <= appends
      /\ sink \in Seq(ToSet(sink)) /\ chain \in Seq(ToSet(sink)) /\ entries \in Seq(ToSet(sink))
      /\ \A e \in ToSet(sink) : IsEntry(e)
      /\ Linked(chain) /\ Within(entries, chain)
      /\ n = appends => entries = sink /\ \A i \in 1..n : entries[i].sequence = i
  BY DEF AuditInv
<1>5. n \in Nat /\ m \in Nat
  BY <1>4
<1>6. ToSet(sink') = ToSet(sink) \cup {entry}
  BY <1>1, <1>4, AppendedIs
<1>7. sink' \in Seq(ToSet(sink')) /\ Len(sink') = appends' /\ appends' \in Nat
  BY <1>1, <1>4, AppendedIs
<1>8. /\ entries' \in Seq(ToSet(sink')) /\ Len(entries') = n + 1 /\ entries'[n + 1] = entry
      /\ \A i \in 1..n : entries'[i] = entries[i]
  BY <1>1, <1>4, AppendedIs
<1>9. /\ chain' \in Seq(ToSet(sink')) /\ Len(chain') = m + 1 /\ chain'[m + 1] = entry
      /\ \A i \in 1..m : chain'[i] = chain[i]
  BY <1>1, <1>4, AppendedIs
<1>10. PICK p : Drawn(entries, chain, p) /\ (entries # << >> => p[n] = m)
  BY <1>4 DEF Within
<1>11. /\ \A k \in 1..n : p[k] \in 1..m /\ entries[k] = chain[p[k]]
       /\ \A k \in 1..n : \A l \in 1..n : k < l => p[k] < p[l]
  BY <1>10 DEF Drawn, Places
<1>12. (entries = << >> <=> n = 0) /\ (entries = << >> => m = 0)
  BY <1>4 DEF Within
<1>13. prev = IF m = 0 THEN EmptyHash ELSE chain[m].entry_hash
  <2>1. CASE n = 0
    BY <1>12, <2>1 DEF prev
  <2>2. CASE n # 0
    <3>1. n \in 1..n
      BY <1>5, <2>2
    <3>2. p[n] = m /\ m \in 1..m /\ entries[n] = chain[m]
      BY <1>10, <1>11, <1>12, <2>2, <3>1
    <3> QED  BY <1>12, <2>2, <3>2 DEF prev
  <2> QED  BY <2>1, <2>2
<1>14. Linked(chain')
  <2> SUFFICES ASSUME NEW i \in 1..(m + 1)
               PROVE  /\ chain'[i].entry_hash = ComputeHash(chain'[i])
                      /\ chain'[i].prev_hash = IF i = 1 THEN EmptyHash ELSE chain'[i - 1].entry_hash
    BY <1>9 DEF Linked
  <2>1. CASE i = m + 1
    <3>1. m # 0 => i # 1 /\ i - 1 = m /\ m \in 1..m
      BY <1>5, <2>1
    <3>2. chain'[i] = entry /\ (m # 0 => chain'[i - 1] = chain[m]) /\ (m = 0 => i = 1)
      BY <1>9, <2>1, <3>1
    <3> QED  BY <1>3, <1>13, <3>1, <3>2
  <2>2. CASE i # m + 1
    <3>1. i \in 1..m /\ (i # 1 => i - 1 \in 1..m)
      BY <1>5, <2>2
    <3>2. chain'[i] = chain[i] /\ (i # 1 => chain'[i - 1] = chain[i - 1])
      BY <1>9, <3>1
    <3>3. chain[i].entry_hash = ComputeHash(chain[i]) /\ chain[i].prev_hash = IF i = 1 THEN EmptyHash ELSE chain[i - 1].entry_hash
      BY <1>4, <3>1 DEF Linked
    <3> QED  BY <3>2, <3>3
  <2> QED  BY <2>1, <2>2
<1>15. Within(entries', chain')
  <2> DEFINE q == [k \in 1..(n + 1) |-> IF k = n + 1 THEN m + 1 ELSE p[k]]
  <2>1. q[n + 1] = m + 1 /\ \A k \in 1..n : q[k] = p[k]
    BY <1>5
  <2> HIDE DEF q
  <2>2. \A k \in 1..(n + 1) : k = n + 1 \/ k \in 1..n
    BY <1>5
  <2>3. \A k \in 1..(n + 1) : q[k] \in 1..(m + 1) /\ entries'[k] = chain'[q[k]]
    <3> SUFFICES ASSUME NEW k \in 1..(n + 1) PROVE q[k] \in 1..(m + 1) /\ entries'[k] = chain'[q[k]]
      OBVIOUS
    <3>1. CASE k = n + 1
      BY <1>5, <1>8, <1>9, <2>1, <3>1
    <3>2. CASE k \in 1..n
      <4>1. p[k] \in 1..m /\ p[k] \in 1..(m + 1)
        BY <1>5, <1>11, <3>2
      <4> QED  BY <1>8, <1>9, <1>11, <2>1, <3>2, <4>1
    <3> QED  BY <2>2, <3>1, <3>2
  <2>4. \A k \in 1..(n + 1) : \A l \in 1..(n + 1) : k < l => q[k] < q[l]
    <3> SUFFICES ASSUME NEW k \in 1..(n + 1), NEW l \in 1..(n + 1), k < l PROVE q[k] < q[l]
      OBVIOUS
    <3>1. k \in 1..n /\ q[k] = p[k] /\ p[k] \in 1..m
      BY <1>5, <1>11, <2>1
    <3>2. CASE l = n + 1
      BY <1>5, <2>1, <3>1, <3>2
    <3>3. CASE l \in 1..n
      BY <1>11, <2>1, <3>1, <3>3
    <3> QED  BY <2>2, <3>2, <3>3
  <2>5. Drawn(entries', chain', q)
    BY <1>8, <1>9, <2>3, <2>4 DEF Drawn, Places
  <2>6. entries' # << >>
    BY <1>5, <1>8
  <2> QED  BY <1>8, <1>9, <2>1, <2>5, <2>6 DEF Within
<1>16. \A e \in ToSet(sink') : IsEntry(e)
  BY <1>3, <1>4, <1>6
<1>17. Len(entries') <= appends'
  BY <1>1, <1>4, <1>5, <1>8
<1>18. ASSUME Len(entries') = appends'
       PROVE  entries' = sink' /\ \A i \in 1..Len(entries') : entries'[i].sequence = i
  <2>1. n = appends
    BY <1>1, <1>4, <1>5, <1>8, <1>18
  <2>2. entries = sink /\ \A i \in 1..n : entries[i].sequence = i
    BY <1>4, <2>1
  <2>3. \A i \in 1..(n + 1) : entries'[i].sequence = i
    BY <1>3, <1>5, <1>8, <2>2
  <2> QED  BY <1>1, <1>8, <2>2, <2>3
<1> QED  BY <1>7, <1>8, <1>9, <1>14, <1>15, <1>16, <1>17, <1>18 DEF AuditInv

\* What a prune leaves is drawn from the chain up to its last entry.
LEMMA PruneKeeps == ASSUME AuditInv, NEW ts, PruneOlderThan(ts) PROVE AuditInv'
<1> DEFINE remain == Retain(entries, {e \in ToSet(entries) : e.timestamp < ts})
           U == ToSet(sink)
           at == CHOOSE x \in DOMAIN chain : chain[x] = remain[Len(remain)]
<1>1. /\ remain # entries /\ entries' = remain /\ sink' = sink /\ appends' = appends
      /\ chain' = IF remain = << >> THEN << >> ELSE SubSeq(chain, 1, at)
  BY DEF PruneOlderThan
<1>2. /\ appends \in Nat /\ Len(sink) = appends /\ Len(entries) <= appends
      /\ sink \in Seq(U) /\ chain \in Seq(U) /\ entries \in Seq(U)
      /\ \A e \in U : IsEntry(e)
      /\ Linked(chain) /\ Within(entries, chain)
  BY DEF AuditInv
<1> HIDE DEF U
<1>3. remain \in Seq(U) /\ \E r : Drawn(remain, entries, r)
  <2> DEFINE old == {e \in ToSet(entries) : e.timestamp < ts}
  <2> HIDE DEF old
  <2>1. /\ Retain(entries, old) \in Seq(U)
        /\ \E r : Drawn(Retain(entries, old), entries, r)
        /\ \A x : (\E k \in 1..Len(Retain(entries, old)) : Retain(entries, old)[k] = x)
                   <=> (\E i \in 1..Len(entries) : entries[i] = x) /\ x \notin old
    BY <1>2, Retained, Zenon
  <2> QED  BY <2>1, Zenon DEF old
<1> HIDE DEF remain
<1>4. PICK r : Drawn(remain, entries, r)
  BY <1>3
<1>5. PICK p : Drawn(entries, chain, p)
  BY <1>2 DEF Within
<1> DEFINE n == Len(remain)
           l == Len(entries)
           m == Len(chain)
<1>6. n \in Nat /\ l \in Nat /\ m \in Nat
  BY <1>2, <1>3
<1>7. /\ \A i \in 1..n : r[i] \in 1..l /\ remain[i] = entries[r[i]]
      /\ \A i \in 1..n : \A j \in 1..n : i < j => r[i] < r[j]
  BY <1>4 DEF Drawn, Places
<1>8. /\ \A i \in 1..l : p[i] \in 1..m /\ entries[i] = chain[p[i]]
      /\ \A i \in 1..l : \A j \in 1..l : i < j => p[i] < p[j]
  BY <1>5 DEF Drawn, Places
<1>9. n < l
  <2>1. n <= l /\ (n = l => \A i \in 1..n : r[i] = i)
    BY <1>4, <1>6, PlacesAre DEF Drawn
  <2>2. ASSUME n = l PROVE FALSE
    <3>1. \A i \in 1..n : remain[i] = entries[i]
      BY <1>7, <2>1, <2>2
    <3>2. remain = entries
      BY <1>2, <1>3, <2>2, <3>1
    <3> QED  BY <1>1, <3>2
  <2> QED  BY <1>6, <2>1, <2>2
<1>10. Linked(chain') /\ Within(remain, chain') /\ chain' \in Seq(U)
  <2>1. CASE remain = << >>
    <3>1. chain' = << >> /\ Len(<< >>) = 0
      BY <1>1, <2>1
    <3>2. Drawn(remain, chain', << >>)
      BY <2>1, <3>1 DEF Drawn, Places
    <3> QED  BY <2>1, <3>1, <3>2 DEF Linked, Within
  <2>2. CASE remain # << >>
    <3> DEFINE q == [i \in 1..n |-> p[r[i]]]
               h == q[n]
    <3>1. n \in 1..n
      BY <1>3, <1>6, <2>2
    <3>2. \A i \in 1..n : q[i] = p[r[i]] /\ r[i] \in 1..l
      BY <1>7
    <3> HIDE DEF q
    <3>3. \A i \in 1..n : q[i] \in 1..m /\ remain[i] = chain[q[i]]
      BY <1>7, <1>8, <3>2
    <3>4. \A i \in 1..n : \A j \in 1..n : i < j => q[i] < q[j]
      BY <1>7, <1>8, <3>2
    <3>5. h \in 1..m /\ chain[h] = remain[n] /\ DOMAIN chain = 1..m
      BY <1>2, <3>1, <3>3
    <3>6. at = h
      <4>1. at \in 1..m /\ chain[at] = chain[h]
        BY <3>5
      <4> HIDE DEF at, h
      <4> QED  BY <1>2, <1>6, <3>5, <4>1, HashesDiffer
    <3>7. chain' = SubSeq(chain, 1, h)
      BY <1>1, <2>2, <3>6
    <3> HIDE DEF at, h, n, m
    <3>8. chain' \in Seq(U) /\ Len(chain') = h /\ \A i \in 1..h : chain'[i] = chain[i]
      BY <1>2, <3>5, <3>7 DEF m
    <3>9. \A i \in 1..h : i \in 1..m /\ (i # 1 => i - 1 \in 1..h /\ i - 1 \in 1..m)
      BY <1>6, <3>5
    <3>10. Linked(chain')
      <4> SUFFICES ASSUME NEW i \in 1..h
                   PROVE  /\ chain'[i].entry_hash = ComputeHash(chain'[i])
                          /\ chain'[i].prev_hash = IF i = 1 THEN EmptyHash ELSE chain'[i - 1].entry_hash
        BY <3>8 DEF Linked
      <4>1. chain[i].entry_hash = ComputeHash(chain[i]) /\ chain[i].prev_hash = IF i = 1 THEN EmptyHash ELSE chain[i - 1].entry_hash
        BY <1>2, <3>9 DEF Linked, m
      <4> QED  BY <3>8, <3>9, <4>1
    <3>11. \A i \in 1..n : q[i] \in 1..h
      <4> SUFFICES ASSUME NEW i \in 1..n PROVE q[i] \in 1..h
        OBVIOUS
      <4>1. i = n \/ i < n
        BY <1>6, <3>1
      <4>2. q[i] = h \/ q[i] < h
        BY <3>1, <3>4, <4>1 DEF h
      <4> QED  BY <1>6, <3>3, <3>5, <4>2
    <3>12. \A i \in 1..n : remain[i] = chain'[q[i]]
      BY <3>3, <3>8, <3>11
    <3>13. Drawn(remain, chain', q)
      BY <3>4, <3>8, <3>11, <3>12 DEF Drawn, Places, n
    <3>14. q[Len(remain)] = Len(chain')
      BY <3>8 DEF h, n
    <3> QED  BY <2>2, <3>8, <3>10, <3>13, <3>14 DEF Within
  <2> QED  BY <2>1, <2>2
<1>11. Len(remain) <= appends /\ Len(remain) # appends
  BY <1>2, <1>6, <1>9
<1> QED  BY <1>1, <1>2, <1>3, <1>10, <1>11 DEF AuditInv, U

\* Every step keeps the invariant.
LEMMA AuditKeeps == AuditInv /\ [AuditNext]_audit_vars => AuditInv'
<1> SUFFICES ASSUME AuditInv, [AuditNext]_audit_vars PROVE AuditInv'
  OBVIOUS
<1>1. ASSUME ClockTick \/ UNCHANGED audit_vars PROVE AuditInv'
  <2>1. entries' = entries /\ sink' = sink /\ appends' = appends /\ chain' = chain
    BY <1>1 DEF ClockTick, audit_vars
  <2> QED  BY <2>1 DEF AuditInv
<1>2. ASSUME Clear PROVE AuditInv'
  <2>1. entries # << >> /\ entries' = << >> /\ chain' = << >> /\ sink' = sink /\ appends' = appends /\ Len(<< >>) = 0
    BY <1>2 DEF Clear
  <2>2. Drawn(<< >>, << >>, << >>) /\ Linked(<< >>)
    BY <2>1 DEF Drawn, Places, Linked
  <2>3. Len(entries) \in Nat /\ Len(entries) # 0 /\ appends \in Nat /\ Len(entries) <= appends
    BY <2>1 DEF AuditInv
  <2>4. appends # 0 /\ 0 <= appends
    BY <2>3
  <2>5. Within(entries', chain')
    BY <2>1, <2>2 DEF Within
  <2>6. entries' \in Seq(ToSet(sink')) /\ chain' \in Seq(ToSet(sink'))
    BY <2>1
  <2> QED  BY <2>1, <2>2, <2>4, <2>5, <2>6 DEF AuditInv
<1> QED  BY <1>1, <1>2, AppendKeeps, PruneKeeps DEF AuditNext

\* Two lists after the same one, or before it, are equal when the whole is.
LEMMA ConcatCancels ==
    ASSUME NEW a \in Seq(Nat), NEW b \in Seq(Nat), NEW c \in Seq(Nat)
    PROVE  /\ a \o b = a \o c => b = c
           /\ b \o a = c \o a => b = c
<1>1. Len(a) \in Nat /\ Len(b) \in Nat /\ Len(c) \in Nat
  OBVIOUS
<1>2. ASSUME a \o b = a \o c PROVE b = c
  <2>1. Len(a \o b) = Len(a) + Len(b) /\ Len(a \o c) = Len(a) + Len(c)
    OBVIOUS
  <2>2. Len(b) = Len(c)
    BY <1>1, <1>2, <2>1
  <2>3. \A k \in 1..Len(b) : (a \o b)[Len(a) + k] = b[k] /\ (a \o c)[Len(a) + k] = c[k]
    BY <2>2
  <2> QED  BY <1>2, <2>2, <2>3, SeqEqual
<1>3. ASSUME b \o a = c \o a PROVE b = c
  <2>1. Len(b \o a) = Len(b) + Len(a) /\ Len(c \o a) = Len(c) + Len(a)
    OBVIOUS
  <2>2. Len(b) = Len(c)
    BY <1>1, <1>3, <2>1
  <2>3. \A k \in 1..Len(b) : (b \o a)[k] = b[k] /\ (c \o a)[k] = c[k]
    BY <2>2
  <2> QED  BY <1>3, <2>2, <2>3, SeqEqual
<1> QED  BY <1>2, <1>3

\* A change to one field changes what is hashed.
LEMMA OneFieldTells == ASSUME NEW v \in What, NEW w \in What, OneField(v, w) PROVE ~ SameRun(v, w)
<1>1. /\ DOMAIN v = {"who", "resource", "rows", "detail"}
      /\ v.resource \in Seq(Nat) /\ v.rows \in Seq(Nat) /\ v.detail \in Seq(Nat)
      /\ w.resource \in Seq(Nat) /\ w.rows \in Seq(Nat) /\ w.detail \in Seq(Nat)
  BY WhatAssumption
<1>2. v.resource \o v.rows \in Seq(Nat) /\ w.resource \o v.rows \in Seq(Nat) /\ v.resource \o w.rows \in Seq(Nat)
  BY <1>1
<1>3. PICK f \in DOMAIN v : v[f] # w[f] /\ \A g \in DOMAIN v \ {f} : v[g] = w[g]
  BY DEF OneField
<1> SUFFICES ASSUME v.who = w.who, Run(v) = Run(w) PROVE FALSE
  BY DEF SameRun
<1>4. CASE f = "who"
  BY <1>3, <1>4
<1>5. CASE f = "resource"
  <2>1. v.rows = w.rows /\ v.detail = w.detail /\ v.resource # w.resource
    BY <1>1, <1>3, <1>5
  <2>2. (v.resource \o v.rows) \o v.detail = (w.resource \o v.rows) \o v.detail
    BY <2>1 DEF Run
  <2>3. v.resource \o v.rows = w.resource \o v.rows
    BY <1>1, <1>2, <2>2, ConcatCancels
  <2> QED  BY <1>1, <2>1, <2>3, ConcatCancels
<1>6. CASE f = "rows"
  <2>1. v.resource = w.resource /\ v.detail = w.detail /\ v.rows # w.rows
    BY <1>1, <1>3, <1>6
  <2>2. (v.resource \o v.rows) \o v.detail = (v.resource \o w.rows) \o v.detail
    BY <2>1 DEF Run
  <2>3. v.resource \o v.rows = v.resource \o w.rows
    BY <1>1, <1>2, <2>2, ConcatCancels
  <2> QED  BY <1>1, <2>1, <2>3, ConcatCancels
<1>7. CASE f = "detail"
  <2>1. v.resource = w.resource /\ v.rows = w.rows /\ v.detail # w.detail
    BY <1>1, <1>3, <1>7
  <2>2. (v.resource \o v.rows) \o v.detail = (v.resource \o v.rows) \o w.detail
    BY <2>1 DEF Run
  <2> QED  BY <1>1, <1>2, <2>1, <2>2, ConcatCancels
<1> QED  BY <1>1, <1>3, <1>4, <1>5, <1>6, <1>7

\* An entry of which only the content was changed.
LEMMA EditedEntry ==
    ASSUME NEW U, NEW es \in Seq(U), \A e \in U : IsEntry(e), NEW i \in 1..Len(es), NEW other
    PROVE  LET edited == [es EXCEPT ![i].what = other]
           IN  /\ DOMAIN edited = 1..Len(es) /\ \A j \in 1..Len(es) : j # i => edited[j] = es[j]
               /\ edited[i].what = other /\ edited[i].entry_hash = es[i].entry_hash /\ edited[i].prev_hash = es[i].prev_hash
               /\ edited[i] = [sequence |-> es[i].sequence, timestamp |-> es[i].timestamp, what |-> other,
                               prev_hash |-> es[i].prev_hash, entry_hash |-> es[i].entry_hash]
<1> DEFINE edited == [es EXCEPT ![i].what = other]
<1>1. DOMAIN edited = 1..Len(es) /\ \A j \in 1..Len(es) : j # i => edited[j] = es[j]
  OBVIOUS
<1>2. edited[i] = [es[i] EXCEPT !.what = other]
  OBVIOUS
<1>3. es[i] = [sequence |-> es[i].sequence, timestamp |-> es[i].timestamp, what |-> es[i].what,
               prev_hash |-> es[i].prev_hash, entry_hash |-> es[i].entry_hash]
  <2>1. IsEntry(es[i])
    OBVIOUS
  <2> QED  BY <2>1 DEF IsEntry
<1> DEFINE e == es[i]
<1> HIDE DEF e
<1>4. edited[i] = [sequence |-> es[i].sequence, timestamp |-> es[i].timestamp, what |-> other,
                   prev_hash |-> es[i].prev_hash, entry_hash |-> es[i].entry_hash]
  BY <1>2, <1>3
<1> QED  BY <1>1, <1>4

\* The chain does not see a change that leaves the hashed bytes as they were.
LEMMA EditIsUnseen ==
    ASSUME NEW U, NEW es \in Seq(U), Linked(es), \A e \in U : IsEntry(e), NEW i \in 1..Len(es), NEW other,
           SameRun(es[i].what, other)
    PROVE  VerifyChain([es EXCEPT ![i].what = other]) = 0
<1> DEFINE edited == [es EXCEPT ![i].what = other]
<1>1. /\ DOMAIN edited = 1..Len(es) /\ \A j \in 1..Len(es) : j # i => edited[j] = es[j]
      /\ edited[i].what = other /\ edited[i].entry_hash = es[i].entry_hash /\ edited[i].prev_hash = es[i].prev_hash
      /\ edited[i] = [sequence |-> es[i].sequence, timestamp |-> es[i].timestamp, what |-> other,
                      prev_hash |-> es[i].prev_hash, entry_hash |-> es[i].entry_hash]
  BY EditedEntry, Zenon
<1>2. \A j \in 1..Len(es) : /\ es[j].entry_hash = ComputeHash(es[j])
                           /\ es[j].prev_hash = IF j = 1 THEN EmptyHash ELSE es[j - 1].entry_hash
  BY DEF Linked
<1>3. Len(es) \in Nat /\ \A j \in 1..Len(es) : j # 1 => j - 1 \in 1..Len(es)
  OBVIOUS
<1> HIDE DEF edited
<1>4. ComputeHash(edited[i]) = es[i].entry_hash
  <2>1. ComputeHash(edited[i]) = <<es[i].sequence, es[i].timestamp, other.who, Run(other), es[i].prev_hash>>
    BY <1>1 DEF ComputeHash
  <2>2. es[i].entry_hash = <<es[i].sequence, es[i].timestamp, es[i].what.who, Run(es[i].what), es[i].prev_hash>>
    BY <1>2 DEF ComputeHash
  <2> QED  BY <2>1, <2>2 DEF SameRun
<1>5. \A j \in 1..Len(es) : /\ edited[j].entry_hash = ComputeHash(edited[j])
                           /\ edited[j].entry_hash = es[j].entry_hash /\ edited[j].prev_hash = es[j].prev_hash
  BY <1>1, <1>2, <1>4
<1>6. \A j \in 1..Len(es) : ~ Bad(edited, j)
  BY <1>2, <1>3, <1>5 DEF Bad
<1>7. VerifyChain(edited) = 0
  BY <1>1, <1>3, <1>6, ChainFinds
<1> QED  BY <1>7 DEF edited

\* What the chain says of an entry changed, its hash made again or not, ...
LEMMA EditIsFound ==
    ASSUME NEW U, NEW es \in Seq(U), Linked(es), \A e \in U : IsEntry(e), NEW i \in 1..Len(es), NEW other,
           ~ SameRun(es[i].what, other)
    PROVE  EditFound(es, i, other)
<1> DEFINE n == Len(es)
           edited == [es EXCEPT ![i].what = other]
           forged == [edited EXCEPT ![i].entry_hash = ComputeHash(edited[i])]
<1>1. n \in Nat /\ DOMAIN es = 1..n /\ i \in 1..n
  OBVIOUS
<1>2. \A j \in 1..n : /\ es[j].entry_hash = ComputeHash(es[j])
                      /\ es[j].prev_hash = IF j = 1 THEN EmptyHash ELSE es[j - 1].entry_hash
  BY DEF Linked
<1>3. \A j \in 1..n : j # 1 => j - 1 \in 1..n
  BY <1>1
<1>6. IsEntry(es[i])
  BY <1>1
<1> HIDE DEF n
<1>7. /\ DOMAIN edited = 1..n /\ \A j \in 1..n : j # i => edited[j] = es[j]
      /\ edited[i].what = other /\ edited[i].entry_hash = es[i].entry_hash /\ edited[i].prev_hash = es[i].prev_hash
      /\ edited[i] = [sequence |-> es[i].sequence, timestamp |-> es[i].timestamp, what |-> other,
                      prev_hash |-> es[i].prev_hash, entry_hash |-> es[i].entry_hash]
  BY EditedEntry, Zenon DEF n
<1>8. ComputeHash(edited[i]) # es[i].entry_hash
  <2>1. ComputeHash(edited[i]) = <<es[i].sequence, es[i].timestamp, other.who, Run(other), es[i].prev_hash>>
    BY <1>7 DEF ComputeHash
  <2>2. es[i].entry_hash = <<es[i].sequence, es[i].timestamp, es[i].what.who, Run(es[i].what), es[i].prev_hash>>
    BY <1>1, <1>2 DEF ComputeHash
  <2> QED  BY <2>1, <2>2 DEF SameRun
<1> HIDE DEF edited
<1>9. VerifyChain(edited) = i
  <2>1. Bad(edited, i)
    BY <1>7, <1>8 DEF Bad
  <2>2. \A j \in 1..n : j < i => ~Bad(edited, j)
    <3> SUFFICES ASSUME NEW j \in 1..n, j < i PROVE ~Bad(edited, j)
      OBVIOUS
    <3>1. edited[j] = es[j] /\ (j # 1 => edited[j - 1] = es[j - 1])
      BY <1>1, <1>3, <1>7
    <3> QED  BY <1>2, <3>1 DEF Bad
  <2> QED  BY <1>1, <1>7, <2>1, <2>2, ChainFinds
<1>10. ASSUME i < n PROVE VerifyChain(forged) = i + 1
  <2>1. /\ DOMAIN forged = 1..n /\ \A j \in 1..n : j # i => forged[j] = es[j]
        /\ forged[i] = [edited[i] EXCEPT !.entry_hash = ComputeHash(edited[i])]
    BY <1>1, <1>7
  <2> HIDE DEF forged
  <2> DEFINE f == [sequence |-> es[i].sequence, timestamp |-> es[i].timestamp, what |-> other,
                   prev_hash |-> es[i].prev_hash, entry_hash |-> ComputeHash(edited[i])]
  <2>2. forged[i] = f
    <3> DEFINE h == ComputeHash(edited[i])
    <3> HIDE DEF h
    <3>1. forged[i] = [edited[i] EXCEPT !.entry_hash = h]
      BY <2>1 DEF h
    <3>2. forged[i] = [sequence |-> es[i].sequence, timestamp |-> es[i].timestamp, what |-> other,
                       prev_hash |-> es[i].prev_hash, entry_hash |-> h]
      BY <1>7, <3>1
    <3> QED  BY <3>2 DEF h
  <2>3. forged[i].entry_hash = ComputeHash(edited[i]) /\ forged[i].prev_hash = es[i].prev_hash
        /\ ComputeHash(forged[i]) = ComputeHash(edited[i])
    BY <1>7, <2>2 DEF ComputeHash
  <2>4. i + 1 \in 1..n /\ i + 1 # i /\ i + 1 # 1 /\ (i + 1) - 1 = i
    BY <1>1, <1>10
  <2>5. Bad(forged, i + 1)
    <3>1. forged[i + 1] = es[i + 1] /\ es[i + 1].prev_hash = es[i].entry_hash
      BY <1>2, <2>1, <2>4
    <3> QED  BY <1>8, <2>3, <2>4, <3>1 DEF Bad
  <2>6. \A j \in 1..n : j < i + 1 => ~Bad(forged, j)
    <3> SUFFICES ASSUME NEW j \in 1..n, j < i + 1 PROVE ~Bad(forged, j)
      OBVIOUS
    <3>1. j # 1 => forged[j - 1] = es[j - 1]
      BY <1>1, <1>3, <2>1
    <3>2. CASE j = i
      BY <1>2, <2>3, <3>1, <3>2 DEF Bad
    <3>3. CASE j # i
      BY <1>2, <2>1, <3>1, <3>3 DEF Bad
    <3> QED  BY <3>2, <3>3
  <2> QED  BY <1>1, <2>1, <2>4, <2>5, <2>6, ChainFinds
<1> HIDE DEF forged
<1> QED  BY <1>9, <1>10, Zenon DEF EditFound, edited, forged, n

\* ... and of one that is gone or changed places with the next.
LEMMA LossIsFound ==
    ASSUME NEW U, NEW es \in Seq(U), Linked(es), NEW i \in 1..Len(es), i < Len(es)
    PROVE  LossFound(es, i)
<1> DEFINE n == Len(es)
<1>1. n \in Nat /\ DOMAIN es = 1..n /\ i \in 1..n /\ i < n
  OBVIOUS
<1>2. \A j \in 1..n : /\ es[j].entry_hash = ComputeHash(es[j])
                      /\ es[j].prev_hash = IF j = 1 THEN EmptyHash ELSE es[j - 1].entry_hash
  BY DEF Linked
<1>3. \A j \in 1..n : j # 1 => j - 1 \in 1..n
  BY <1>1
<1>4. \A j, k \in 1..n : es[j].entry_hash = es[k].entry_hash => j = k
  BY <1>1, HashesDiffer
<1>5. \A j \in 1..n : es[j].entry_hash # << >>
  <2> SUFFICES ASSUME NEW j \in 1..n PROVE es[j].entry_hash # << >>
    OBVIOUS
  <2>1. es[j].entry_hash = <<es[j].sequence, es[j].timestamp, es[j].what.who, Run(es[j].what), es[j].prev_hash>>
    BY <1>2 DEF ComputeHash
  <2> QED  BY <2>1, HashIsNotEmpty, Zenon
<1> HIDE DEF n
<1>11. VerifyChain(RemoveAt(es, i)) = i
  <2> DEFINE left == RemoveAt(es, i)
  <2>1. left \in Seq(U) /\ Len(left) = n - 1 /\ \A j \in 1..(n - 1) : left[j] = IF j < i THEN es[j] ELSE es[j + 1]
    BY RemovedIs DEF n
  <2> HIDE DEF left
  <2>2. DOMAIN left = 1..(n - 1) /\ n - 1 \in Nat /\ i \in 1..(n - 1) /\ i + 1 \in 1..n /\ i + 1 # 1 /\ (i + 1) - 1 = i
    BY <1>1, <2>1
  <2>3. Bad(left, i)
    <3>1. left[i] = es[i + 1] /\ left[i].prev_hash = es[i].entry_hash
      BY <1>1, <1>2, <2>1, <2>2
    <3>2. CASE i = 1
      BY <1>1, <1>5, <3>1, <3>2 DEF Bad, EmptyHash
    <3>3. CASE i # 1
      <4>1. i - 1 \in 1..n /\ i - 1 \in 1..(n - 1) /\ i - 1 < i /\ i - 1 # i
        BY <1>1, <2>2, <3>3
      <4>2. left[i - 1] = es[i - 1] /\ es[i - 1].entry_hash # es[i].entry_hash
        BY <1>1, <1>4, <2>1, <4>1
      <4> QED  BY <3>1, <3>3, <4>2 DEF Bad
    <3> QED  BY <3>2, <3>3
  <2>4. \A j \in 1..(n - 1) : j < i => ~Bad(left, j)
    <3> SUFFICES ASSUME NEW j \in 1..(n - 1), j < i PROVE ~Bad(left, j)
      OBVIOUS
    <3>1. j \in 1..n /\ left[j] = es[j] /\ (j # 1 => j - 1 \in 1..(n - 1) /\ j - 1 < i)
      BY <1>1, <2>1
    <3>2. j # 1 => left[j - 1] = es[j - 1]
      BY <2>1, <3>1
    <3> QED  BY <1>2, <3>1, <3>2 DEF Bad
  <2>5. VerifyChain(left) = i
    BY <2>2, <2>3, <2>4, ChainFinds
  <2> QED  BY <2>5 DEF left
<1>12. VerifyChain([es EXCEPT ![i] = es[i + 1], ![i + 1] = es[i]]) = i
  <2> DEFINE swapped == [es EXCEPT ![i] = es[i + 1], ![i + 1] = es[i]]
  <2>1. i + 1 \in 1..n /\ i + 1 # i /\ i + 1 # 1 /\ (i + 1) - 1 = i
    BY <1>1
  <2>2. /\ DOMAIN swapped = 1..n /\ swapped[i] = es[i + 1]
        /\ \A j \in 1..n : j # i /\ j # i + 1 => swapped[j] = es[j]
    BY <1>1, <2>1
  <2> HIDE DEF swapped
  <2>3. Bad(swapped, i)
    <3>1. swapped[i].prev_hash = es[i].entry_hash
      BY <1>2, <2>1, <2>2
    <3>2. CASE i = 1
      BY <1>1, <1>5, <3>1, <3>2 DEF Bad, EmptyHash
    <3>3. CASE i # 1
      <4>1. i - 1 \in 1..n /\ i - 1 # i /\ i - 1 # i + 1
        BY <1>1, <3>3
      <4>2. swapped[i - 1] = es[i - 1] /\ es[i - 1].entry_hash # es[i].entry_hash
        BY <1>1, <1>4, <2>2, <4>1
      <4> QED  BY <3>1, <3>3, <4>2 DEF Bad
    <3> QED  BY <3>2, <3>3
  <2>4. \A j \in 1..n : j < i => ~Bad(swapped, j)
    <3> SUFFICES ASSUME NEW j \in 1..n, j < i PROVE ~Bad(swapped, j)
      OBVIOUS
    <3>1. j # i /\ j # i + 1 /\ (j # 1 => j - 1 \in 1..n /\ j - 1 # i /\ j - 1 # i + 1)
      BY <1>1
    <3>2. swapped[j] = es[j] /\ (j # 1 => swapped[j - 1] = es[j - 1])
      BY <2>2, <3>1
    <3> QED  BY <1>2, <3>2 DEF Bad
  <2>5. VerifyChain(swapped) = i
    BY <1>1, <2>2, <2>3, <2>4, ChainFinds
  <2> QED  BY <2>5 DEF swapped
<1> QED  BY <1>11, <1>12 DEF LossFound

\* The chain verifies as long as nothing it links is gone, and then every change
\* is found where it was made.
LEMMA AuditIsSafe == AuditInv => AuditSafe
<1> SUFFICES ASSUME AuditInv PROVE AuditSafe
  OBVIOUS
<1> DEFINE U == ToSet(sink)
<1>1. /\ appends \in Nat /\ Len(sink) = appends /\ Len(entries) <= appends
      /\ sink \in Seq(U) /\ chain \in Seq(U) /\ entries \in Seq(U)
      /\ \A e \in U : IsEntry(e)
      /\ Linked(chain) /\ Within(entries, chain)
      /\ Len(entries) = appends => entries = sink /\ \A i \in 1..Len(entries) : entries[i].sequence = i
  BY DEF AuditInv
<1>2. \A e \in U : Contains(sink, e)
  BY DEF ToSet, Contains
<1> HIDE DEF U
<1>3. DOMAIN entries = 1..Len(entries) /\ Len(entries) \in Nat
  BY <1>1
<1>4. VerifiesUntilPruned
  <2>1. VerifyChain(entries) = 0 <=> \A i \in 1..Len(entries) : ~Bad(entries, i)
    BY <1>3, ChainFinds
  <2>2. (\A i \in 1..Len(entries) : ~Bad(entries, i)) => entries = chain
    BY <1>1, LinkedIsWhole
  <2>3. entries = chain => \A i \in 1..Len(entries) : ~Bad(entries, i)
    BY <1>1 DEF Linked, Bad
  <2> QED  BY <2>1, <2>2, <2>3 DEF VerifiesUntilPruned, Gap
<1>5. \A i \in DOMAIN entries : i \in 1..Len(entries) /\ entries[i] \in U
  <2>1. entries \in Seq(U)
    BY <1>1
  <2> QED  BY <2>1
<1>6. ChangesFound
  <2> SUFFICES ASSUME entries = chain, NEW i \in DOMAIN entries
               PROVE  /\ \A what \in What \ {entries[i].what} : EditTold(entries, i, what)
                      /\ i < Len(entries) => LossFound(entries, i)
    BY DEF ChangesFound, Gap
  <2>1. Linked(entries) /\ entries \in Seq(U) /\ (\A e \in U : IsEntry(e)) /\ i \in 1..Len(entries)
    BY <1>1, <1>5
  <2>2. \A what \in What \ {entries[i].what} : EditTold(entries, i, what)
    <3> SUFFICES ASSUME NEW what \in What PROVE EditTold(entries, i, what)
      OBVIOUS
    <3>1. entries[i].what \in What
      BY <1>1, <1>5 DEF IsEntry
    <3>2. OneField(entries[i].what, what) => ~ SameRun(entries[i].what, what)
      BY <3>1, OneFieldTells
    <3>3. ~ SameRun(entries[i].what, what) => EditFound(entries, i, what)
      BY <2>1, EditIsFound, Zenon
    <3>4. SameRun(entries[i].what, what) => VerifyChain([entries EXCEPT ![i].what = what]) = 0
      BY <2>1, EditIsUnseen, Zenon
    <3> QED  BY <3>2, <3>3, <3>4, Zenon DEF EditTold
  <2>3. i < Len(entries) => LossFound(entries, i)
    BY <2>1, LossIsFound, Zenon
  <2> QED  BY <2>2, <2>3
<1>7. Forwarded
  <2>1. \A i \in DOMAIN entries : Contains(sink, entries[i])
    BY <1>2, <1>5
  <2> QED  BY <1>1, <1>3, <2>1, Zenon DEF Forwarded
<1> QED  BY <1>4, <1>6, <1>7 DEF AuditSafe

-----------------------------------------------------------------------------
(* Patterns. *)

\* What a pattern character makes of the part of the text between two cuts.
Piece(p, t, i, a, b) == IF p[i] = "*" THEN a <= b ELSE b = a + 1 /\ p[i] \in {"?", t[b]}

\* The text after the first ti - 1 characters fits the pattern from pi on.
FitsFrom(p, t, pi, ti) == \E cut \in [pi..(Len(p) + 1) -> 0..Len(t)] :
                             /\ cut[pi] = ti - 1 /\ cut[Len(p) + 1] = Len(t)
                             /\ \A i \in pi..Len(p) : Piece(p, t, i, cut[i], cut[i + 1])

\* One step of glob_match_helper.
Walked(p, t, pi, next, ti) ==
    IF pi > Len(p) THEN ti > Len(t)
    ELSE IF p[pi] = "*" THEN \E k \in ti..(Len(t) + 1) : next[k]
    ELSE ti <= Len(t) /\ p[pi] \in {"?", t[ti]} /\ next[ti + 1]

Walks(p, t, a, g) == g = [pi \in a..(Len(p) + 1) |-> [ti \in 1..(Len(t) + 1) |-> Walked(p, t, pi, g[pi + 1], ti)]]

RowIs(p, t, g, pi) == g[pi] = [ti \in 1..(Len(t) + 1) |-> Walked(p, t, pi, g[pi + 1], ti)]

\* What the walk says of one row.
LEMMA WalkIs == ASSUME NEW p, NEW t, NEW a, NEW g, Walks(p, t, a, g), NEW pi \in a..(Len(p) + 1)
                PROVE  RowIs(p, t, g, pi)
BY Zenon DEF Walks, RowIs

\* The helper returns for every pattern: it only calls itself on a later place.
LEMMA WalkExists == ASSUME NEW p, NEW t, Len(p) \in Nat PROVE \E g : Walks(p, t, 1, g)
<1> DEFINE n == Len(p) + 1
           T == {a \in 1..n : \E g : Walks(p, t, a, g)}
<1>1. n \in T
  <2> DEFINE row == [ti \in 1..(Len(t) + 1) |-> ti > Len(t)]
             g == [pi \in n..n |-> row]
  <2>1. n \in 1..n /\ \A pi \in n..n : pi > Len(p)
    OBVIOUS
  <2>2. \A pi \in n..n : [ti \in 1..(Len(t) + 1) |-> Walked(p, t, pi, g[pi + 1], ti)] = row
    BY <2>1 DEF Walked
  <2>3. g = [pi \in n..n |-> [ti \in 1..(Len(t) + 1) |-> Walked(p, t, pi, g[pi + 1], ti)]]
    <3> HIDE DEF row, n
    <3> QED  BY <2>2
  <2>4. Walks(p, t, n, g)
    BY <2>3, Zenon DEF Walks
  <2> HIDE DEF g
  <2> QED  BY <2>1, <2>4
<1>2. ASSUME NEW a \in T, a # 1 PROVE a - 1 \in T
  <2>1. PICK g : Walks(p, t, a, g)
    OBVIOUS
  <2> DEFINE b == a - 1
             row == [ti \in 1..(Len(t) + 1) |-> Walked(p, t, b, g[a], ti)]
             h == [pi \in b..n |-> IF pi = b THEN row ELSE g[pi]]
  <2>2. a \in 1..n /\ b \in 1..n /\ b + 1 = a /\ \A pi \in b..n : pi = b \/ pi \in a..n
    BY <1>2
  <2>3. \A pi \in a..n : pi # b /\ pi \in b..n /\ (pi + 1 \in a..n \/ pi = n) /\ pi + 1 # b
    BY <2>2
  <2> HIDE DEF row, b, n
  <2>4. \A pi \in b..n : h[pi] = IF pi = b THEN row ELSE g[pi]
    OBVIOUS
  <2> HIDE DEF h
  <2>5. \A pi \in b..n : h[pi] = [ti \in 1..(Len(t) + 1) |-> Walked(p, t, pi, h[pi + 1], ti)]
    <3> SUFFICES ASSUME NEW pi \in b..n PROVE h[pi] = [ti \in 1..(Len(t) + 1) |-> Walked(p, t, pi, h[pi + 1], ti)]
      OBVIOUS
    <3>1. CASE pi = b
      <4>1. h[pi] = row /\ h[pi + 1] = g[a]
        <5>1. a \in a..n /\ a # b /\ a \in b..n
          BY <2>2, <2>3
        <5> QED  BY <2>2, <2>4, <3>1, <5>1
      <4> QED  BY <3>1, <4>1, Zenon DEF row
    <3>2. CASE pi # b
      <4>1. pi \in a..n /\ h[pi] = g[pi]
        BY <2>2, <2>4, <3>2
      <4>2. g[pi] = [ti \in 1..(Len(t) + 1) |-> Walked(p, t, pi, g[pi + 1], ti)]
        <5>1. pi \in a..(Len(p) + 1)
          BY <4>1 DEF n
        <5>2. RowIs(p, t, g, pi)
          BY <2>1, <5>1, WalkIs, Zenon
        <5> QED  BY <5>2, Zenon DEF RowIs
      <4>3. CASE pi = n
        <5>1. pi > Len(p)
          BY <4>3 DEF n
        <5>2. \A x, ti : Walked(p, t, pi, x, ti) <=> ti > Len(t)
          BY <5>1 DEF Walked
        <5>3. \A ti \in 1..(Len(t) + 1) : Walked(p, t, pi, h[pi + 1], ti) = Walked(p, t, pi, g[pi + 1], ti)
          BY <5>1, Zenon DEF Walked
        <5> QED  BY <4>1, <4>2, <5>3, Zenon
      <4>4. CASE pi # n
        <5>1. h[pi + 1] = g[pi + 1]
          BY <2>2, <2>3, <2>4, <4>1, <4>4
        <5> QED  BY <4>1, <4>2, <5>1, Zenon
      <4> QED  BY <4>3, <4>4
    <3> QED  BY <3>1, <3>2
  <2>6. h = [pi \in b..n |-> [ti \in 1..(Len(t) + 1) |-> Walked(p, t, pi, h[pi + 1], ti)]]
    <3>1. h = [pi \in b..n |-> h[pi]]
      BY Zenon DEF h
    <3> QED  BY <2>5, <3>1, Zenon
  <2>7. Walks(p, t, b, h)
    BY <2>6, Zenon DEF Walks, n
  <2>8. b \in T
    BY <2>2, <2>7 DEF n
  <2> QED  BY <2>8 DEF b
<1>3. 1 \in T
  <2>1. T \in SUBSET Nat /\ T # {}
    BY <1>1
  <2>2. \A a \in T : a \in Nat /\ a # 0
    OBVIOUS
  <2> HIDE DEF T
  <2>3. PICK a \in T : \A b \in T : a <= b
    BY <2>1, LeastNat
  <2>4. CASE a = 1
    BY <2>4
  <2>5. CASE a # 1
    <3>1. a - 1 \in T
      BY <1>2, <2>5
    <3> QED  BY <2>2, <2>3, <3>1
  <2> QED  BY <2>4, <2>5
<1> QED  BY <1>3

\* A place in the text is as good as the pattern says of what follows it.
Unfolds(p, t, pi, ti) ==
    FitsFrom(p, t, pi, ti) <=> \E k \in 1..(Len(t) + 1) : Piece(p, t, pi, ti - 1, k - 1) /\ FitsFrom(p, t, pi + 1, k)

\* A text fits from a place as the pattern character at the place tells.
LEMMA FitsUnfolds ==
    ASSUME NEW p, NEW t, Len(p) \in Nat, Len(t) \in Nat,
           NEW pi \in 1..Len(p), NEW ti \in 1..(Len(t) + 1)
    PROVE  Unfolds(p, t, pi, ti)
<1> DEFINE n == Len(p)
           m == Len(t)
<1>1. n \in Nat /\ m \in Nat /\ pi \in 1..n /\ pi \in Nat /\ ti \in 1..(m + 1) /\ ti - 1 \in 0..m
  OBVIOUS
<1> HIDE DEF n, m
<1>2. /\ pi \in pi..n /\ pi \in pi..(n + 1) /\ pi + 1 \in pi..(n + 1) /\ pi + 1 \in (pi + 1)..(n + 1) /\ n + 1 \in (pi + 1)..(n + 1)
      /\ \A i \in (pi + 1)..n : i \in pi..n /\ i \in (pi + 1)..(n + 1) /\ i + 1 \in (pi + 1)..(n + 1)
      /\ \A i \in (pi + 1)..(n + 1) : i \in pi..(n + 1) /\ i # pi
      /\ \A i \in pi..n : i = pi \/ i \in (pi + 1)..n
  BY <1>1
<1>3. ASSUME FitsFrom(p, t, pi, ti)
      PROVE  \E k \in 1..(m + 1) : Piece(p, t, pi, ti - 1, k - 1) /\ FitsFrom(p, t, pi + 1, k)
  <2>1. PICK cut \in [pi..(n + 1) -> 0..m] : /\ cut[pi] = ti - 1 /\ cut[n + 1] = m
                                             /\ \A i \in pi..n : Piece(p, t, i, cut[i], cut[i + 1])
    BY <1>3, Zenon DEF FitsFrom, n, m
  <2> DEFINE rest == [i \in (pi + 1)..(n + 1) |-> cut[i]]
             k == cut[pi + 1] + 1
  <2>2. k \in 1..(m + 1) /\ k - 1 = cut[pi + 1] /\ cut[pi + 1] \in 0..m
    BY <1>1, <1>2, <2>1
  <2>3. rest \in [(pi + 1)..(n + 1) -> 0..m] /\ \A i \in (pi + 1)..(n + 1) : rest[i] = cut[i]
    BY <1>2, <2>1
  <2> HIDE DEF rest
  <2>4. rest[pi + 1] = k - 1 /\ rest[n + 1] = m
    BY <1>2, <2>1, <2>2, <2>3
  <2> HIDE DEF k
  <2>5. \A i \in (pi + 1)..n : Piece(p, t, i, rest[i], rest[i + 1])
    BY <1>2, <2>1, <2>3
  <2>6. FitsFrom(p, t, pi + 1, k)
    BY <2>3, <2>4, <2>5, Zenon DEF FitsFrom, n, m
  <2>7. Piece(p, t, pi, ti - 1, k - 1)
    BY <1>2, <2>1, <2>2
  <2> QED  BY <2>2, <2>6, <2>7
<1>4. ASSUME NEW k \in 1..(m + 1), Piece(p, t, pi, ti - 1, k - 1), FitsFrom(p, t, pi + 1, k)
      PROVE  FitsFrom(p, t, pi, ti)
  <2>1. PICK rest \in [(pi + 1)..(n + 1) -> 0..m] : /\ rest[pi + 1] = k - 1 /\ rest[n + 1] = m
                                             /\ \A i \in (pi + 1)..n : Piece(p, t, i, rest[i], rest[i + 1])
    BY <1>4, Zenon DEF FitsFrom, n, m
  <2> DEFINE cut == [i \in pi..(n + 1) |-> IF i = pi THEN ti - 1 ELSE rest[i]]
  <2>2. \A i \in pi..(n + 1) : i = pi \/ i \in (pi + 1)..(n + 1)
    BY <1>1
  <2>3. cut \in [pi..(n + 1) -> 0..m]
    BY <1>1, <2>1, <2>2
  <2>4. cut[pi] = ti - 1 /\ \A i \in (pi + 1)..(n + 1) : cut[i] = rest[i]
    BY <1>2
  <2> HIDE DEF cut
  <2>5. cut[n + 1] = m
    BY <1>2, <2>1, <2>4
  <2>6. \A i \in pi..n : Piece(p, t, i, cut[i], cut[i + 1])
    <3> SUFFICES ASSUME NEW i \in pi..n PROVE Piece(p, t, i, cut[i], cut[i + 1])
      OBVIOUS
    <3>1. CASE i = pi
      <4>1. cut[i] = ti - 1 /\ cut[i + 1] = k - 1
        BY <1>2, <2>1, <2>4, <3>1
      <4> QED  BY <1>4, <3>1, <4>1
    <3>2. CASE i # pi
      <4>1. i \in (pi + 1)..n /\ cut[i] = rest[i] /\ cut[i + 1] = rest[i + 1]
        BY <1>2, <2>4, <3>2
      <4> QED  BY <2>1, <4>1
    <3> QED  BY <3>1, <3>2
  <2> QED  BY <2>3, <2>4, <2>5, <2>6, Zenon DEF FitsFrom, n, m
<1> QED  BY <1>3, <1>4, Zenon DEF n, m, Unfolds

\* The helper matches what fits.
LEMMA WalkFits ==
    ASSUME NEW p, NEW t, Len(p) \in Nat, Len(t) \in Nat, NEW g, Walks(p, t, 1, g)
    PROVE  \A pi \in 1..(Len(p) + 1) : \A ti \in 1..(Len(t) + 1) : g[pi][ti] <=> FitsFrom(p, t, pi, ti)
<1> DEFINE n == Len(p)
           m == Len(t)
           T == {pi \in 1..(n + 1) : ~ \A ti \in 1..(m + 1) : g[pi][ti] <=> FitsFrom(p, t, pi, ti)}
<1>1. n \in Nat /\ m \in Nat
  OBVIOUS
<1>2. \A pi \in 1..(n + 1) : \A ti \in 1..(m + 1) : g[pi][ti] = Walked(p, t, pi, g[pi + 1], ti)
  <2> SUFFICES ASSUME NEW pi \in 1..(n + 1), NEW ti \in 1..(m + 1) PROVE g[pi][ti] = Walked(p, t, pi, g[pi + 1], ti)
    OBVIOUS
  <2>1. g[pi] = [x \in 1..(m + 1) |-> Walked(p, t, pi, g[pi + 1], x)]
    <3>1. RowIs(p, t, g, pi)
      BY WalkIs, Zenon
    <3> QED  BY <3>1, Zenon DEF RowIs
  <2> HIDE DEF n, m
  <2> QED  BY <2>1, Zenon
<1> HIDE DEF n, m
<1>3. ASSUME NEW ti \in 1..(m + 1) PROVE FitsFrom(p, t, n + 1, ti) <=> ti > m
  <2>1. ASSUME FitsFrom(p, t, n + 1, ti) PROVE ti > m
    <3>1. PICK cut : cut[n + 1] = ti - 1 /\ cut[n + 1] = m
      BY <2>1, Zenon DEF FitsFrom, n, m
    <3> QED  BY <1>1, <3>1
  <2>2. ASSUME ti > m PROVE FitsFrom(p, t, n + 1, ti)
    <3> DEFINE cut == [i \in (n + 1)..(n + 1) |-> m]
    <3>1. cut \in [(n + 1)..(n + 1) -> 0..m] /\ cut[n + 1] = m /\ ti - 1 = m /\ (n + 1)..n = {}
      BY <1>1, <2>2
    <3> HIDE DEF cut
    <3>2. \A i \in (n + 1)..n : Piece(p, t, i, cut[i], cut[i + 1])
      BY <3>1
    <3>3. cut[n + 1] = ti - 1
      BY <3>1
    <3> QED  BY <3>1, <3>2, <3>3, Zenon DEF FitsFrom, n, m
  <2> QED  BY <2>1, <2>2
<1>4. T = {}
  <2> SUFFICES ASSUME T # {} PROVE FALSE
    OBVIOUS
  <2>1. T \in SUBSET Nat /\ \A x \in T : x <= n + 1
    BY <1>1
  <2>2. PICK pi \in T : \A x \in T : x <= pi
    <3> HIDE DEF T
    <3>1. n + 1 \in Nat
      BY <1>1
    <3> QED  BY <2>1, <3>1, GreatestNat
  <2>3. pi \in 1..(n + 1)
    OBVIOUS
  <2>4. PICK ti \in 1..(m + 1) : ~ (g[pi][ti] <=> FitsFrom(p, t, pi, ti))
    BY Zenon
  <2>5. g[pi][ti] = Walked(p, t, pi, g[pi + 1], ti)
    BY <1>2, <2>3, <2>4
  <2>6. CASE pi = n + 1
    <3>1. pi > n
      BY <1>1, <2>6
    <3>2. Walked(p, t, pi, g[pi + 1], ti) = (ti > m)
      BY <3>1, Zenon DEF Walked, n, m
    <3>3. FitsFrom(p, t, pi, ti) <=> ti > m
      BY <1>3, <2>4, <2>6
    <3> QED  BY <2>4, <2>5, <3>2, <3>3, Zenon
  <2>7. CASE pi # n + 1
    <3>1. pi \in 1..n /\ pi + 1 \in 1..(n + 1) /\ ~ (pi > n) /\ ~ (pi + 1 <= pi)
      <4> HIDE DEF T
      <4> QED  BY <1>1, <2>3, <2>7
    <3>2. pi + 1 \notin T
      <4> HIDE DEF T
      <4> QED  BY <2>2, <3>1
    <3>3. \A k \in 1..(m + 1) : g[pi + 1][k] <=> FitsFrom(p, t, pi + 1, k)
      BY <3>1, <3>2, Zenon
    <3> HIDE DEF T
    <3>4. FitsFrom(p, t, pi, ti) <=> \E k \in 1..(m + 1) : Piece(p, t, pi, ti - 1, k - 1) /\ FitsFrom(p, t, pi + 1, k)
      <4>1. ti \in 1..(Len(t) + 1) /\ pi \in 1..Len(p) /\ Len(p) \in Nat /\ Len(t) \in Nat
        BY <2>4, <3>1 DEF n, m
      <4>2. Unfolds(p, t, pi, ti)
        BY <4>1, FitsUnfolds, Zenon
      <4> QED  BY <4>2, Zenon DEF Unfolds, m
    <3>5. CASE p[pi] = "*"
      <4>1. Walked(p, t, pi, g[pi + 1], ti) <=> \E k \in ti..(m + 1) : g[pi + 1][k]
        BY <3>1, <3>5, Zenon DEF Walked, n, m
      <4>2. \A k \in 1..(m + 1) : Piece(p, t, pi, ti - 1, k - 1) <=> k \in ti..(m + 1)
        BY <1>1, <3>5 DEF Piece
      <4>3. \A k \in ti..(m + 1) : k \in 1..(m + 1)
        BY <1>1
      <4>4. Walked(p, t, pi, g[pi + 1], ti) <=> FitsFrom(p, t, pi, ti)
        BY <3>3, <3>4, <4>1, <4>2, <4>3, Zenon
      <4> QED  BY <2>4, <2>5, <4>4, Zenon
    <3>6. CASE p[pi] # "*"
      <4>1. Walked(p, t, pi, g[pi + 1], ti) <=> ti <= m /\ p[pi] \in {"?", t[ti]} /\ g[pi + 1][ti + 1]
        BY <3>1, <3>6, Zenon DEF Walked, n, m
      <4>2. \A k \in 1..(m + 1) : Piece(p, t, pi, ti - 1, k - 1) <=> k = ti + 1 /\ p[pi] \in {"?", t[ti]}
        <5> SUFFICES ASSUME NEW k \in 1..(m + 1)
                     PROVE  Piece(p, t, pi, ti - 1, k - 1) <=> k = ti + 1 /\ p[pi] \in {"?", t[ti]}
          OBVIOUS
        <5>1. Piece(p, t, pi, ti - 1, k - 1) <=> k - 1 = (ti - 1) + 1 /\ p[pi] \in {"?", t[k - 1]}
          BY <3>6 DEF Piece
        <5>2. (k - 1 = (ti - 1) + 1 <=> k = ti + 1) /\ (k = ti + 1 => k - 1 = ti)
          BY <1>1
        <5> QED  BY <5>1, <5>2
      <4>3. ti + 1 \in 1..(m + 1) <=> ti <= m
        BY <1>1
      <4>4. Walked(p, t, pi, g[pi + 1], ti) <=> FitsFrom(p, t, pi, ti)
        BY <3>3, <3>4, <4>1, <4>2, <4>3, Zenon
      <4> QED  BY <2>4, <2>5, <4>4, Zenon
    <3> QED  BY <3>5, <3>6
  <2> QED  BY <2>6, <2>7
<1> QED  BY <1>4, Zenon DEF n, m

\* glob_match is exact.
LEMMA GlobIsExact == ASSUME NEW S, NEW p \in Seq(S), NEW t \in Seq(S) PROVE GlobMatch(p, t) <=> Fits(p, t)
<1> DEFINE G(g) == g = [pi \in 1..(Len(p) + 1) |->
                          [ti \in 1..(Len(t) + 1) |->
                             IF pi > Len(p) THEN ti > Len(t)
                             ELSE IF p[pi] = "*" THEN \E k \in ti..(Len(t) + 1) : g[pi + 1][k]
                             ELSE ti <= Len(t) /\ p[pi] \in {"?", t[ti]} /\ g[pi + 1][ti + 1]]]
           gm == CHOOSE g : G(g)
<1>1. Len(p) \in Nat /\ Len(t) \in Nat /\ DOMAIN p = 1..Len(p)
  OBVIOUS
<1>2. \A g : G(g) <=> Walks(p, t, 1, g)
  BY Zenon DEF Walks, Walked
<1>3. GlobMatch(p, t) = gm[1][1]
  BY Zenon DEF GlobMatch
<1>4. \E g : G(g)
  BY <1>1, <1>2, WalkExists, Zenon
<1>5. G(gm)
  BY <1>4, Zenon
<1>6. Walks(p, t, 1, gm)
  BY <1>2, <1>5, Zenon
<1> HIDE DEF gm, G
<1>7. 1 \in 1..(Len(p) + 1) /\ 1 \in 1..(Len(t) + 1)
  BY <1>1
<1>8. gm[1][1] <=> FitsFrom(p, t, 1, 1)
  BY <1>1, <1>6, <1>7, WalkFits, Zenon
<1>9. FitsFrom(p, t, 1, 1) <=> Fits(p, t)
  <2>1. 1 - 1 = 0
    OBVIOUS
  <2> QED  BY <1>1, <2>1, Zenon DEF FitsFrom, Fits, Piece
<1> QED  BY <1>3, <1>8, <1>9, Zenon

-----------------------------------------------------------------------------
(* Roles. *)

\* Members of a list from which some are dropped.
MembersKept(S, list, dropped) ==
    /\ Retain(list, dropped) \in Seq(S)
    /\ \A x : (\E k \in 1..Len(Retain(list, dropped)) : Retain(list, dropped)[k] = x)
              <=> (\E i \in 1..Len(list) : list[i] = x) /\ x \notin dropped

\* Retain keeps every member that is not dropped and adds none.
LEMMA RetainKeepsMembers == ASSUME NEW S, NEW list \in Seq(S), NEW dropped PROVE MembersKept(S, list, dropped)
BY Retained, Zenon DEF MembersKept

\* The characters of patterns, those of the default roles named.
Char == STRING \cup {"*", "a", "."}

\* Sequences of one and of three elements.
LEMMA ShortSeqs ==
    ASSUME NEW S, NEW x \in S, NEW y \in S, NEW z \in S PROVE << x >> \in Seq(S) /\ << x, y, z >> \in Seq(S)
OBVIOUS

\* The patterns of the default roles are of those characters, ...
LEMMA ShortPatterns == << "*" >> \in Seq(Char) /\ << "a", ".", "*" >> \in Seq(Char)
<1>1. "*" \in Char /\ "a" \in Char /\ "." \in Char
  BY Zenon DEF Char
<1> QED  BY <1>1, ShortSeqs, Zenon

\* ... and so are all patterns and resources.
LEMMA PatternsAreTexts == Patterns \cup Resources \subseteq Seq(Char)
<1>1. STRING \subseteq Char
  BY DEF Char
<1> QED  BY <1>1, GlobAssumption, SeqWiden

HasRole(u, r) == u \in DOMAIN userRoles /\ \E i \in 1..Len(userRoles[u]) : userRoles[u][i] = r

RbacInv == /\ \A r \in DOMAIN roles : \A g \in roles[r] : g[1] \in Seq(Char)
           /\ \A u \in DOMAIN userRoles : userRoles[u] \in Seq(DOMAIN roles)
           /\ \A a \in assigned : a = <<a[1], a[2]>>
           /\ \A u, r : <<u, r>> \in assigned <=> HasRole(u, r)

\* At the start every user has no role.
LEMMA RbacBegins == RbacInit => RbacInv
<1> SUFFICES ASSUME RbacInit PROVE RbacInv
  OBVIOUS
<1>1. roles = DefaultRoles /\ userRoles = << >> /\ assigned = {}
  BY DEF RbacInit
<1>2. \A r \in DOMAIN roles : \A g \in roles[r] : g[1] \in Seq(Char)
  <2>1. << "*" >> \in Seq(Char) /\ << "a", ".", "*" >> \in Seq(Char)
    BY ShortPatterns
  <2>2. \A r \in DOMAIN roles : r = "admin" \/ r = "read_only" \/ r = "analyst"
    BY <1>1 DEF DefaultRoles
  <2>3. /\ roles["admin"] = {<< << "*" >>, p >> : p \in Permissions}
        /\ roles["read_only"] = {<< << "*" >>, "read" >>}
        /\ roles["analyst"] = {<< << "*" >>, "read" >>} \cup {<< << "a", ".", "*" >>, p >> : p \in {"write", "create"}}
    BY <1>1 DEF DefaultRoles
  <2>4. \A g \in roles["admin"] : g[1] = << "*" >>
    BY <2>3
  <2>5. \A g \in roles["read_only"] : g[1] = << "*" >>
    BY <2>3
  <2>6. \A g \in roles["analyst"] : g[1] = << "*" >> \/ g[1] = << "a", ".", "*" >>
    BY <2>3
  <2> QED  BY <2>1, <2>2, <2>4, <2>5, <2>6
<1>3. DOMAIN userRoles = {}
  BY <1>1
<1> QED  BY <1>1, <1>2, <1>3 DEF RbacInv, HasRole

\* A role is created with one grant, on a pattern; the roles there are stay.
LEMMA CreateRoleKeeps ==
    ASSUME RbacInv, NEW name, NEW pattern \in Patterns, NEW p, CreateRole(name, {<<pattern, p>>})
    PROVE  RbacInv'
<1>1. /\ \A r \in DOMAIN roles : \A g \in roles[r] : g[1] \in Seq(Char)
      /\ \A u \in DOMAIN userRoles : userRoles[u] \in Seq(DOMAIN roles)
      /\ \A a \in assigned : a = <<a[1], a[2]>>
      /\ \A u, r : <<u, r>> \in assigned <=> HasRole(u, r)
  BY DEF RbacInv
<1>2. /\ userRoles' = userRoles /\ assigned' = assigned /\ pattern \in Seq(Char)
      /\ roles' = [r \in DOMAIN roles \cup {name} |-> IF r = name THEN {<<pattern, p>>} ELSE roles[r]]
  BY PatternsAreTexts DEF CreateRole
<1>3. DOMAIN roles \subseteq DOMAIN roles' /\ \A r \in DOMAIN roles' : roles'[r] = {<<pattern, p>>} \/ (r \in DOMAIN roles /\ roles'[r] = roles[r])
  BY <1>2
<1>4. \A r \in DOMAIN roles' : \A g \in roles'[r] : g[1] \in Seq(Char)
  BY <1>1, <1>2, <1>3
<1>5. \A u \in DOMAIN userRoles' : userRoles'[u] \in Seq(DOMAIN roles')
  BY <1>1, <1>2, <1>3, SeqWiden
<1>6. ASSUME NEW u, NEW r PROVE <<u, r>> \in assigned' <=> HasRole(u, r)'
  <2>1. HasRole(u, r)' <=> HasRole(u, r)
    BY <1>2 DEF HasRole
  <2> QED  BY <1>1, <1>2, <2>1
<1> QED  BY <1>1, <1>2, <1>4, <1>5, <1>6 DEF RbacInv

\* A role is assigned once, however often it is assigned.
LEMMA AssignRoleKeeps ==
    ASSUME RbacInv, NEW v, NEW name, AssignRole(v, name) PROVE RbacInv'
<1> DEFINE had == IF v \in DOMAIN userRoles THEN userRoles[v] ELSE << >>
           has == IF Contains(had, name) THEN had ELSE Append(had, name)
<1>1. /\ \A r \in DOMAIN roles : \A g \in roles[r] : g[1] \in Seq(Char)
      /\ \A u \in DOMAIN userRoles : userRoles[u] \in Seq(DOMAIN roles)
      /\ \A a \in assigned : a = <<a[1], a[2]>>
      /\ \A u, r : <<u, r>> \in assigned <=> HasRole(u, r)
  BY DEF RbacInv
<1>2. /\ name \in DOMAIN roles /\ roles' = roles /\ assigned' = assigned \cup {<<v, name>>}
      /\ userRoles' = [u \in DOMAIN userRoles \cup {v} |-> IF u = v THEN has ELSE userRoles[u]]
  BY DEF AssignRole
<1>3. had \in Seq(DOMAIN roles) /\ Len(had) \in Nat /\ DOMAIN had = 1..Len(had)
  <2>1. CASE v \in DOMAIN userRoles
    <3>1. had = userRoles[v]
      BY <2>1
    <3> HIDE DEF had
    <3> QED  BY <1>1, <2>1, <3>1
  <2>2. CASE v \notin DOMAIN userRoles
    <3>1. had = << >>
      BY <2>2
    <3> HIDE DEF had
    <3> QED  BY <3>1
  <2> QED  BY <2>1, <2>2
<1>4. \A r : HasRole(v, r) <=> \E i \in 1..Len(had) : had[i] = r
  BY DEF HasRole
<1>5. Contains(had, name) <=> \E i \in 1..Len(had) : had[i] = name
  BY <1>3 DEF Contains
<1> HIDE DEF had
<1>6. has \in Seq(DOMAIN roles) /\ \A r : (\E i \in 1..Len(has) : has[i] = r) <=> (\E i \in 1..Len(had) : had[i] = r) \/ r = name
  <2>1. CASE Contains(had, name)
    BY <1>3, <1>5, <2>1
  <2>2. CASE ~ Contains(had, name)
    <3>1. has = Append(had, name)
      BY <2>2
    <3>2. /\ has \in Seq(DOMAIN roles) /\ Len(has) = Len(had) + 1 /\ has[Len(had) + 1] = name
          /\ \A i \in 1..Len(had) : has[i] = had[i]
      <4> HIDE DEF has
      <4> QED  BY <1>2, <1>3, <3>1
    <3> HIDE DEF has
    <3>3. \A i \in 1..Len(has) : i \in 1..Len(had) \/ i = Len(had) + 1
      BY <1>3, <3>2
    <3>4. Len(had) + 1 \in 1..Len(has) /\ \A i \in 1..Len(had) : i \in 1..Len(has)
      BY <1>3, <3>2
    <3> QED  BY <3>2, <3>3, <3>4
  <2> QED  BY <2>1, <2>2
<1> HIDE DEF has
<1>7. \A u \in DOMAIN userRoles' : userRoles'[u] \in Seq(DOMAIN roles')
  BY <1>1, <1>2, <1>6
<1>8. ASSUME NEW u, NEW r PROVE <<u, r>> \in assigned' <=> HasRole(u, r)'
  <2>1. CASE u = v
    <3>1. HasRole(u, r)' <=> \E i \in 1..Len(has) : has[i] = r
      BY <1>2, <2>1 DEF HasRole
    <3>2. <<u, r>> \in assigned' <=> <<v, r>> \in assigned \/ r = name
      BY <1>2, <2>1
    <3> QED  BY <1>1, <1>4, <1>6, <3>1, <3>2
  <2>2. CASE u # v
    <3>1. HasRole(u, r)' <=> HasRole(u, r)
      BY <1>2, <2>2 DEF HasRole
    <3>2. <<u, r>> \in assigned' <=> <<u, r>> \in assigned
      BY <1>2, <2>2
    <3> QED  BY <1>1, <3>1, <3>2
  <2> QED  BY <2>1, <2>2
<1>9. \A a \in assigned' : a = <<a[1], a[2]>>
  BY <1>1, <1>2
<1> QED  BY <1>1, <1>2, <1>7, <1>8, <1>9 DEF RbacInv

\* A role revoked is gone from the list of the user.
LEMMA RevokeRoleKeeps ==
    ASSUME RbacInv, NEW v, NEW name, RevokeRole(v, name) PROVE RbacInv'
<1> DEFINE had == userRoles[v]
           has == Retain(had, {name})
<1>1. /\ \A r \in DOMAIN roles : \A g \in roles[r] : g[1] \in Seq(Char)
      /\ \A u \in DOMAIN userRoles : userRoles[u] \in Seq(DOMAIN roles)
      /\ \A a \in assigned : a = <<a[1], a[2]>>
      /\ \A u, r : <<u, r>> \in assigned <=> HasRole(u, r)
  BY DEF RbacInv
<1>2. /\ v \in DOMAIN userRoles /\ roles' = roles /\ assigned' = assigned \ {<<v, name>>}
      /\ userRoles' = [userRoles EXCEPT ![v] = has]
  BY DEF RevokeRole
<1>3. had \in Seq(DOMAIN roles)
  BY <1>1, <1>2
<1>4. \A r : HasRole(v, r) <=> \E i \in 1..Len(had) : had[i] = r
  BY <1>2 DEF HasRole
<1> HIDE DEF had
<1>6. has \in Seq(DOMAIN roles) /\ \A r : (\E i \in 1..Len(has) : has[i] = r) <=> (\E i \in 1..Len(had) : had[i] = r) /\ r # name
  <2>1. MembersKept(DOMAIN roles, had, {name})
    BY <1>3, RetainKeepsMembers, Zenon
  <2> QED  BY <2>1 DEF MembersKept
<1> HIDE DEF has
<1>7. \A u \in DOMAIN userRoles' : userRoles'[u] \in Seq(DOMAIN roles')
  BY <1>1, <1>2, <1>6
<1>8. ASSUME NEW u, NEW r PROVE <<u, r>> \in assigned' <=> HasRole(u, r)'
  <2>1. CASE u = v
    <3>1. HasRole(u, r)' <=> \E i \in 1..Len(has) : has[i] = r
      BY <1>2, <2>1 DEF HasRole
    <3>2. <<u, r>> \in assigned' <=> <<v, r>> \in assigned /\ r # name
      BY <1>2, <2>1
    <3> QED  BY <1>1, <1>4, <1>6, <3>1, <3>2
  <2>2. CASE u # v
    <3>1. HasRole(u, r)' <=> HasRole(u, r)
      BY <1>2, <2>2 DEF HasRole
    <3>2. <<u, r>> \in assigned' <=> <<u, r>> \in assigned
      BY <1>2, <2>2
    <3> QED  BY <1>1, <3>1, <3>2
  <2> QED  BY <2>1, <2>2
<1>9. \A a \in assigned' : a = <<a[1], a[2]>>
  BY <1>1, <1>2
<1> QED  BY <1>1, <1>2, <1>7, <1>8, <1>9 DEF RbacInv

\* Every operation keeps the invariant.
LEMMA RbacKeeps == RbacInv /\ [RbacNext]_rbac_vars => RbacInv'
<1> SUFFICES ASSUME RbacInv, [RbacNext]_rbac_vars PROVE RbacInv'
  OBVIOUS
<1>1. CASE UNCHANGED rbac_vars
  <2>1. roles' = roles /\ userRoles' = userRoles /\ assigned' = assigned
    BY <1>1 DEF rbac_vars
  <2> QED  BY <2>1 DEF RbacInv, HasRole
<1>2. CASE RbacNext
  <2>1. CASE \E name \in Custom : \E pattern \in Patterns, p \in Permissions : CreateRole(name, {<<pattern, p>>})
    BY <2>1, CreateRoleKeeps
  <2>2. CASE \E u \in Users, name \in DOMAIN roles : AssignRole(u, name) \/ RevokeRole(u, name)
    BY <2>2, AssignRoleKeeps, RevokeRoleKeeps
  <2> QED  BY <1>2, <2>1, <2>2 DEF RbacNext
<1> QED  BY <1>1, <1>2

\* check is exact.
LEMMA RbacIsExact == RbacInv => ChecksExact
<1> SUFFICES ASSUME RbacInv, NEW u \in Users, NEW r \in Resources, NEW p \in Permissions
             PROVE  Check(u, r, p) <=> \E a \in assigned : a[1] = u /\ \E g \in roles[a[2]] : g[2] = p /\ Fits(g[1], r)
  BY Zenon DEF ChecksExact
<1>1. /\ \A x \in DOMAIN roles : \A g \in roles[x] : g[1] \in Seq(Char)
      /\ \A x \in DOMAIN userRoles : userRoles[x] \in Seq(DOMAIN roles)
      /\ \A a \in assigned : a = <<a[1], a[2]>>
      /\ \A x, y : <<x, y>> \in assigned <=> HasRole(x, y)
  BY DEF RbacInv
<1> DEFINE Grants(x) == \E g \in roles[x] : g[2] = p /\ Fits(g[1], r)
<1>2. \A x \in DOMAIN roles : (\E g \in roles[x] : g[2] = p /\ GlobMatch(g[1], r)) <=> Grants(x)
  <2>1. r \in Seq(Char)
    BY PatternsAreTexts
  <2>2. \A x \in DOMAIN roles : \A g \in roles[x] : GlobMatch(g[1], r) <=> Fits(g[1], r)
    BY <1>1, <2>1, GlobIsExact
  <2> QED  BY <2>2
<1>3. Check(u, r, p) <=> \E x \in DOMAIN roles : HasRole(u, x) /\ Grants(x)
  <2>1. CASE u \in DOMAIN userRoles
    <3>1. DOMAIN userRoles[u] = 1..Len(userRoles[u])
      BY <1>1, <2>1
    <3>2. Check(u, r, p) <=> \E i \in 1..Len(userRoles[u]) : userRoles[u][i] \in DOMAIN roles
                                 /\ \E g \in roles[userRoles[u][i]] : g[2] = p /\ GlobMatch(g[1], r)
      BY <2>1, <3>1 DEF Check
    <3>3. \A i \in 1..Len(userRoles[u]) : userRoles[u][i] \in DOMAIN roles
      BY <1>1, <2>1
    <3> HIDE DEF Grants
    <3>4. \A x : HasRole(u, x) <=> \E i \in 1..Len(userRoles[u]) : userRoles[u][i] = x
      BY <2>1 DEF HasRole
    <3> QED  BY <1>2, <3>2, <3>3, <3>4
  <2>2. CASE u \notin DOMAIN userRoles
    BY <2>2 DEF Check, HasRole
  <2> QED  BY <2>1, <2>2
<1> HIDE DEF Grants
<1>4. \A x : HasRole(u, x) => x \in DOMAIN roles
  BY <1>1 DEF HasRole
<1>5. (\E x \in DOMAIN roles : HasRole(u, x) /\ Grants(x)) <=> \E a \in assigned : a[1] = u /\ Grants(a[2])
  <2>1. ASSUME NEW x \in DOMAIN roles, HasRole(u, x), Grants(x) PROVE \E a \in assigned : a[1] = u /\ Grants(a[2])
    <3>1. <<u, x>> \in assigned /\ <<u, x>>[1] = u /\ <<u, x>>[2] = x
      BY <1>1, <2>1
    <3> QED  BY <2>1, <3>1
  <2>2. ASSUME NEW a \in assigned, a[1] = u, Grants(a[2]) PROVE \E x \in DOMAIN roles : HasRole(u, x) /\ Grants(x)
    <3>1. <<u, a[2]>> \in assigned
      BY <1>1, <2>2
    <3> QED  BY <1>1, <1>4, <2>2, <3>1
  <2> QED  BY <2>1, <2>2
<1> QED  BY <1>3, <1>5 DEF Grants

-----------------------------------------------------------------------------
(* Masks. *)

Rule == [column : MaskColumns, mask : Masks, roles : SUBSET MaskRoles]

MaskInv == rules \in Seq(Rule)

\* At the start there is no rule, ...
LEMMA MaskBegins == MaskInit => MaskInv
BY DEF MaskInit, MaskInv

\* ... and a rule added is one.
LEMMA MaskKeeps == MaskInv /\ [MaskNext]_mask_vars => MaskInv'
<1> SUFFICES ASSUME MaskInv, [MaskNext]_mask_vars PROVE MaskInv'
  OBVIOUS
<1>1. CASE UNCHANGED mask_vars
  BY <1>1 DEF mask_vars, MaskInv
<1>2. CASE MaskNext
  <2>1. PICK c \in MaskColumns, m \in Masks, rs \in SUBSET MaskRoles : AddRule([column |-> c, mask |-> m, roles |-> rs])
    BY <1>2 DEF MaskNext
  <2>2. [column |-> c, mask |-> m, roles |-> rs] \in Rule
    BY Zenon DEF Rule
  <2> DEFINE rule == [column |-> c, mask |-> m, roles |-> rs]
  <2> HIDE DEF rule
  <2>3. rules' = Append(rules, rule) /\ rule \in Rule
    BY <2>1, <2>2, Zenon DEF AddRule, rule
  <2> QED  BY <2>3 DEF MaskInv
<1> QED  BY <1>1, <1>2

\* The rules that cover a column for a role, and the first of some.
Hits(rs, c, role) == {i \in DOMAIN rs : rs[i].column = c /\ AppliesTo(rs[i], role)}
FirstOf(T) == CHOOSE i \in T : \A j \in T : i <= j

\* It is the least element.
LEMMA FirstIs == ASSUME NEW T \in SUBSET Nat, NEW x \in T, \A y \in T : x <= y PROVE FirstOf(T) = x
<1>1. \E i \in T : \A j \in T : i <= j
  OBVIOUS
<1>2. FirstOf(T) \in T /\ \A j \in T : FirstOf(T) <= j
  BY <1>1, Zenon DEF FirstOf
<1>3. FirstOf(T) <= x /\ x <= FirstOf(T) /\ x \in Nat /\ FirstOf(T) \in Nat
  BY <1>2
<1> QED  BY <1>3

\* What a mask leaves of a value: a place it shows is at one of the ends the
\* mask allows, and some place is not shown.
HidesSome(m, v, masked) == /\ v # << >> => Shown(v, masked) # DOMAIN v
                        /\ \A i \in Shown(v, masked) : i <= m.prefix \/ i > Len(v) - m.suffix

\* A mask that differs from the value at every place hides it.
LEMMA NothingShown ==
    ASSUME NEW m, NEW v \in Seq(STRING), NEW masked, \A i \in DOMAIN v \cap DOMAIN masked : masked[i] # v[i] PROVE HidesSome(m, v, masked)
<1>1. Shown(v, masked) = {}
  BY DEF Shown
<1>2. v # << >> => DOMAIN v # {}
  OBVIOUS
<1> QED  BY <1>1, <1>2 DEF HidesSome

\* Every mask hides some of the value, and no less than its ends allow.
LEMMA MaskHides ==
    ASSUME NEW m \in Masks, NEW v \in MaskValues PROVE HidesSome(m, v, Mask(m, v))
<1> DEFINE n == Len(v)
           masked == Mask(m, v)
<1>1. v \in Seq(STRING) /\ MaxWidth \in Nat /\ \A i \in 1..n : v[i] # "*" /\ v[i] # "#" /\ v[i] # ToString(v)
  BY MaskAssumption
<1>2. n \in Nat /\ DOMAIN v = 1..n /\ (v = << >> <=> n = 0)
  BY <1>1
<1> HIDE DEF n
<1>3. \A k : DOMAIN Stars(k) = 1..k /\ \A i \in 1..k : Stars(k)[i] = "*"
  BY DEF Stars
<1>4. ASSUME NEW k, masked = Stars(k) PROVE HidesSome(m, v, masked)
  <2> HIDE DEF masked
  <2>1. \A i \in DOMAIN v \cap DOMAIN masked : masked[i] # v[i]
    BY <1>1, <1>2, <1>3, <1>4
  <2> QED  BY <1>1, <2>1, NothingShown
<1>5. CASE m.kind = "full"
  <2>1. masked = Stars(IF v = << >> THEN 1 ELSE Len(v))
    BY <1>5, Zenon DEF Mask
  <2> HIDE DEF masked
  <2>2. HidesSome(m, v, masked)
    BY <1>4, <2>1, Zenon
  <2> QED  BY <2>2 DEF masked
<1>6. CASE m.kind = "hash"
  <2>0. m.kind # "full"
    BY <1>6
  <2>1. masked = Hash(v)
    BY <1>6, <2>0 DEF Mask
  <2>2. DOMAIN Hash(v) = 1..2 /\ Hash(v)[1] = "#" /\ Hash(v)[2] = ToString(v)
    BY DEF Hash
  <2> HIDE DEF masked
  <2>3. \A i \in DOMAIN masked : i = 1 \/ i = 2
    BY <2>1, <2>2
  <2>4. \A i \in DOMAIN v \cap DOMAIN masked : masked[i] # v[i]
    BY <1>1, <1>2, <2>1, <2>2, <2>3
  <2>5. HidesSome(m, v, masked)
    BY <1>1, <2>4, NothingShown
  <2> QED  BY <2>5 DEF masked
<1>7. CASE m.kind = "null"
  <2>1. masked = << >>
    BY <1>7 DEF Mask
  <2> HIDE DEF masked
  <2>2. \A i \in DOMAIN v \cap DOMAIN masked : masked[i] # v[i]
    BY <2>1
  <2>3. HidesSome(m, v, masked)
    BY <1>1, <2>2, NothingShown
  <2> QED  BY <2>3 DEF masked
<1>8. CASE m.kind = "partial"
  <2> DEFINE a == m.prefix
             b == m.suffix
             left == SubSeq(v, 1, a)
             mid == Stars(n - a - b)
             right == SubSeq(v, n - b + 1, n)
  <2>1. a \in Nat /\ b \in Nat
    BY <1>1, <1>8 DEF Masks
  <2>2. masked = IF n <= a + b THEN Stars(n) ELSE left \o mid \o right
    BY <1>8 DEF Mask, n
  <2> HIDE DEF a, b
  <2>3. CASE n <= a + b
    <3>1. masked = Stars(n)
      BY <2>2, <2>3
    <3> HIDE DEF masked
    <3>2. HidesSome(m, v, masked)
      BY <1>4, <3>1, Zenon
    <3> QED  BY <3>2 DEF masked
  <2>4. CASE ~ (n <= a + b)
    <3> DEFINE U == STRING \cup {"*"}
    <3>1. n - a - b \in Nat /\ n - a - b >= 1 /\ n - b + 1 \in Nat /\ a < n - b /\ a + 1 \in 1..n
      BY <1>2, <2>1, <2>4
    <3>2. v \in Seq(U)
      BY <1>1, SeqWiden, Zenon DEF U
    <3>3. "*" \in U
      BY Zenon DEF U
    <3> HIDE DEF U
    <3>4. left \in Seq(U) /\ Len(left) = a
      <4>1. \A i \in 1..a : i \in 1..n /\ v[i] \in U
        BY <1>2, <2>1, <3>1, <3>2 DEF n
      <4>2. left = [i \in 1..a |-> v[i]]
        BY <1>2, <2>1, <3>1, <3>2 DEF n
      <4> HIDE DEF left
      <4> QED  BY <2>1, <4>1, <4>2
    <3>5. mid \in Seq(U) /\ Len(mid) = n - a - b /\ \A i \in 1..(n - a - b) : mid[i] = "*"
      <4>1. mid = [i \in 1..(n - a - b) |-> "*"]
        BY DEF Stars
      <4> HIDE DEF mid
      <4> QED  BY <3>1, <3>3, <4>1
    <3> HIDE DEF left, mid
    <3> DEFINE lm == left \o mid
    <3>6. /\ lm \in Seq(U) /\ Len(lm) = n - b
          /\ \A i \in (a + 1)..(n - b) : i \in 1..(n - b) /\ lm[i] = "*"
      <4>1. lm \in Seq(U) /\ Len(lm) = a + (n - a - b) /\ \A i \in 1..(n - a - b) : lm[a + i] = mid[i]
        BY <1>2, <2>1, <3>1, <3>4, <3>5
      <4> HIDE DEF lm
      <4>2. \A i \in (a + 1)..(n - b) : i \in 1..(n - b) /\ i - a \in 1..(n - a - b) /\ a + (i - a) = i
        BY <1>2, <2>1, <3>1
      <4>3. a + (n - a - b) = n - b
        BY <1>2, <2>1
      <4>4. ASSUME NEW i \in (a + 1)..(n - b) PROVE lm[i] = "*"
        BY <3>5, <4>1, <4>2
      <4> QED  BY <4>1, <4>2, <4>3, <4>4
    <3> HIDE DEF lm
    <3>7. right \in Seq(U)
      <4>1. \A i \in 1..b : (n - b + 1) + i - 1 \in 1..n
        BY <1>2, <2>1, <3>1
      <4> QED  BY <1>2, <2>1, <3>1, <3>2 DEF n
    <3> HIDE DEF right
    <3>8. masked = lm \o right
      BY <2>2, <2>4 DEF lm
    <3> HIDE DEF masked
    <3>9. \A i \in (a + 1)..(n - b) : masked[i] = "*"
      BY <3>6, <3>7, <3>8
    <3>10. \A i \in 1..n : masked[i] = v[i] => i <= a \/ i > n - b
      <4> SUFFICES ASSUME NEW i \in 1..n, masked[i] = v[i], ~ (i <= a \/ i > n - b) PROVE FALSE
        OBVIOUS
      <4>1. i \in (a + 1)..(n - b)
        BY <1>2, <2>1
      <4> QED  BY <1>1, <3>9, <4>1
    <3>11. ~ (a + 1 <= a \/ a + 1 > n - b)
      BY <1>2, <2>1, <3>1
    <3>12. Shown(v, masked) # DOMAIN v /\ \A i \in Shown(v, masked) : i <= a \/ i > n - b
      BY <1>2, <3>1, <3>10, <3>11 DEF Shown
    <3>13. HidesSome(m, v, masked)
      BY <3>12 DEF HidesSome, a, b, n
    <3> QED  BY <3>13 DEF masked
  <2> QED  BY <2>3, <2>4
<1>9. m.kind \in {"full", "hash", "null", "partial"}
  BY DEF Masks
<1> QED  BY <1>5, <1>6, <1>7, <1>8, <1>9

\* Masked columns stay masked.
LEMMA MaskingIsSafe == MaskInv => MaskingSafe
<1> SUFFICES ASSUME MaskInv, NEW c \in MaskColumns, NEW v \in MaskValues, NEW role \in MaskRoles
             PROVE  LET masked  == MaskColumn(rules, c, v, role)
                        hits == {i \in DOMAIN rules : rules[i].column = c /\ AppliesTo(rules[i], role)}
                    IN  IF hits = {} THEN masked = v
                        ELSE LET first == rules[CHOOSE i \in hits : \A j \in hits : i <= j].mask IN
                             /\ v # <<>> => Shown(v, masked) # DOMAIN v
                             /\ \A i \in Shown(v, masked) : i <= first.prefix \/ i > Len(v) - first.suffix
                             /\ \A n \in DOMAIN rules : n \in hits => masked = MaskColumn(SubSeq(rules, 1, n), c, v, role)
  BY Zenon DEF MaskingSafe
<1> DEFINE H == Hits(rules, c, role)
           f == FirstOf(H)
<1>1. \A rs : MaskColumn(rs, c, v, role) = IF Hits(rs, c, role) = {} THEN v ELSE Mask(rs[FirstOf(Hits(rs, c, role))].mask, v)
  BY Zenon DEF MaskColumn, Hits, FirstOf
<1>2. Len(rules) \in Nat /\ DOMAIN rules = 1..Len(rules) /\ rules \in Seq(Rule) /\ \A i \in 1..Len(rules) : rules[i] \in Rule
  BY DEF MaskInv
<1>3. H \in SUBSET Nat /\ H \subseteq 1..Len(rules)
  BY <1>2 DEF Hits
<1>4. H = {i \in DOMAIN rules : rules[i].column = c /\ AppliesTo(rules[i], role)} /\ f = CHOOSE i \in H : \A j \in H : i <= j
  BY Zenon DEF Hits, FirstOf
<1>5. ASSUME H = {} PROVE MaskColumn(rules, c, v, role) = v
  BY <1>1, <1>5
<1>6. ASSUME H # {}
      PROVE  /\ HidesSome(rules[f].mask, v, MaskColumn(rules, c, v, role))
             /\ \A k \in H : MaskColumn(rules, c, v, role) = MaskColumn(SubSeq(rules, 1, k), c, v, role)
  <2>1. PICK x \in H : \A y \in H : x <= y
    <3> HIDE DEF H
    <3> QED  BY <1>3, <1>6, LeastNat
  <2>2. f = x
    <3> HIDE DEF H
    <3> QED  BY <1>3, <2>1, FirstIs
  <2>3. rules[x].mask \in Masks
    BY <1>2, <1>3, <2>1 DEF Rule
  <2>4. HidesSome(rules[f].mask, v, MaskColumn(rules, c, v, role))
    <3>1. MaskColumn(rules, c, v, role) = Mask(rules[x].mask, v)
      BY <1>1, <1>6, <2>2
    <3>2. HidesSome(rules[x].mask, v, Mask(rules[x].mask, v))
      BY <2>3, MaskHides
    <3> QED  BY <2>2, <3>1, <3>2
  <2>5. ASSUME NEW k \in H PROVE MaskColumn(rules, c, v, role) = MaskColumn(SubSeq(rules, 1, k), c, v, role)
    <3> DEFINE first_rules == SubSeq(rules, 1, k)
    <3>1. k \in 1..Len(rules) /\ x \in 1..k /\ k \in Nat /\ x <= k
      <4> HIDE DEF H
      <4>1. k \in 1..Len(rules) /\ x \in 1..Len(rules) /\ x <= k
        BY <1>3, <2>1, <2>5
      <4> QED  BY <1>2, <4>1
    <3>2. DOMAIN first_rules = 1..k /\ \A i \in 1..k : first_rules[i] = rules[i] /\ i \in 1..Len(rules)
      BY <1>2, <3>1
    <3> HIDE DEF first_rules
    <3>3. \A i : i \in Hits(first_rules, c, role) <=> i \in H /\ i \in 1..k
      BY <1>2, <3>2 DEF Hits
    <3> HIDE DEF H
    <3>4. x \in Hits(first_rules, c, role) /\ (\A y \in Hits(first_rules, c, role) : x <= y) /\ Hits(first_rules, c, role) \in SUBSET Nat
      BY <1>3, <2>1, <3>1, <3>3
    <3>5. FirstOf(Hits(first_rules, c, role)) = x
      BY <3>4, FirstIs
    <3>6. MaskColumn(first_rules, c, v, role) = Mask(first_rules[x].mask, v)
      BY <1>1, <3>4, <3>5
    <3>7. MaskColumn(rules, c, v, role) = Mask(rules[x].mask, v)
      BY <1>1, <1>6, <2>2 DEF H
    <3> QED  BY <3>1, <3>2, <3>6, <3>7 DEF first_rules
  <2> QED  BY <2>4, <2>5
<1> HIDE DEF H, f
<1> QED  BY <1>4, <1>5, <1>6 DEF HidesSome

-----------------------------------------------------------------------------
(* The Merkle tree. *)

\* A function on 1..n is a list of length n.
LEMMA ListIs == ASSUME NEW f, NEW n \in Nat, f = [i \in 1..n |-> f[i]] PROVE Len(f) = n /\ DOMAIN f = 1..n
<1> DEFINE S == {f[i] : i \in 1..n}
<1>1. DOMAIN f = 1..n
  OBVIOUS
<1>2. f \in [1..n -> S]
  OBVIOUS
<1> HIDE DEF S
<1>3. f \in Seq(S)
  BY <1>2
<1> QED  BY <1>1, <1>3

\* Levels from the leaves up, as long as they go.
Climbs(bs, n, g) == g = [l \in 1..n |-> IF l = 1 THEN Leaves(bs) ELSE Parents(g[l - 1])]

\* The loop of build can go on as long as one likes.
LEMMA ClimbExists == ASSUME NEW bs, NEW n \in Nat PROVE \E g : Climbs(bs, n, g)
<1> DEFINE T == {a \in Nat : ~ \E g : Climbs(bs, a, g)}
<1>1. SUFFICES ASSUME T # {} PROVE FALSE
  OBVIOUS
<1>2. PICK a \in T : \A b \in T : a <= b
  <2>1. T \in SUBSET Nat
    OBVIOUS
  <2> HIDE DEF T
  <2> QED  BY <1>1, <2>1, LeastNat
<1>3. a \in Nat /\ ~ \E g : Climbs(bs, a, g)
  OBVIOUS
<1>4. CASE a = 0
  <2> DEFINE g == << >>
  <2>1. g = [l \in 1..a |-> IF l = 1 THEN Leaves(bs) ELSE Parents(g[l - 1])]
    <3>1. 1..a = {}
      BY <1>4
    <3> QED  BY <3>1
  <2> HIDE DEF g
  <2>2. Climbs(bs, a, g)
    BY <2>1, Zenon DEF Climbs
  <2> QED  BY <1>3, <2>2
<1>5. CASE a # 0
  <2> DEFINE b == a - 1
  <2>1. b \in Nat /\ b + 1 = a /\ ~ (a <= b)
    BY <1>3, <1>5
  <2>2. PICK h : Climbs(bs, b, h)
    <3>1. b \notin T
      <4> HIDE DEF T
      <4> QED  BY <1>2, <2>1
    <3> QED  BY <2>1, <3>1
  <2> HIDE DEF T
  <2> DEFINE top == IF a = 1 THEN Leaves(bs) ELSE Parents(h[a - 1])
             g == [l \in 1..a |-> IF l = a THEN top ELSE h[l]]
  <2>3. h = [l \in 1..b |-> IF l = 1 THEN Leaves(bs) ELSE Parents(h[l - 1])]
    BY <2>2, Zenon DEF Climbs
  <2>4. \A l \in 1..b : h[l] = IF l = 1 THEN Leaves(bs) ELSE Parents(h[l - 1])
    BY <2>3, Zenon
  <2>5. \A l \in 1..a : l = a \/ (l \in 1..b /\ l # a)
    BY <1>3, <2>1
  <2>6. \A l \in 1..a : l # 1 => l - 1 \in 1..a /\ l - 1 # a
    BY <1>3
  <2> HIDE DEF top, b
  <2>7. \A l \in 1..a : g[l] = IF l = a THEN top ELSE h[l]
    OBVIOUS
  <2> HIDE DEF g
  <2>8. \A l \in 1..a : g[l] = IF l = 1 THEN Leaves(bs) ELSE Parents(g[l - 1])
    <3> SUFFICES ASSUME NEW l \in 1..a PROVE g[l] = IF l = 1 THEN Leaves(bs) ELSE Parents(g[l - 1])
      OBVIOUS
    <3>1. l # 1 => g[l - 1] = h[l - 1]
      BY <2>6, <2>7
    <3>2. g[l] = IF l = 1 THEN Leaves(bs) ELSE Parents(h[l - 1])
      BY <2>4, <2>5, <2>7, Zenon DEF top
    <3> QED  BY <3>1, <3>2, Zenon
  <2>9. g = [l \in 1..a |-> g[l]]
    BY Zenon DEF g
  <2>10. Climbs(bs, a, g)
    BY <2>8, <2>9, Zenon DEF Climbs
  <2> QED  BY <1>3, <2>10
<1> QED  BY <1>4, <1>5

\* The tree over n blocks: each level over the one below, down to one hash.
Tree(bs, n, levels, h) ==
    /\ h \in 1..n /\ Len(levels) = h /\ levels[1] = Leaves(bs)
    /\ \A l \in 1..h : Len(levels[l]) \in Nat /\ Len(levels[l]) >= 1 /\ DOMAIN levels[l] = 1..Len(levels[l])
    /\ Len(levels[h]) = 1 /\ \A l \in 1..h : Len(levels[l]) = 1 => l = h
    /\ \A l \in 1..(h - 1) : levels[l + 1] = Parents(levels[l])

\* Half of them, rounded up.
LEMMA HalfOf == ASSUME NEW n \in Nat, n >= 1
                PROVE  /\ (n + 1) \div 2 \in Nat /\ (n + 1) \div 2 >= 1
                       /\ n = 1 => (n + 1) \div 2 = 1
                       /\ n # 1 => (n + 1) \div 2 <= n - 1
OBVIOUS

\* How many parents a level has.
LEMMA ParentsAre == ASSUME NEW level, Len(level) \in Nat, Len(level) >= 1
                    PROVE  /\ Len(Parents(level)) = (Len(level) + 1) \div 2
                           /\ DOMAIN Parents(level) = 1..((Len(level) + 1) \div 2)
<1> DEFINE P == Parents(level)
           m == (Len(level) + 1) \div 2
<1>1. m \in Nat
  BY HalfOf
<1>2. P = [k \in 1..m |-> HashPair(level[2 * k - 1], level[IF 2 * k <= Len(level) THEN 2 * k ELSE 2 * k - 1])]
  BY Zenon DEF Parents
<1> HIDE DEF P, m
<1>3. P = [k \in 1..m |-> P[k]]
  BY <1>2
<1>4. Len(P) = m /\ DOMAIN P = 1..m
  BY <1>1, <1>3, ListIs
<1> QED  BY <1>4 DEF P, m

\* build makes the tree.
LEMMA BuildIs == ASSUME NEW bs, NEW n \in Nat, n >= 1, DOMAIN bs = 1..n, Len(bs) = n
                 PROVE  \E h : Tree(bs, n, Build(bs), h)
<1> DEFINE C(g) == g = [l \in 1..Len(bs) |-> IF l = 1 THEN Leaves(bs) ELSE Parents(g[l - 1])]
           g == CHOOSE x : C(x)
           h == CHOOSE y \in 1..Len(bs) : Len(g[y]) = 1 /\ \A l \in 1..(y - 1) : Len(g[l]) > 1
           levels == [l \in 1..h |-> g[l]]
<1>1. bs # << >>
  OBVIOUS
<1>2. Build(bs) = levels
  BY <1>1, Zenon DEF Build
<1>3. C(g)
  <2>1. \A x : C(x) <=> Climbs(bs, n, x)
    BY Zenon DEF Climbs
  <2>2. \E x : C(x)
    BY <2>1, ClimbExists, Zenon
  <2> HIDE DEF C
  <2> QED  BY <2>2, Zenon
<1>4. g = [l \in 1..n |-> IF l = 1 THEN Leaves(bs) ELSE Parents(g[l - 1])]
  BY <1>3, Zenon
<1> HIDE DEF g
<1>5. \A l \in 1..n : g[l] = IF l = 1 THEN Leaves(bs) ELSE Parents(g[l - 1])
  BY <1>4, Zenon
<1>6. g[1] = Leaves(bs) /\ \A l \in 1..(n - 1) : g[l + 1] = Parents(g[l])
  <2>1. 1 \in 1..n /\ \A l \in 1..(n - 1) : l + 1 \in 1..n /\ l + 1 # 1 /\ (l + 1) - 1 = l
    OBVIOUS
  <2> QED  BY <1>5, <2>1
<1>7. Len(g[1]) = n /\ DOMAIN g[1] = 1..n
  <2>1. Leaves(bs) = [i \in 1..n |-> <<bs[i]>>]
    BY Zenon DEF Leaves
  <2> DEFINE f == Leaves(bs)
  <2> HIDE DEF f
  <2>2. f = [i \in 1..n |-> f[i]]
    BY <2>1 DEF f
  <2>3. Len(f) = n /\ DOMAIN f = 1..n
    BY <2>2, ListIs
  <2> QED  BY <1>6, <2>3 DEF f
<1> DEFINE Sound(l) == /\ Len(g[l]) \in Nat /\ Len(g[l]) >= 1 /\ DOMAIN g[l] = 1..Len(g[l])
                       /\ Len(g[l]) = 1 \/ Len(g[l]) <= n - l + 1
           T == {l \in 1..n : ~ Sound(l)}
<1>8. T = {}
  <2> SUFFICES ASSUME T # {} PROVE FALSE
    OBVIOUS
  <2>1. PICK l \in T : \A k \in T : l <= k
    <3>1. T \in SUBSET Nat
      OBVIOUS
    <3> HIDE DEF T
    <3> QED  BY <3>1, LeastNat
  <2>2. l \in 1..n /\ ~ Sound(l)
    OBVIOUS
  <2>3. l # 1
    BY <1>7, <2>2
  <2>4. l - 1 \in 1..(n - 1) /\ l - 1 \in 1..n /\ ~ (l <= l - 1) /\ (l - 1) + 1 = l
    <3> HIDE DEF T, Sound
    <3> QED  BY <2>2, <2>3
  <2>5. Sound(l - 1)
    <3>1. l - 1 \notin T
      <4> HIDE DEF T
      <4> QED  BY <2>1, <2>4
    <3> HIDE DEF Sound
    <3> QED  BY <2>4, <3>1
  <2> HIDE DEF T
  <2>6. g[l] = Parents(g[l - 1])
    BY <1>6, <2>4
  <2> DEFINE m == Len(g[l - 1])
  <2>7. m \in Nat /\ m >= 1 /\ (m = 1 \/ m <= n - (l - 1) + 1)
    BY <2>5
  <2>8. Len(g[l]) = (m + 1) \div 2 /\ DOMAIN g[l] = 1..((m + 1) \div 2)
    BY <2>6, <2>7, ParentsAre
  <2> HIDE DEF m
  <2>9. /\ (m + 1) \div 2 \in Nat /\ (m + 1) \div 2 >= 1
        /\ (m + 1) \div 2 = 1 \/ (m + 1) \div 2 <= m - 1
    BY <2>7, HalfOf
  <2>10. m - 1 <= n - l + 1 \/ m = 1
    BY <2>2, <2>7
  <2>11. Sound(l)
    <3> DEFINE q == (m + 1) \div 2
    <3>1. q \in Nat /\ q >= 1 /\ (q = 1 \/ q <= m - 1)
      BY <2>9
    <3>2. m = 1 => q = 1
      BY <2>7, HalfOf
    <3>3. Len(g[l]) = q /\ DOMAIN g[l] = 1..q
      BY <2>8
    <3> HIDE DEF q
    <3>4. q = 1 \/ q <= n - l + 1
      BY <2>2, <2>7, <2>10, <3>1, <3>2
    <3> QED  BY <3>1, <3>3, <3>4
  <2> QED  BY <2>2, <2>11
<1>9. \A l \in 1..n : Sound(l)
  BY <1>8
<1> HIDE DEF T
<1>10. \E y \in 1..n : Len(g[y]) = 1 /\ \A l \in 1..(y - 1) : Len(g[l]) > 1
  <2> DEFINE Y == {y \in 1..n : Len(g[y]) = 1}
  <2>1. n \in Y
    <3>1. Sound(n) /\ n \in 1..n
      BY <1>9
    <3> DEFINE x == Len(g[n])
    <3>2. x \in Nat /\ x >= 1 /\ (x = 1 \/ x <= n - n + 1)
      BY <3>1
    <3> HIDE DEF x
    <3>3. x = 1
      BY <3>2
    <3> QED  BY <3>1, <3>3 DEF x
  <2>2. PICK y \in Y : \A z \in Y : y <= z
    <3>1. Y \in SUBSET Nat
      OBVIOUS
    <3> HIDE DEF Y
    <3> QED  BY <2>1, <3>1, LeastNat
  <2>3. y \in 1..n /\ Len(g[y]) = 1
    OBVIOUS
  <2>4. \A l \in 1..(y - 1) : l \in 1..n /\ ~ (y <= l)
    <3> HIDE DEF Y
    <3> QED  BY <2>3
  <2>5. ASSUME NEW l \in 1..(y - 1) PROVE Len(g[l]) > 1
    <3>1. Len(g[l]) # 1
      BY <2>2, <2>4
    <3>2. Sound(l)
      BY <1>9, <2>4
    <3> DEFINE x == Len(g[l])
    <3>3. x \in Nat /\ x >= 1 /\ x # 1
      BY <3>1, <3>2
    <3> HIDE DEF x
    <3>4. x > 1
      BY <3>3
    <3> QED  BY <3>4 DEF x
  <2> QED  BY <2>3, <2>5
<1>11. h \in 1..n /\ Len(g[h]) = 1 /\ \A l \in 1..(h - 1) : Len(g[l]) > 1
  BY <1>10, Zenon
<1> HIDE DEF h
<1>12. Len(levels) = h /\ \A l \in 1..h : levels[l] = g[l] /\ l \in 1..n
  <2>1. levels = [l \in 1..h |-> levels[l]] /\ h \in Nat
    BY <1>11
  <2> HIDE DEF levels
  <2>2. Len(levels) = h
    BY <2>1, ListIs
  <2> QED  BY <1>11, <2>2 DEF levels
<1> HIDE DEF levels
<1>13. \A l \in 1..h : Len(levels[l]) = 1 => l = h
  <2> SUFFICES ASSUME NEW l \in 1..h, Len(levels[l]) = 1, l # h PROVE FALSE
    OBVIOUS
  <2>1. l \in 1..(h - 1)
    BY <1>11
  <2>2. Len(g[l]) > 1 /\ Len(g[l]) = 1
    BY <1>11, <1>12, <2>1
  <2> QED  BY <2>2
<1>14. \A l \in 1..(h - 1) : levels[l + 1] = Parents(levels[l])
  <2>1. \A l \in 1..(h - 1) : l \in 1..h /\ l + 1 \in 1..h /\ l \in 1..(n - 1)
    BY <1>11
  <2> QED  BY <1>6, <1>12, <2>1
<1>15. h \in 1..h /\ 1 \in 1..h
  BY <1>11
<1>16. Tree(bs, n, levels, h)
  BY <1>6, <1>9, <1>11, <1>12, <1>13, <1>14, <1>15 DEF Tree
<1> QED  BY <1>2, <1>16

\* The position, counted from zero, on each level above a leaf.
Positions(h, index, idx) == idx = [l \in 1..h |-> IF l = 1 THEN index ELSE idx[l - 1] \div 2]

\* The positions of an index, level by level.
LEMMA PositionsExist == ASSUME NEW index \in Nat, NEW h \in Nat PROVE \E idx : Positions(h, index, idx)
<1> DEFINE T == {a \in Nat : ~ \E g : Positions(a, index, g)}
<1>1. SUFFICES ASSUME T # {} PROVE FALSE
  OBVIOUS
<1>2. PICK a \in T : \A b \in T : a <= b
  <2>1. T \in SUBSET Nat
    OBVIOUS
  <2> HIDE DEF T
  <2> QED  BY <1>1, <2>1, LeastNat
<1>3. a \in Nat /\ ~ \E g : Positions(a, index, g)
  OBVIOUS
<1>4. CASE a = 0
  <2> DEFINE g == << >>
  <2>1. g = [l \in 1..a |-> IF l = 1 THEN index ELSE g[l - 1] \div 2]
    <3>1. 1..a = {}
      BY <1>4
    <3> QED  BY <3>1
  <2> HIDE DEF g
  <2>2. Positions(a, index, g)
    BY <2>1, Zenon DEF Positions
  <2> QED  BY <1>3, <2>2
<1>5. CASE a # 0
  <2> DEFINE b == a - 1
  <2>1. b \in Nat /\ b + 1 = a /\ ~ (a <= b)
    BY <1>3, <1>5
  <2>2. PICK g0 : Positions(b, index, g0)
    <3>1. b \notin T
      <4> HIDE DEF T
      <4> QED  BY <1>2, <2>1
    <3> QED  BY <2>1, <3>1
  <2> HIDE DEF T
  <2> DEFINE top == IF a = 1 THEN index ELSE g0[a - 1] \div 2
             g == [l \in 1..a |-> IF l = a THEN top ELSE g0[l]]
  <2>3. g0 = [l \in 1..b |-> IF l = 1 THEN index ELSE g0[l - 1] \div 2]
    BY <2>2, Zenon DEF Positions
  <2>4. \A l \in 1..b : g0[l] = IF l = 1 THEN index ELSE g0[l - 1] \div 2
    BY <2>3, Zenon
  <2>5. \A l \in 1..a : l = a \/ (l \in 1..b /\ l # a)
    BY <1>3, <2>1
  <2>6. \A l \in 1..a : l # 1 => l - 1 \in 1..a /\ l - 1 # a
    BY <1>3
  <2> HIDE DEF top, b
  <2>7. \A l \in 1..a : g[l] = IF l = a THEN top ELSE g0[l]
    OBVIOUS
  <2> HIDE DEF g
  <2>8. \A l \in 1..a : g[l] = IF l = 1 THEN index ELSE g[l - 1] \div 2
    <3> SUFFICES ASSUME NEW l \in 1..a PROVE g[l] = IF l = 1 THEN index ELSE g[l - 1] \div 2
      OBVIOUS
    <3>1. l # 1 => g[l - 1] = g0[l - 1]
      BY <2>6, <2>7
    <3>2. g[l] = IF l = 1 THEN index ELSE g0[l - 1] \div 2
      BY <2>4, <2>5, <2>7, Zenon DEF top
    <3> QED  BY <3>1, <3>2, Zenon
  <2>9. g = [l \in 1..a |-> g[l]]
    BY Zenon DEF g
  <2>10. Positions(a, index, g)
    BY <2>8, <2>9, Zenon DEF Positions
  <2> QED  BY <1>3, <2>10
<1> QED  BY <1>4, <1>5

\* The hashes verify computes along a path.
Folds(leaf, path, h, cur) == cur = [l \in 0..h |-> IF l = 0 THEN leaf
                                     ELSE IF path[l].left THEN HashPair(path[l].hash, cur[l - 1])
                                     ELSE HashPair(cur[l - 1], path[l].hash)]

\* The hashes a verification computes, one by one.
LEMMA FoldsExist == ASSUME NEW leaf, NEW path, NEW h \in Nat PROVE \E cur : Folds(leaf, path, h, cur)
<1> DEFINE T == {a \in Nat : ~ \E g : Folds(leaf, path, a, g)}
           Up(l, x) == IF path[l].left THEN HashPair(path[l].hash, x) ELSE HashPair(x, path[l].hash)
<1>1. SUFFICES ASSUME T # {} PROVE FALSE
  OBVIOUS
<1>2. PICK a \in T : \A b \in T : a <= b
  <2>1. T \in SUBSET Nat
    OBVIOUS
  <2> HIDE DEF T
  <2> QED  BY <1>1, <2>1, LeastNat
<1>3. a \in Nat /\ ~ \E g : Folds(leaf, path, a, g)
  OBVIOUS
<1>4. CASE a = 0
  <2> DEFINE g == [l \in 0..0 |-> leaf]
  <2>1. g = [l \in 0..0 |-> IF l = 0 THEN leaf ELSE Up(l, g[l - 1])]
    <3>1. \A l \in 0..0 : l = 0
      OBVIOUS
    <3> HIDE DEF Up
    <3> QED  BY <3>1
  <2> HIDE DEF g
  <2>2. Folds(leaf, path, a, g)
    BY <1>4, <2>1, Zenon DEF Folds
  <2> QED  BY <1>3, <2>2
<1>5. CASE a # 0
  <2> DEFINE b == a - 1
  <2>1. b \in Nat /\ b + 1 = a /\ ~ (a <= b)
    BY <1>3, <1>5
  <2>2. PICK g0 : Folds(leaf, path, b, g0)
    <3>1. b \notin T
      <4> HIDE DEF T
      <4> QED  BY <1>2, <2>1
    <3> QED  BY <2>1, <3>1
  <2> HIDE DEF T
  <2> DEFINE top == Up(a, g0[a - 1])
             g == [l \in 0..a |-> IF l = a THEN top ELSE g0[l]]
  <2>3. g0 = [l \in 0..b |-> IF l = 0 THEN leaf ELSE Up(l, g0[l - 1])]
    BY <2>2, Zenon DEF Folds
  <2> HIDE DEF Up
  <2>4. \A l \in 0..b : g0[l] = IF l = 0 THEN leaf ELSE Up(l, g0[l - 1])
    BY <2>3, Zenon
  <2>5. \A l \in 0..a : l = a \/ (l \in 0..b /\ l # a)
    BY <1>3, <2>1
  <2>6. \A l \in 0..a : l # 0 => l - 1 \in 0..a /\ l - 1 # a
    BY <1>3
  <2> HIDE DEF top, b
  <2>7. \A l \in 0..a : g[l] = IF l = a THEN top ELSE g0[l]
    OBVIOUS
  <2> HIDE DEF g
  <2>8. \A l \in 0..a : g[l] = IF l = 0 THEN leaf ELSE Up(l, g[l - 1])
    <3> SUFFICES ASSUME NEW l \in 0..a PROVE g[l] = IF l = 0 THEN leaf ELSE Up(l, g[l - 1])
      OBVIOUS
    <3>1. l # 0 => g[l - 1] = g0[l - 1]
      BY <2>6, <2>7
    <3>2. g[l] = IF l = 0 THEN leaf ELSE Up(l, g0[l - 1])
      BY <1>5, <2>4, <2>5, <2>7, Zenon DEF top
    <3> QED  BY <3>1, <3>2, Zenon
  <2>9. g = [l \in 0..a |-> g[l]]
    BY Zenon DEF g
  <2>10. Folds(leaf, path, a, g)
    BY <2>8, <2>9, Zenon DEF Folds, Up
  <2> QED  BY <1>3, <2>10
<1> QED  BY <1>4, <1>5

\* Where the sibling of a position is, or the position itself at an odd end.
Beside(len, x) == LET s == IF x % 2 = 0 THEN x + 1 ELSE x - 1 IN IF s < len THEN s ELSE x

\* The parent of a position, and the position beside it.
LEMMA HalfAgain ==
    ASSUME NEW n \in Nat, NEW x \in Nat, x < n
    PROVE  /\ x \div 2 \in Nat /\ x \div 2 < (n + 1) \div 2 /\ x \div 2 + 1 \in 1..((n + 1) \div 2)
           /\ x % 2 = 1 => 2 * (x \div 2 + 1) = x + 1 /\ Beside(n, x) = x - 1
           /\ x % 2 # 1 => /\ x % 2 = 0 /\ 2 * (x \div 2 + 1) = x + 2
                           /\ Beside(n, x) = IF x + 1 < n THEN x + 1 ELSE x
<1> DEFINE q == x \div 2
           r == x % 2
<1>1. q \in Nat /\ x = 2 * q + r /\ (r = 0 \/ r = 1)
  OBVIOUS
<1>2. Beside(n, x) = LET s == IF r = 0 THEN x + 1 ELSE x - 1 IN IF s < n THEN s ELSE x
  BY DEF Beside
<1> HIDE DEF r
<1> DEFINE m == (n + 1) \div 2
<1>3. m \in Nat /\ (n + 1 = 2 * m \/ n + 1 = 2 * m + 1)
  OBVIOUS
<1> HIDE DEF q, m
<1>4. q < m /\ q + 1 \in 1..m
  BY <1>1, <1>3
<1>5. r = 1 => 2 * (q + 1) = x + 1 /\ Beside(n, x) = x - 1
  BY <1>1, <1>2
<1>6. r # 1 => r = 0 /\ 2 * (q + 1) = x + 2 /\ Beside(n, x) = IF x + 1 < n THEN x + 1 ELSE x
  BY <1>1, <1>2
<1> QED  BY <1>1, <1>4, <1>5, <1>6 DEF q, r, m

\* A node above is the pair of a node and what is beside it.
LEMMA ParentOf ==
    ASSUME NEW level, NEW n \in Nat, Len(level) = n, NEW x \in Nat, x < n
    PROVE  Parents(level)[x \div 2 + 1] =
             IF x % 2 = 1 THEN HashPair(level[Beside(n, x) + 1], level[x + 1])
                          ELSE HashPair(level[x + 1], level[Beside(n, x) + 1])
<1> DEFINE k == x \div 2 + 1
           P == Parents(level)
<1>1. P = [j \in 1..((n + 1) \div 2) |-> HashPair(level[2 * j - 1], level[IF 2 * j <= n THEN 2 * j ELSE 2 * j - 1])]
  BY Zenon DEF Parents
<1>2. k \in 1..((n + 1) \div 2)
  BY HalfAgain
<1>3. /\ x % 2 = 1 => 2 * k = x + 1 /\ Beside(n, x) = x - 1
      /\ x % 2 # 1 => 2 * k = x + 2 /\ Beside(n, x) = IF x + 1 < n THEN x + 1 ELSE x
  BY HalfAgain
<1> HIDE DEF k, P
<1>4. P[k] = HashPair(level[2 * k - 1], level[IF 2 * k <= n THEN 2 * k ELSE 2 * k - 1])
  BY <1>1, <1>2, Zenon
<1>5. CASE x % 2 = 1
  <2>1. 2 * k - 1 = Beside(n, x) + 1 /\ 2 * k <= n /\ 2 * k = x + 1
    BY <1>3, <1>5
  <2>2. P[k] = HashPair(level[Beside(n, x) + 1], level[x + 1])
    BY <1>4, <2>1, Zenon
  <2> QED  BY <1>5, <2>2 DEF P, k
<1>6. CASE x % 2 # 1
  <2> DEFINE y == IF 2 * k <= n THEN 2 * k ELSE 2 * k - 1
  <2>1. 2 * k - 1 = x + 1 /\ y = Beside(n, x) + 1
    <3>1. 2 * k = x + 2 /\ Beside(n, x) = IF x + 1 < n THEN x + 1 ELSE x
      BY <1>3, <1>6
    <3>2. CASE x + 1 < n
      BY <3>1, <3>2
    <3>3. CASE ~ (x + 1 < n)
      BY <3>1, <3>3
    <3> QED  BY <3>2, <3>3
  <2> HIDE DEF y
  <2>2. P[k] = HashPair(level[x + 1], level[Beside(n, x) + 1])
    BY <1>4, <2>1, Zenon DEF y
  <2> QED  BY <1>6, <2>2 DEF P, k
<1> QED  BY <1>5, <1>6

\* A proof leads from the leaf to the root of the tree.
LEMMA ProofClimbs ==
    ASSUME NEW bs, NEW n \in Nat, DOMAIN bs = 1..n, NEW levels, NEW h, Tree(bs, n, levels, h), NEW i \in 1..n, NEW c
    PROVE  Verify(Proof(levels, i - 1), c) <=> c = bs[i]
<1> DEFINE G(g) == g = [l \in 1..Len(levels) |-> IF l = 1 THEN i - 1 ELSE g[l - 1] \div 2]
           idx == CHOOSE g : G(g)
           pf == Proof(levels, i - 1)
<1>1. /\ h \in 1..n /\ Len(levels) = h /\ levels[1] = Leaves(bs) /\ h \in Nat /\ h - 1 \in Nat /\ 1 \in 1..h /\ h \in 1..h
      /\ \A l \in 1..h : Len(levels[l]) \in Nat /\ Len(levels[l]) >= 1
      /\ Len(levels[h]) = 1
      /\ \A l \in 1..(h - 1) : levels[l + 1] = Parents(levels[l])
  BY DEF Tree
<1>2. G(idx)
  <2>1. \A g : G(g) <=> Positions(h, i - 1, g)
    BY <1>1, Zenon DEF Positions
  <2>2. i - 1 \in Nat
    OBVIOUS
  <2>3. \E g : G(g)
    BY <1>1, <2>1, <2>2, PositionsExist, Zenon
  <2> HIDE DEF G
  <2> QED  BY <2>3, Zenon
<1>3. /\ pf.leaf_hash = levels[1][(i - 1) + 1] /\ pf.root = Root(levels)
      /\ pf.path = [l \in 1..(h - 1) |->
                     [hash |-> levels[l][(IF (IF idx[l] % 2 = 0 THEN idx[l] + 1 ELSE idx[l] - 1) < Len(levels[l])
                                            THEN (IF idx[l] % 2 = 0 THEN idx[l] + 1 ELSE idx[l] - 1) ELSE idx[l]) + 1],
                      left |-> idx[l] % 2 = 1]]
  BY <1>1, Zenon DEF Proof
<1>4. idx = [l \in 1..h |-> IF l = 1 THEN i - 1 ELSE idx[l - 1] \div 2]
  BY <1>1, <1>2, Zenon
<1> HIDE DEF idx
<1>5. \A l \in 1..(h - 1) : pf.path[l].hash = levels[l][Beside(Len(levels[l]), idx[l]) + 1] /\ pf.path[l].left = (idx[l] % 2 = 1)
  <2> DEFINE path == pf.path
  <2>1. path = [l \in 1..(h - 1) |-> [hash |-> levels[l][Beside(Len(levels[l]), idx[l]) + 1], left |-> idx[l] % 2 = 1]]
    BY <1>3, Zenon DEF Beside
  <2> HIDE DEF path
  <2>2. \A l \in 1..(h - 1) : path[l] = [hash |-> levels[l][Beside(Len(levels[l]), idx[l]) + 1], left |-> idx[l] % 2 = 1]
    BY <2>1, Zenon
  <2>3. ASSUME NEW l \in 1..(h - 1)
        PROVE  path[l].hash = levels[l][Beside(Len(levels[l]), idx[l]) + 1] /\ path[l].left = (idx[l] % 2 = 1)
    <3> DEFINE side == levels[l][Beside(Len(levels[l]), idx[l]) + 1]
               odd == idx[l] % 2 = 1
               node == [hash |-> side, left |-> odd]
    <3>1. path[l] = node
      BY <2>2, Zenon
    <3> HIDE DEF side, odd
    <3>2. node.hash = side
      OBVIOUS
    <3>3. node.left = odd
      BY Zenon
    <3> HIDE DEF node
    <3> QED  BY <3>1, <3>2, <3>3, Zenon DEF side, odd
  <2> QED  BY <2>3 DEF path
<1>6. Len(pf.path) = h - 1
  <2> DEFINE path == pf.path
  <2>1. path = [l \in 1..(h - 1) |-> path[l]]
    BY <1>3, Zenon
  <2> HIDE DEF path
  <2>2. Len(path) = h - 1
    BY <1>1, <2>1, ListIs
  <2> QED  BY <2>2 DEF path
<1> HIDE DEF pf
<1>7. idx[1] = i - 1 /\ \A l \in 1..(h - 1) : idx[l + 1] = idx[l] \div 2
  <2>1. \A l \in 1..h : idx[l] = IF l = 1 THEN i - 1 ELSE idx[l - 1] \div 2
    BY <1>4, Zenon
  <2>2. \A l \in 1..(h - 1) : l + 1 \in 1..h /\ l + 1 # 1 /\ (l + 1) - 1 = l
    BY <1>1
  <2> QED  BY <1>1, <2>1, <2>2
<1>8. Len(levels[1]) = n /\ \A k \in 1..n : levels[1][k] = <<bs[k]>>
  <2> DEFINE f == levels[1]
  <2>1. f = [k \in 1..n |-> <<bs[k]>>]
    BY <1>1, Zenon DEF Leaves
  <2> HIDE DEF f
  <2>2. f = [k \in 1..n |-> f[k]]
    BY <2>1
  <2>3. Len(f) = n
    BY <2>2, ListIs
  <2> QED  BY <2>1, <2>3 DEF f
<1> DEFINE In(l) == idx[l] \in Nat /\ idx[l] < Len(levels[l])
           T == {l \in 1..h : ~ In(l)}
<1>9. T = {}
  <2> SUFFICES ASSUME T # {} PROVE FALSE
    OBVIOUS
  <2>1. PICK l \in T : \A k \in T : l <= k
    <3>1. T \in SUBSET Nat
      OBVIOUS
    <3> HIDE DEF T
    <3> QED  BY <3>1, LeastNat
  <2>2. l \in 1..h /\ ~ In(l)
    OBVIOUS
  <2>3. l # 1
    <3>1. In(1)
      BY <1>7, <1>8
    <3> HIDE DEF In, T
    <3> QED  BY <2>2, <3>1
  <2> DEFINE b == l - 1
  <2>4. b \in 1..(h - 1) /\ b \in 1..h /\ ~ (l <= b) /\ b + 1 = l
    <3> HIDE DEF T, In
    <3> QED  BY <1>1, <2>2, <2>3
  <2> HIDE DEF b
  <2>5. In(b)
    <3>1. b \notin T
      <4> HIDE DEF T
      <4> QED  BY <2>1, <2>4
    <3> HIDE DEF In
    <3> QED  BY <2>4, <3>1
  <2> HIDE DEF T
  <2> DEFINE m == Len(levels[b])
             x == idx[b]
  <2>6. m \in Nat /\ m >= 1 /\ x \in Nat /\ x < m
    BY <1>1, <2>4, <2>5
  <2>7. levels[l] = Parents(levels[b]) /\ idx[l] = x \div 2
    BY <1>1, <1>7, <2>4
  <2>8. Len(levels[l]) = (m + 1) \div 2
    BY <2>6, <2>7, ParentsAre
  <2> HIDE DEF m, x
  <2>9. x \div 2 \in Nat /\ x \div 2 < (m + 1) \div 2
    BY <2>6, HalfAgain
  <2> QED  BY <2>2, <2>7, <2>8, <2>9
<1>10. \A l \in 1..h : In(l)
  BY <1>9
<1> HIDE DEF T
<1> DEFINE F(g) == g = [l \in 0..Len(pf.path) |->
                          IF l = 0 THEN pf.leaf_hash
                          ELSE IF pf.path[l].left THEN HashPair(pf.path[l].hash, g[l - 1])
                          ELSE HashPair(g[l - 1], pf.path[l].hash)]
           cur == CHOOSE g : F(g)
<1>11. Verify(pf, c) <=> <<c>> = pf.leaf_hash /\ cur[h - 1] = pf.root
  BY <1>6, Zenon DEF Verify
<1>12. F(cur)
  <2>1. \A g : F(g) <=> Folds(pf.leaf_hash, pf.path, h - 1, g)
    BY <1>6, Zenon DEF Folds
  <2>2. \E g : F(g)
    BY <1>1, <2>1, FoldsExist, Zenon
  <2> HIDE DEF F
  <2> QED  BY <2>2, Zenon
<1>13. cur = [l \in 0..(h - 1) |-> IF l = 0 THEN pf.leaf_hash
                                    ELSE IF pf.path[l].left THEN HashPair(pf.path[l].hash, cur[l - 1])
                                    ELSE HashPair(cur[l - 1], pf.path[l].hash)]
  BY <1>6, <1>12, Zenon
<1> HIDE DEF cur, F, In
<1>14. \A l \in 0..(h - 1) : cur[l] = IF l = 0 THEN pf.leaf_hash
                                    ELSE IF pf.path[l].left THEN HashPair(pf.path[l].hash, cur[l - 1])
                                    ELSE HashPair(cur[l - 1], pf.path[l].hash)
  BY <1>13, Zenon
<1> DEFINE W == {l \in 0..(h - 1) : cur[l] # levels[l + 1][idx[l + 1] + 1]}
<1>15. W = {}
  <2> SUFFICES ASSUME W # {} PROVE FALSE
    OBVIOUS
  <2>1. PICK l \in W : \A k \in W : l <= k
    <3>1. W \in SUBSET Nat
      BY <1>1
    <3> HIDE DEF W
    <3> QED  BY <3>1, LeastNat
  <2>2. l \in 0..(h - 1) /\ cur[l] # levels[l + 1][idx[l + 1] + 1]
    OBVIOUS
  <2>3. l # 0
    <3>1. cur[0] = levels[1][idx[1] + 1]
      <4> HIDE DEF W
      <4>1. cur[0] = pf.leaf_hash
        <5>1. 0 \in 0..(h - 1)
          BY <1>1
        <5> QED  BY <1>14, <5>1, Zenon
      <4> QED  BY <1>3, <1>7, <4>1, Zenon
    <3>2. 0 + 1 = 1
      OBVIOUS
    <3> HIDE DEF W
    <3> QED  BY <2>2, <3>1, <3>2, Zenon
  <2> DEFINE b == l - 1
  <2>4. b \in 0..(h - 1) /\ b + 1 = l /\ ~ (l <= b) /\ l \in 1..(h - 1) /\ l \in 1..h
    <3> HIDE DEF W
    <3> QED  BY <1>1, <2>2, <2>3
  <2> HIDE DEF b
  <2>5. cur[b] = levels[l][idx[l] + 1]
    <3>1. b \notin W
      <4> HIDE DEF W
      <4> QED  BY <2>1, <2>4
    <3> QED  BY <2>4, <3>1
  <2> HIDE DEF W
  <2>6. l - 1 = b
    BY <2>4
  <2> DEFINE m == Len(levels[l])
             x == idx[l]
             side == levels[l][Beside(m, x) + 1]
  <2>7. m \in Nat /\ x \in Nat /\ x < m
    BY <1>1, <1>10, <2>4 DEF In
  <2>8. levels[l + 1] = Parents(levels[l]) /\ idx[l + 1] = x \div 2
    BY <1>1, <1>7, <2>4
  <2>9. Parents(levels[l])[x \div 2 + 1] = IF x % 2 = 1 THEN HashPair(side, levels[l][x + 1]) ELSE HashPair(levels[l][x + 1], side)
    BY <2>7, ParentOf
  <2>10. pf.path[l].hash = side /\ pf.path[l].left = (x % 2 = 1)
    BY <1>5, <2>4
  <2> HIDE DEF m, x, side
  <2>11. cur[l] = IF pf.path[l].left THEN HashPair(pf.path[l].hash, cur[b]) ELSE HashPair(cur[b], pf.path[l].hash)
    BY <1>14, <2>2, <2>3, <2>6, Zenon
  <2>12. cur[b] = levels[l][x + 1]
    BY <2>5 DEF x
  <2>13. cur[l] = IF x % 2 = 1 THEN HashPair(side, levels[l][x + 1]) ELSE HashPair(levels[l][x + 1], side)
    BY <2>10, <2>11, <2>12, Zenon
  <2> QED  BY <2>2, <2>8, <2>9, <2>13, Zenon
<1>16. cur[h - 1] = Root(levels)
  <2>1. h - 1 \in 0..(h - 1) /\ (h - 1) + 1 = h
    BY <1>1
  <2>2. cur[h - 1] = levels[h][idx[h] + 1]
    BY <1>15, <2>1
  <2>3. idx[h] = 0
    <3> DEFINE x == idx[h]
    <3>1. x \in Nat /\ x < 1
      BY <1>1, <1>10 DEF In
    <3> HIDE DEF x
    <3>2. x = 0
      BY <3>1
    <3> QED  BY <3>2 DEF x
  <2> QED  BY <1>1, <2>2, <2>3 DEF Root
<1>17. pf.leaf_hash = <<bs[i]>>
  <2>1. (i - 1) + 1 = i
    OBVIOUS
  <2> QED  BY <1>3, <1>8, <2>1
<1>18. <<c>> = <<bs[i]>> <=> c = bs[i]
  OBVIOUS
<1> QED  BY <1>3, <1>11, <1>16, <1>17, <1>18 DEF pf

\* Two levels of the same length with the same parents are the same.
LEMMA ParentsTell ==
    ASSUME NEW s, NEW t, NEW n \in Nat, Len(s) = n, Len(t) = n, DOMAIN s = 1..n, DOMAIN t = 1..n, Parents(s) = Parents(t)
    PROVE  \A k \in 1..n : s[k] = t[k]
<1> SUFFICES ASSUME NEW k \in 1..n PROVE s[k] = t[k]
  OBVIOUS
<1> DEFINE x == k - 1
           a == Parents(s)[x \div 2 + 1]
           b == Parents(t)[x \div 2 + 1]
<1>1. x \in Nat /\ x < n /\ x + 1 = k
  OBVIOUS
<1>2. a = IF x % 2 = 1 THEN HashPair(s[Beside(n, x) + 1], s[x + 1]) ELSE HashPair(s[x + 1], s[Beside(n, x) + 1])
  BY <1>1, ParentOf
<1>3. b = IF x % 2 = 1 THEN HashPair(t[Beside(n, x) + 1], t[x + 1]) ELSE HashPair(t[x + 1], t[Beside(n, x) + 1])
  BY <1>1, ParentOf
<1>4. a = b
  OBVIOUS
<1> HIDE DEF x, a, b
<1>5. CASE x % 2 = 1
  BY <1>1, <1>2, <1>3, <1>4, <1>5 DEF HashPair
<1>6. CASE x % 2 # 1
  BY <1>1, <1>2, <1>3, <1>4, <1>6 DEF HashPair
<1> QED  BY <1>5, <1>6

\* Trees over the same number of blocks have the same shape.
SameShape(s, g, t, h) == g = h /\ \A l \in 1..h : Len(s[l]) = Len(t[l])

\* As many contents make trees of one shape.
LEMMA TreesAlike ==
    ASSUME NEW as, NEW bs, NEW n \in Nat, DOMAIN as = 1..n, DOMAIN bs = 1..n,
           NEW s, NEW g, Tree(as, n, s, g), NEW t, NEW h, Tree(bs, n, t, h)
    PROVE  SameShape(s, g, t, h)
<1>1. /\ g \in 1..n /\ h \in 1..n /\ g \in 1..g /\ h \in 1..h /\ 1 \in 1..g /\ 1 \in 1..h
      /\ \A l \in 1..g : Len(s[l]) \in Nat /\ Len(s[l]) >= 1
      /\ \A l \in 1..h : Len(t[l]) \in Nat /\ Len(t[l]) >= 1
      /\ Len(s[g]) = 1 /\ \A l \in 1..g : Len(s[l]) = 1 => l = g
      /\ Len(t[h]) = 1 /\ \A l \in 1..h : Len(t[l]) = 1 => l = h
      /\ \A l \in 1..(g - 1) : s[l + 1] = Parents(s[l])
      /\ \A l \in 1..(h - 1) : t[l + 1] = Parents(t[l])
      /\ s[1] = Leaves(as) /\ t[1] = Leaves(bs)
  BY DEF Tree
<1>2. Len(s[1]) = n /\ Len(t[1]) = n
  <2> DEFINE p == Leaves(as)
             q == Leaves(bs)
  <2>1. p = [k \in 1..n |-> p[k]] /\ q = [k \in 1..n |-> q[k]]
    BY Zenon DEF Leaves
  <2> HIDE DEF p, q
  <2>2. Len(p) = n /\ Len(q) = n
    BY <2>1, ListIs
  <2> QED  BY <1>1, <2>2 DEF p, q
<1> DEFINE T == {l \in 1..n : l \in 1..g /\ l \in 1..h /\ Len(s[l]) # Len(t[l])}
<1>3. T = {}
  <2> SUFFICES ASSUME T # {} PROVE FALSE
    OBVIOUS
  <2>1. PICK l \in T : \A k \in T : l <= k
    <3>1. T \in SUBSET Nat
      OBVIOUS
    <3> HIDE DEF T
    <3> QED  BY <3>1, LeastNat
  <2>2. l \in 1..n /\ l \in 1..g /\ l \in 1..h /\ Len(s[l]) # Len(t[l])
    OBVIOUS
  <2> DEFINE b == l - 1
  <2>3. l # 1
    BY <1>2, <2>2
  <2>4. b \in 1..n /\ b \in 1..g /\ b \in 1..h /\ b \in 1..(g - 1) /\ b \in 1..(h - 1) /\ b + 1 = l /\ ~ (l <= b)
    <3> HIDE DEF T
    <3> QED  BY <1>1, <2>2, <2>3
  <2> HIDE DEF b
  <2>5. Len(s[b]) = Len(t[b])
    <3>1. b \notin T
      <4> HIDE DEF T
      <4> QED  BY <2>1, <2>4
    <3> QED  BY <2>4, <3>1
  <2> HIDE DEF T
  <2>6. s[l] = Parents(s[b]) /\ t[l] = Parents(t[b])
    BY <1>1, <2>4
  <2>7. Len(s[b]) \in Nat /\ Len(s[b]) >= 1 /\ Len(t[b]) \in Nat /\ Len(t[b]) >= 1
    BY <1>1, <2>4
  <2>8. Len(s[l]) = (Len(s[b]) + 1) \div 2 /\ Len(t[l]) = (Len(t[b]) + 1) \div 2
    BY <2>6, <2>7, ParentsAre
  <2> QED  BY <2>2, <2>5, <2>8
<1>4. ASSUME NEW l \in 1..n, l \in 1..g, l \in 1..h PROVE Len(s[l]) = Len(t[l])
  BY <1>3, <1>4
<1> HIDE DEF T
<1>5. g = h
  <2>1. CASE g <= h
    <3>1. g \in 1..n /\ g \in 1..h
      BY <1>1, <2>1
    <3>2. Len(t[g]) = 1
      BY <1>1, <1>4, <3>1
    <3> QED  BY <1>1, <3>1, <3>2
  <2>2. CASE h <= g
    <3>1. h \in 1..n /\ h \in 1..g
      BY <1>1, <2>2
    <3>2. Len(s[h]) = 1
      BY <1>1, <1>4, <3>1
    <3> QED  BY <1>1, <3>1, <3>2
  <2>3. g <= h \/ h <= g
    BY <1>1
  <2> QED  BY <2>1, <2>2, <2>3
<1>6. \A l \in 1..h : l \in 1..n /\ l \in 1..g
  BY <1>1, <1>5
<1> QED  BY <1>4, <1>5, <1>6 DEF SameShape

\* The root tells the blocks.
LEMMA RootTells ==
    ASSUME NEW as, NEW bs, NEW n \in Nat, DOMAIN as = 1..n, DOMAIN bs = 1..n,
           NEW s, NEW g, Tree(as, n, s, g), NEW t, NEW h, Tree(bs, n, t, h), Root(s) = Root(t)
    PROVE  \A i \in 1..n : as[i] = bs[i]
<1>1. g = h /\ \A l \in 1..h : Len(s[l]) = Len(t[l])
  <2>1. SameShape(s, g, t, h)
    BY TreesAlike, Zenon
  <2> QED  BY <2>1, Zenon DEF SameShape
<1>2. /\ h \in 1..n /\ h \in 1..h /\ 1 \in 1..h /\ Len(s) = h /\ Len(t) = h
      /\ \A l \in 1..h : Len(s[l]) \in Nat /\ DOMAIN s[l] = 1..Len(s[l])
      /\ \A l \in 1..h : Len(t[l]) \in Nat /\ DOMAIN t[l] = 1..Len(t[l])
      /\ Len(s[h]) = 1 /\ Len(t[h]) = 1
      /\ \A l \in 1..(h - 1) : s[l + 1] = Parents(s[l])
      /\ \A l \in 1..(h - 1) : t[l + 1] = Parents(t[l])
      /\ s[1] = Leaves(as) /\ t[1] = Leaves(bs)
  BY <1>1 DEF Tree
<1> DEFINE Alike(l) == \A k \in 1..Len(s[l]) : s[l][k] = t[l][k]
           T == {l \in 1..h : ~ Alike(l)}
<1>3. T = {}
  <2> SUFFICES ASSUME T # {} PROVE FALSE
    OBVIOUS
  <2>1. PICK l \in T : \A k \in T : k <= l
    <3>1. T \in SUBSET Nat /\ h \in Nat /\ \A k \in T : k <= h
      BY <1>2
    <3> HIDE DEF T
    <3> QED  BY <3>1, GreatestNat
  <2>2. l \in 1..h /\ ~ Alike(l)
    OBVIOUS
  <2>3. l # h
    <3>1. Alike(h)
      <4>1. s[h][1] = t[h][1]
        BY <1>2 DEF Root
      <4>2. \A k \in 1..Len(s[h]) : k = 1
        BY <1>2
      <4> QED  BY <4>1, <4>2
    <3> HIDE DEF Alike, T
    <3> QED  BY <2>2, <3>1
  <2>4. l \in 1..(h - 1) /\ l + 1 \in 1..h /\ ~ (l + 1 <= l)
    <3> HIDE DEF Alike, T
    <3> QED  BY <1>2, <2>2, <2>3
  <2>5. Alike(l + 1)
    <3>1. l + 1 \notin T
      <4> HIDE DEF T
      <4> QED  BY <2>1, <2>4
    <3> HIDE DEF Alike
    <3> QED  BY <2>4, <3>1
  <2> HIDE DEF T
  <2> DEFINE n0 == Len(s[l])
             P == Parents(s[l])
             Q == Parents(t[l])
  <2>6. n0 \in Nat /\ Len(t[l]) = n0 /\ DOMAIN s[l] = 1..n0 /\ DOMAIN t[l] = 1..n0
    BY <1>1, <1>2, <2>2
  <2>7. P = s[l + 1] /\ Q = t[l + 1]
    BY <1>2, <2>4
  <2>8. DOMAIN P = 1..Len(s[l + 1]) /\ DOMAIN Q = 1..Len(s[l + 1])
    BY <1>1, <1>2, <2>4, <2>7
  <2>9. P = [k \in DOMAIN P |-> P[k]] /\ Q = [k \in DOMAIN Q |-> Q[k]]
    BY Zenon DEF Parents
  <2> HIDE DEF P, Q, n0
  <2>10. P = Q
    BY <2>5, <2>7, <2>8, <2>9
  <2>11. \A k \in 1..n0 : s[l][k] = t[l][k]
    BY <2>6, <2>10, ParentsTell DEF P, Q
  <2> QED  BY <2>2, <2>11 DEF n0
<1>4. Alike(1)
  BY <1>2, <1>3
<1> HIDE DEF T
<1> SUFFICES ASSUME NEW i \in 1..n PROVE as[i] = bs[i]
  OBVIOUS
<1>5. s[1] = [k \in 1..n |-> <<as[k]>>] /\ t[1] = [k \in 1..n |-> <<bs[k]>>]
  BY <1>2, Zenon DEF Leaves
<1>6. Len(s[1]) = n
  <2> DEFINE p == s[1]
  <2>1. p = [k \in 1..n |-> p[k]]
    BY <1>5
  <2> HIDE DEF p
  <2>2. Len(p) = n
    BY <2>1, ListIs
  <2> QED  BY <2>2 DEF p
<1>7. <<as[i]>> = <<bs[i]>>
  <2>1. s[1][i] = <<as[i]>> /\ t[1][i] = <<bs[i]>>
    BY <1>5, Zenon
  <2>2. s[1][i] = t[1][i]
    BY <1>4, <1>6
  <2> QED  BY <2>1, <2>2, Zenon
<1> QED  BY <1>7

MerkleInv == blocks \in Seq(Content)

\* At the start there is no block, ...
LEMMA MerkleBegins == MerkleInit => MerkleInv
BY DEF MerkleInit, MerkleInv

\* ... and a block added is one of the contents.
LEMMA MerkleKeeps == MerkleInv /\ [MerkleNext]_blocks => MerkleInv'
<1> SUFFICES ASSUME MerkleInv, [MerkleNext]_blocks PROVE MerkleInv'
  OBVIOUS
<1>1. CASE blocks' = blocks
  BY <1>1 DEF MerkleInv
<1>2. CASE MerkleNext
  <2>1. PICK c \in Content : blocks' = Append(blocks, c)
    BY <1>2 DEF MerkleNext
  <2> QED  BY <2>1 DEF MerkleInv
<1> QED  BY <1>1, <1>2

\* A proof is good for one content and the root tells any change.
LEMMA MerkleIsSafe == MerkleInv => MerkleSafe
<1> SUFFICES ASSUME MerkleInv, blocks # << >>, NEW i \in DOMAIN blocks, NEW c \in Content
             PROVE  /\ Verify(Proof(Build(blocks), i - 1), c) <=> c = blocks[i]
                    /\ VerifyBlock(Build(blocks), i, c) <=> c = blocks[i]
                    /\ Root(Build([blocks EXCEPT ![i] = c])) = Root(Build(blocks)) <=> c = blocks[i]
  BY Zenon DEF MerkleSafe
<1> DEFINE n == Len(blocks)
           levels == Build(blocks)
           bs == [blocks EXCEPT ![i] = c]
<1>1. /\ n \in Nat /\ n >= 1 /\ DOMAIN blocks = 1..n /\ i \in 1..n
      /\ DOMAIN bs = 1..n /\ Len(bs) = n /\ bs[i] = c
  BY DEF MerkleInv
<1>2. c = blocks[i] => bs = blocks
  <2> SUFFICES ASSUME c = blocks[i] PROVE bs = blocks
    OBVIOUS
  <2>1. blocks = [k \in 1..n |-> blocks[k]]
    BY <1>1 DEF MerkleInv
  <2>2. bs = [k \in 1..n |-> IF k = i THEN c ELSE blocks[k]]
    BY <1>1
  <2> HIDE DEF bs, n
  <2> QED  BY <2>1, <2>2
<1> HIDE DEF n, bs
<1>3. PICK h : Tree(blocks, n, levels, h)
  BY <1>1, BuildIs DEF n
<1>4. PICK g : Tree(bs, n, Build(bs), g)
  BY <1>1, BuildIs
<1> HIDE DEF levels
<1>5. Verify(Proof(levels, i - 1), c) <=> c = blocks[i]
  BY <1>1, <1>3, ProofClimbs
<1>6. VerifyBlock(levels, i, c) <=> c = blocks[i]
  <2>1. levels[1] = [k \in 1..n |-> <<blocks[k]>>]
    BY <1>1, <1>3, Zenon DEF Tree, Leaves
  <2>2. i \in DOMAIN levels[1] /\ levels[1][i] = <<blocks[i]>>
    BY <1>1, <2>1
  <2>3. <<c>> = <<blocks[i]>> <=> c = blocks[i]
    OBVIOUS
  <2> QED  BY <2>2, <2>3 DEF VerifyBlock
<1>7. Root(Build(bs)) = Root(levels) <=> c = blocks[i]
  <2>1. ASSUME Root(Build(bs)) = Root(levels) PROVE c = blocks[i]
    <3>1. \A k \in 1..n : bs[k] = blocks[k]
      BY <1>1, <1>3, <1>4, <2>1, RootTells
    <3> QED  BY <1>1, <3>1
  <2>2. ASSUME c = blocks[i] PROVE Root(Build(bs)) = Root(levels)
    BY <1>2, <2>2 DEF levels
  <2> QED  BY <2>1, <2>2
<1> QED  BY <1>5, <1>6, <1>7 DEF levels, bs

-----------------------------------------------------------------------------
(* Lists of units. *)

\* A list of n elements.
IsList(b, n) == n \in Nat /\ b = [i \in 1..n |-> b[i]]

\* A list is a sequence, ...
LEMMA ListSeq == ASSUME NEW b, NEW n, IsList(b, n)
                 PROVE  n \in Nat /\ DOMAIN b = 1..n /\ Len(b) = n /\ \E S : b \in Seq(S)
<1> DEFINE S == {b[i] : i \in 1..n}
<1>1. n \in Nat /\ DOMAIN b = 1..n
  BY DEF IsList
<1>2. b \in [1..n -> S]
  BY DEF IsList
<1> HIDE DEF S
<1>3. b \in Seq(S)
  BY <1>1, <1>2
<1> QED  BY <1>1, <1>3

\* ... a sequence is a list, ...
LEMMA SeqList == ASSUME NEW S, NEW b \in Seq(S) PROVE IsList(b, Len(b))
BY DEF IsList

\* ... and it is its elements.
LEMMA SameLists == ASSUME NEW b, NEW c, NEW n, IsList(b, n), IsList(c, n), \A i \in 1..n : b[i] = c[i] PROVE b = c
BY DEF IsList

\* One list after another.
Joined(b, n, c, m, bc) == /\ IsList(bc, n + m)
                          /\ \A i \in 1..n : bc[i] = b[i]
                          /\ \A i \in 1..m : bc[n + i] = c[i]

\* The concatenation of two lists is that.
LEMMA JoinIs == ASSUME NEW b, NEW n, IsList(b, n), NEW c, NEW m, IsList(c, m) PROVE Joined(b, n, c, m, b \o c)
<1> DEFINE S == {b[i] : i \in 1..n} \cup {c[i] : i \in 1..m}
<1>1. n \in Nat /\ m \in Nat
  BY DEF IsList
<1>2. b \in [1..n -> S] /\ c \in [1..m -> S]
  BY DEF IsList
<1> HIDE DEF S
<1>3. b \in Seq(S) /\ c \in Seq(S) /\ Len(b) = n /\ Len(c) = m
  BY <1>1, <1>2
<1> DEFINE bc == b \o c
<1>4. bc \in Seq(S) /\ Len(bc) = n + m /\ (\A i \in 1..n : bc[i] = b[i]) /\ \A i \in 1..m : bc[n + i] = c[i]
  <2>1. bc \in Seq(S)
    BY <1>3
  <2>2. Len(bc) = Len(b) + Len(c)
    BY <1>3
  <2>3. ASSUME NEW i \in 1..Len(b) PROVE bc[i] = b[i]
    BY <1>3
  <2>4. ASSUME NEW i \in 1..Len(c) PROVE bc[Len(b) + i] = c[i]
    BY <1>3
  <2> HIDE DEF bc
  <2> QED  BY <1>3, <2>1, <2>2, <2>3, <2>4
<1> HIDE DEF bc
<1>5. IsList(bc, n + m)
  BY <1>4, SeqList
<1> QED  BY <1>4, <1>5 DEF Joined, bc

\* A part of a list.
Part(b, lo, k, s) == IsList(s, k) /\ \A i \in 1..k : s[i] = b[lo + i - 1]

\* A subsequence is a part.
LEMMA PartIs ==
    ASSUME NEW b, NEW n, IsList(b, n), NEW lo \in Nat, NEW hi \in Nat, 1 <= lo, lo <= hi + 1, hi <= n,
           NEW k \in Nat, k = hi + 1 - lo
    PROVE  Part(b, lo, k, SubSeq(b, lo, hi))
<1>1. PICK S : b \in Seq(S)
  BY ListSeq, Zenon
<1>2. n \in Nat /\ Len(b) = n
  BY ListSeq
<1> DEFINE s == SubSeq(b, lo, hi)
<1>3. s \in Seq(S) /\ Len(s) = k /\ \A i \in 1..k : s[i] = b[lo + i - 1]
  BY <1>1, <1>2
<1> HIDE DEF s
<1>4. IsList(s, k)
  BY <1>3, SeqList
<1> QED  BY <1>3, <1>4 DEF Part, s

\* A list of one.
LEMMA OneIs == ASSUME NEW x PROVE IsList(<<x>>, 1) /\ <<x>>[1] = x
<1>1. <<x>> \in Seq({x}) /\ Len(<<x>>) = 1
  OBVIOUS
<1>2. IsList(<<x>>, Len(<<x>>))
  BY <1>1, SeqList, Zenon
<1> QED  BY <1>1, <1>2

-----------------------------------------------------------------------------
(* The cipher. *)

\* What a sealed text looks like.
Sealed(b, key, nonce, text, m) ==
    /\ IsList(b, m + 2)
    /\ b[1] = Unit("nonce", nonce, << >>, << >>)
    /\ b[m + 2] = Unit("tag", nonce, key, text)
    /\ \A u \in 1..m : b[u + 1] = Unit("ct", nonce, key, <<text[u]>>)

\* What is encrypted is sealed.
LEMMA SealIs == ASSUME NEW S, NEW text \in Seq(S), NEW key, NEW nonce
                PROVE  Sealed(Seal(key, nonce, text), key, nonce, text, Len(text))
<1> DEFINE m == Len(text)
           head == <<Unit("nonce", nonce, << >>, << >>)>>
           body == [i \in DOMAIN text |-> Unit("ct", nonce, key, <<text[i]>>)]
           tag == <<Unit("tag", nonce, key, text)>>
           hb == head \o body
           b == hb \o tag
<1>1. b = Seal(key, nonce, text)
  BY Zenon DEF Seal
<1>2. m \in Nat /\ DOMAIN text = 1..m
  OBVIOUS
<1>3. IsList(head, 1) /\ head[1] = Unit("nonce", nonce, << >>, << >>)
  BY OneIs, Zenon
<1>4. IsList(tag, 1) /\ tag[1] = Unit("tag", nonce, key, text)
  BY OneIs, Zenon
<1>5. IsList(body, m) /\ \A i \in 1..m : body[i] = Unit("ct", nonce, key, <<text[i]>>)
  <2> HIDE DEF m
  <2>1. \A i \in 1..m : body[i] = Unit("ct", nonce, key, <<text[i]>>)
    BY <1>2, Zenon
  <2>2. body = [i \in 1..m |-> body[i]]
    BY <1>2, Zenon
  <2> QED  BY <1>2, <2>1, <2>2, Zenon DEF IsList
<1> HIDE DEF m, head, body, tag
<1>6. Joined(head, 1, body, m, hb)
  BY <1>3, <1>5, JoinIs
<1>7. IsList(hb, 1 + m)
  BY <1>6 DEF Joined
<1>8. Joined(hb, 1 + m, tag, 1, b)
  BY <1>4, <1>7, JoinIs
<1> HIDE DEF hb, b
<1>9. (1 + m) + 1 = m + 2 /\ 1 \in 1..1 /\ 1 \in 1..(1 + m)
      /\ \A u \in 1..m : 1 + u = u + 1 /\ u + 1 \in 1..(1 + m)
  BY <1>2
<1>10. IsList(b, m + 2) /\ b[m + 2] = tag[1]
  BY <1>8, <1>9 DEF Joined
<1>11. b[1] = hb[1] /\ hb[1] = head[1]
  BY <1>6, <1>8, <1>9 DEF Joined
<1>12. \A u \in 1..m : b[u + 1] = body[u]
  BY <1>6, <1>8, <1>9 DEF Joined
<1>13. Sealed(b, key, nonce, text, m)
  BY <1>3, <1>4, <1>5, <1>10, <1>11, <1>12, Zenon DEF Sealed
<1> QED  BY <1>1, <1>13 DEF m

\* Every unit of a sealed text names the nonce, and has a text of its own.
IsUnit(x) == x = Unit(x.kind, x.n, x.key, x.text)

\* All units of a sealed text have its nonce, and one of them is a tag.
LEMMA SealedUnits ==
    ASSUME NEW S, NEW text \in Seq(S), NEW key, NEW nonce, NEW b, NEW m, m = Len(text), Sealed(b, key, nonce, text, m)
    PROVE  /\ m \in Nat /\ IsList(b, m + 2)
           /\ b[1].kind = "nonce" /\ b[m + 2].kind = "tag" /\ b[m + 2].key = key /\ b[m + 2].text = text
           /\ \A u \in 1..(m + 2) : b[u].n = nonce /\ b[u].text \in Seq(S) /\ (b[u].kind = "tag" => u = m + 2) /\ IsUnit(b[u])
<1>1. m \in Nat /\ IsList(b, m + 2) /\ b[1] = Unit("nonce", nonce, << >>, << >>) /\ b[m + 2] = Unit("tag", nonce, key, text)
      /\ \A u \in 1..m : b[u + 1] = Unit("ct", nonce, key, <<text[u]>>)
  BY DEF Sealed
<1>2. \A kind, n, k, t : /\ Unit(kind, n, k, t).kind = kind /\ Unit(kind, n, k, t).n = n
                         /\ Unit(kind, n, k, t).key = k /\ Unit(kind, n, k, t).text = t
  BY DEF Unit
<1>6. \A kind, n, k, t : IsUnit(Unit(kind, n, k, t))
  <2> SUFFICES ASSUME NEW kind, NEW n, NEW k, NEW t PROVE IsUnit(Unit(kind, n, k, t))
    OBVIOUS
  <2> QED  BY DEF IsUnit, Unit
<1>3. \A u \in 1..(m + 2) : u = 1 \/ u = m + 2 \/ (u - 1 \in 1..m /\ (u - 1) + 1 = u)
  BY <1>1
<1>4. << >> \in Seq(S) /\ \A u \in 1..m : <<text[u]>> \in Seq(S)
  <2>1. \A u \in 1..m : text[u] \in S
    OBVIOUS
  <2>2. \A x \in S : <<x>> \in Seq(S)
    OBVIOUS
  <2> QED  BY <2>1, <2>2
<1>5. ASSUME NEW u \in 1..(m + 2) 
      PROVE  b[u].n = nonce /\ b[u].text \in Seq(S) /\ (b[u].kind = "tag" => u = m + 2) /\ IsUnit(b[u])
  <2>1. CASE u = 1
    <3>1. b[u].n = nonce /\ b[u].text = << >> /\ b[u].kind = "nonce"
      BY <1>1, <1>2, <2>1
    <3>2. b[u].kind # "tag"
      BY <3>1
    <3>3. IsUnit(b[u])
      BY <1>1, <1>6, <2>1
    <3> QED  BY <1>4, <3>1, <3>2, <3>3
  <2>2. CASE u = m + 2
    <3>1. IsUnit(b[u])
      BY <1>1, <1>6, <2>2
    <3> QED  BY <1>1, <1>2, <1>4, <2>2, <3>1
  <2>3. CASE u - 1 \in 1..m /\ (u - 1) + 1 = u
    <3>1. b[u] = Unit("ct", nonce, key, <<text[u - 1]>>)
      BY <1>1, <2>3
    <3>2. b[u].n = nonce /\ b[u].text = <<text[u - 1]>> /\ b[u].kind = "ct"
      BY <1>2, <3>1
    <3>3. b[u].kind # "tag"
      BY <3>2
    <3>4. IsUnit(b[u])
      BY <1>6, <3>1, Zenon
    <3> QED  BY <1>4, <2>3, <3>2, <3>3, <3>4
  <2> QED  BY <1>3, <2>1, <2>2, <2>3
<1> QED  BY <1>1, <1>2, <1>5

\* Opened with the key it was sealed with, and with no other.
Opens(k2, key, nonce, text) == Open(k2, Seal(key, nonce, text)) = IF k2 = key THEN Ok(text) ELSE Err

\* Decrypt opens what was sealed with the key it is given, and nothing else.
LEMMA OpenSealed ==
    ASSUME NEW S, NEW text \in Seq(S), NEW key, NEW nonce, NEW k2
    PROVE  Opens(k2, key, nonce, text)
<1> DEFINE m == Len(text)
           b == Seal(key, nonce, text)
<1>1. Sealed(b, key, nonce, text, m)
  BY SealIs
<1> HIDE DEF b, m
<1>2. /\ m \in Nat /\ IsList(b, m + 2) /\ b[m + 2].text = text /\ b[m + 2].key = key
      /\ \A u \in 1..(m + 2) : b[u].n = nonce
  BY <1>1, SealedUnits DEF m
<1>3. Len(b) = m + 2 /\ Len(b) >= 2 /\ 1 \in 1..(m + 2)
  BY <1>2, ListSeq
<1>4. Last(b) = b[m + 2]
  BY <1>3 DEF Last
<1>5. Open(k2, b) = IF b = Seal(k2, nonce, text) THEN Ok(text) ELSE Err
  BY <1>2, <1>3, <1>4 DEF Open
<1>6. CASE k2 = key
  <2>1. Open(k2, b) = Ok(text)
    BY <1>5, <1>6 DEF b
  <2> QED  BY <1>6, <2>1 DEF b, Opens
<1>7. CASE k2 # key
  <2> DEFINE c == Seal(k2, nonce, text)
  <2>1. Sealed(c, k2, nonce, text, m)
    BY SealIs DEF m
  <2> HIDE DEF c
  <2>2. c[m + 2].key = k2
    BY <2>1, SealedUnits DEF m
  <2>3. b # c
    BY <1>2, <1>7, <2>2
  <2>4. Open(k2, b) = Err
    BY <1>5, <2>3, Zenon DEF c
  <2> QED  BY <1>7, <2>4 DEF b, Opens
<1> QED  BY <1>6, <1>7 DEF Opens

\* A list is refused by every key when it does not end in a tag, does not
\* begin with a nonce, or mixes nonces.
Broken(b, n) == \/ n < 2
                \/ b[n].kind # "tag" \/ b[1].kind # "nonce"
                \/ \E u \in 1..n, v \in 1..n : b[u].n # b[v].n

\* Decrypt refuses it.
LEMMA OpenBroken ==
    ASSUME NEW S, NEW b, NEW n, IsList(b, n), n >= 2 => b[n].text \in Seq(S), Broken(b, n), NEW key
    PROVE  Open(key, b) = Err
<1>1. n \in Nat /\ Len(b) = n
  BY ListSeq
<1>2. CASE n < 2
  BY <1>1, <1>2 DEF Open
<1>3. CASE ~ (n < 2)
  <2> DEFINE text == b[n].text
             c == Seal(key, b[1].n, text)
  <2>1. text \in Seq(S) /\ Last(b) = b[n] /\ n >= 2
    BY <1>1, <1>3 DEF Last
  <2>2. Open(key, b) = IF b = c THEN Ok(text) ELSE Err
    BY <1>1, <2>1, Zenon DEF Open
  <2>3. ASSUME b = c PROVE FALSE
    <3> DEFINE m == Len(text)
    <3>1. Sealed(c, key, b[1].n, text, m)
      BY <2>1, SealIs
    <3> HIDE DEF text, c, m
    <3>2. /\ m \in Nat /\ IsList(c, m + 2) /\ c[1].kind = "nonce" /\ c[m + 2].kind = "tag"
          /\ \A u \in 1..(m + 2) : c[u].n = b[1].n
      BY <2>1, <3>1, SealedUnits DEF m
    <3>3. m + 2 = n
      <4>1. Len(c) = m + 2
        BY <3>2, ListSeq
      <4> QED  BY <1>1, <2>3, <4>1
    <3> QED  BY <1>3, <2>3, <3>2, <3>3 DEF Broken
  <2> QED  BY <2>2, <2>3
<1> QED  BY <1>2, <1>3

-----------------------------------------------------------------------------
(* Envelopes. *)

\* The parts of an envelope: the length of the wrapped key, the wrapped key of
\* four units, and the sealed text.
Envelope(b, i, master, text) ==
    /\ IsList(b, 5 + (Len(text) + 2)) /\ b[1] = Unit("len", 4, << >>, << >>) /\ b[1].n = 4 /\ Len(text) \in Nat
    /\ \A u \in 1..4 : b[1 + u] = Seal(master, 2 * i + 1, DataKeys[i])[u]
    /\ \A u \in 1..(Len(text) + 2) : b[5 + u] = Seal(DataKeys[i], 2 * i, text)[u]

\* The data keys have one length.
LEMMA KeysAre == ASSUME NEW i \in DOMAIN DataKeys
                 PROVE  DataKeys[i] \in Seq(STRING) /\ Len(DataKeys[i]) = 2 /\ Len(DataKeys[i]) + 2 = 4 /\ i \in Nat
<1>1. DataKeys[i] \in Seq(STRING) /\ i \in Nat
  BY KeyAssumption
<1>2. Len(DataKeys[i]) = 2
  BY KeyAssumption, Zenon DEF KeyLen
<1>3. 2 + 2 = 4
  OBVIOUS
<1> QED  BY <1>1, <1>2, <1>3, Zenon

\* What encrypt makes is an envelope.
LEMMA EncryptIs ==
    ASSUME NEW p, NEW i \in DOMAIN DataKeys, NEW text \in Texts
    PROVE  Envelope(EncryptEnvelope(p, DataKeys[i], 2 * i, text), i, MasterKey(p), text)
<1> DEFINE m == Len(text)
           w == Seal(MasterKey(p), 2 * i + 1, DataKeys[i])
           e == Seal(DataKeys[i], 2 * i, text)
           head == <<Unit("len", 4, << >>, << >>)>>
           hw == head \o w
           b == hw \o e
<1>1. text \in Seq(STRING) /\ m \in Nat
  BY KeyAssumption
<1>2. Sealed(w, MasterKey(p), 2 * i + 1, DataKeys[i], Len(DataKeys[i]))
  BY KeysAre, SealIs
<1>3. IsList(w, 4) /\ Len(w) = 4
  <2>1. IsList(w, Len(DataKeys[i]) + 2)
    BY <1>2, Zenon DEF Sealed
  <2> HIDE DEF w
  <2>2. IsList(w, 4)
    <3>1. Len(DataKeys[i]) + 2 = 4
      BY KeysAre
    <3> QED  BY <2>1, <3>1, Zenon
  <2> QED  BY <2>2, ListSeq
<1>4. Sealed(e, DataKeys[i], 2 * i, text, m)
  BY <1>1, SealIs
<1>5. IsList(e, m + 2)
  BY <1>4 DEF Sealed
<1>6. EncryptEnvelope(p, DataKeys[i], 2 * i, text) = b
  <2>1. \A k, n, t : TdeEncrypt(FromRawKey(k), n, t) = Seal(k, n, t)
    BY DEF TdeEncrypt, FromRawKey
  <2>2. EncryptDataKey(p, 2 * i + 1, DataKeys[i]) = w
    BY <2>1, Zenon DEF EncryptDataKey
  <2> QED  BY <1>3, <2>1, <2>2, Zenon DEF EncryptEnvelope
<1>7. IsList(head, 1) /\ head[1].n = 4 /\ head[1] = Unit("len", 4, << >>, << >>)
  <2>1. head[1] = Unit("len", 4, << >>, << >>)
    BY OneIs, Zenon
  <2> QED  BY <2>1, OneIs DEF Unit
<1> HIDE DEF head
<1> HIDE DEF w, e
<1>8. Joined(head, 1, w, 4, hw)
  BY <1>3, <1>7, JoinIs
<1>9. IsList(hw, 5)
  BY <1>8 DEF Joined
<1>10. Joined(hw, 5, e, m + 2, b)
  BY <1>5, <1>9, JoinIs
<1> HIDE DEF hw, b, m
<1>11. b[1] = head[1]
  BY <1>8, <1>10 DEF Joined
<1>12. \A u \in 1..4 : b[1 + u] = w[u]
  <2>1. \A u \in 1..4 : 1 + u \in 1..5
    OBVIOUS
  <2> QED  BY <1>8, <1>10, <2>1 DEF Joined
<1>13. IsList(b, 5 + (m + 2)) /\ \A u \in 1..(m + 2) : b[5 + u] = e[u]
  BY <1>10 DEF Joined
<1>14. Envelope(b, i, MasterKey(p), text)
  BY <1>1, <1>7, <1>11, <1>12, <1>13, Zenon DEF Envelope, w, e, m
<1> QED  BY <1>6, <1>14

\* How an envelope is opened, whatever it holds.
Decrypts(p, b, n, w, ws, es) ==
    /\ n < 1 + w => DecryptEnvelope(p, b) = Err
    /\ ~ (n < 1 + w) /\ Open(MasterKey(p), ws) = Err => DecryptEnvelope(p, b) = Err
    /\ \A key : ~ (n < 1 + w) /\ Open(MasterKey(p), ws) = Ok(key) /\ Len(key) = 2
                   => DecryptEnvelope(p, b) = Open(key, es)

\* Decrypt does so with the two parts of the blob.
LEMMA DecryptIs ==
    ASSUME NEW p, NEW b, NEW n, IsList(b, n), n >= 1, NEW w, w = b[1].n, NEW ws, NEW es,
           ws = SubSeq(b, 2, 1 + w), es = SubSeq(b, 2 + w, n)
    PROVE  Decrypts(p, b, n, w, ws, es)
<1>1. Len(b) = n /\ DOMAIN b = 1..n /\ n \in Nat
  BY ListSeq
<1>2. b # << >>
  BY <1>1
<1>3. \A k, x : TdeDecrypt(FromRawKey(k), x) = Open(k, x)
  BY DEF TdeDecrypt, FromRawKey
<1> DEFINE key == DecryptDataKey(p, ws)
<1>4. DecryptEnvelope(p, b) = IF n < 1 + w THEN Err ELSE IF key.ok THEN Open(key.text, es) ELSE Err
  BY <1>1, <1>2, <1>3, Zenon DEF DecryptEnvelope
<1>5. key = IF Open(MasterKey(p), ws).ok /\ Len(Open(MasterKey(p), ws).text) = 2 THEN Open(MasterKey(p), ws) ELSE Err
  BY <1>3, Zenon DEF DecryptDataKey, KeyLen
<1>6. ~ Err.ok /\ \A t : Ok(t).ok /\ Ok(t).text = t
  BY DEF Err, Ok
<1> HIDE DEF key
<1>7. Open(MasterKey(p), ws) = Err => key = Err
  BY <1>5, <1>6
<1>8. ASSUME NEW t, Open(MasterKey(p), ws) = Ok(t), Len(t) = 2 PROVE key.ok /\ key.text = t
  <2>1. key = Ok(t)
    BY <1>5, <1>6, <1>8
  <2> QED  BY <1>6, <2>1
<1> QED  BY <1>4, <1>6, <1>7, <1>8 DEF Decrypts

\* The parts of an envelope that is as written up to some unit.
LEMMA PartsAre ==
    ASSUME NEW b, NEW i \in DOMAIN DataKeys, NEW master, NEW text \in Texts, Envelope(b, i, master, text)
    PROVE  /\ SubSeq(b, 2, 5) = Seal(master, 2 * i + 1, DataKeys[i])
           /\ SubSeq(b, 6, 5 + (Len(text) + 2)) = Seal(DataKeys[i], 2 * i, text)
<1> DEFINE m == Len(text)
           w == Seal(master, 2 * i + 1, DataKeys[i])
           e == Seal(DataKeys[i], 2 * i, text)
           n == 5 + (m + 2)
<1>1. text \in Seq(STRING) /\ m \in Nat
  BY KeyAssumption
<1>2. IsList(b, n) /\ (\A u \in 1..4 : b[1 + u] = w[u]) /\ \A u \in 1..(m + 2) : b[5 + u] = e[u]
  BY DEF Envelope
<1>3. IsList(w, 4)
  <2>1. Sealed(w, master, 2 * i + 1, DataKeys[i], Len(DataKeys[i]))
    BY KeysAre, SealIs
  <2>2. IsList(w, Len(DataKeys[i]) + 2)
    BY <2>1, Zenon DEF Sealed
  <2> HIDE DEF w
  <2>3. Len(DataKeys[i]) + 2 = 4
    BY KeysAre
  <2> QED  BY <2>2, <2>3, Zenon
<1>4. IsList(e, m + 2)
  <2>1. Sealed(e, DataKeys[i], 2 * i, text, m)
    BY <1>1, SealIs
  <2> QED  BY <2>1 DEF Sealed
<1> HIDE DEF w, e, m
<1>5. Part(b, 2, 4, SubSeq(b, 2, 5)) /\ Part(b, 6, m + 2, SubSeq(b, 6, n))
  <2>1. 2 \in Nat /\ 5 \in Nat /\ 6 \in Nat /\ n \in Nat /\ 4 \in Nat /\ m + 2 \in Nat /\ 1 <= 2 /\ 1 <= 6 /\ 2 <= 5 + 1
        /\ 5 <= n /\ 6 <= n + 1 /\ n <= n /\ 4 = 5 + 1 - 2 /\ m + 2 = n + 1 - 6
    BY <1>1
  <2> HIDE DEF n
  <2>2. Part(b, 2, 4, SubSeq(b, 2, 5))
    BY <1>2, <2>1, PartIs, Zenon
  <2>3. Part(b, 6, m + 2, SubSeq(b, 6, n))
    BY <1>2, <2>1, PartIs, Zenon
  <2> QED  BY <2>2, <2>3
<1>6. SubSeq(b, 2, 5) = w
  <2> DEFINE s == SubSeq(b, 2, 5)
  <2>1. IsList(s, 4) /\ \A u \in 1..4 : s[u] = b[2 + u - 1]
    BY <1>5 DEF Part
  <2> HIDE DEF s
  <2>2. \A u \in 1..4 : 2 + u - 1 = 1 + u
    OBVIOUS
  <2>3. \A u \in 1..4 : s[u] = w[u]
    BY <1>2, <2>1, <2>2
  <2>4. s = w
    BY <1>3, <2>1, <2>3, SameLists
  <2> QED  BY <2>4 DEF s
<1>7. SubSeq(b, 6, n) = e
  <2> DEFINE s == SubSeq(b, 6, n)
  <2>1. IsList(s, m + 2) /\ \A u \in 1..(m + 2) : s[u] = b[6 + u - 1]
    BY <1>5 DEF Part
  <2> HIDE DEF s
  <2>2. \A u \in 1..(m + 2) : 6 + u - 1 = 5 + u
    BY <1>1
  <2>3. \A u \in 1..(m + 2) : s[u] = e[u]
    BY <1>2, <2>1, <2>2
  <2>4. s = e
    BY <1>4, <2>1, <2>3, SameLists
  <2> QED  BY <2>4 DEF s
<1> QED  BY <1>6, <1>7 DEF w, e, m, n

\* An envelope as written opens under its master key and under no other.
LEMMA EnvelopeOpens ==
    ASSUME NEW b, NEW i \in DOMAIN DataKeys, NEW master, NEW text \in Texts, Envelope(b, i, master, text), NEW p
    PROVE  DecryptEnvelope(p, b) = IF MasterKey(p) = master THEN Ok(text) ELSE Err
<1> DEFINE n == 5 + (Len(text) + 2)
           ws == SubSeq(b, 2, 1 + 4)
           es == SubSeq(b, 2 + 4, n)
<1>1. text \in Seq(STRING) /\ Len(text) \in Nat
  BY KeyAssumption
<1>2. IsList(b, n) /\ n >= 1 /\ b[1].n = 4 /\ ~ (n < 1 + 4)
  BY <1>1 DEF Envelope
<1>3. ws = Seal(master, 2 * i + 1, DataKeys[i]) /\ es = Seal(DataKeys[i], 2 * i, text)
  <2>1. 1 + 4 = 5 /\ 2 + 4 = 6
    OBVIOUS
  <2> QED  BY <2>1, PartsAre
<1>4. Open(MasterKey(p), ws) = IF MasterKey(p) = master THEN Ok(DataKeys[i]) ELSE Err
  <2>1. DataKeys[i] \in Seq(STRING)
    BY KeysAre
  <2>2. Opens(MasterKey(p), master, 2 * i + 1, DataKeys[i])
    BY <2>1, OpenSealed, Zenon
  <2> QED  BY <1>3, <2>2, Zenon DEF Opens
<1>5. Open(DataKeys[i], es) = Ok(text)
  <2>1. Opens(DataKeys[i], DataKeys[i], 2 * i, text)
    BY <1>1, OpenSealed, Zenon
  <2> QED  BY <1>3, <2>1, Zenon DEF Opens
<1> HIDE DEF n
<1>6. Decrypts(p, b, n, 4, ws, es)
  BY <1>2, DecryptIs, Zenon
<1> HIDE DEF ws, es
<1>7. MasterKey(p) # master => DecryptEnvelope(p, b) = Err
  BY <1>2, <1>4, <1>6, Zenon DEF Decrypts
<1>8. MasterKey(p) = master => DecryptEnvelope(p, b) = Ok(text)
  <2>1. Len(DataKeys[i]) = 2
    BY KeysAre
  <2> QED  BY <1>2, <1>4, <1>5, <1>6, <2>1, Zenon DEF Decrypts
<1> QED  BY <1>7, <1>8

-----------------------------------------------------------------------------
(* Envelopes that were changed. *)

\* No key opens it.
Refused(b) == \A p : DecryptEnvelope(p, b) = Err

\* There is one such part.
LEMMA SameParts == ASSUME NEW b, NEW lo, NEW k, NEW s, NEW t, Part(b, lo, k, s), Part(b, lo, k, t) PROVE s = t
<1>1. IsList(s, k) /\ IsList(t, k) /\ \A u \in 1..k : s[u] = t[u]
  BY DEF Part
<1> QED  BY <1>1, SameLists

\* The wrapped key gives no key, or one that does not open the text.
NoText(ws, es) == \A k : Open(k, ws) = Err \/ \E key : Open(k, ws) = Ok(key) /\ Len(key) = 2 /\ Open(key, es) = Err

\* Refused is an envelope that ends before its key does, and one without text.
LEMMA RefusedShort ==
    ASSUME NEW b, NEW n, IsList(b, n), n >= 1, NEW w, w = b[1].n, n < 1 + w
    PROVE  Refused(b)
<1> SUFFICES ASSUME NEW p PROVE DecryptEnvelope(p, b) = Err
  BY Zenon DEF Refused
<1>1. Decrypts(p, b, n, w, SubSeq(b, 2, 1 + w), SubSeq(b, 2 + w, n))
  BY DecryptIs, Zenon
<1> QED  BY <1>1, Zenon DEF Decrypts

\* Refused is one whose key opens, if at all, to a key that does not open the text.
LEMMA RefusedIf ==
    ASSUME NEW b, NEW n, IsList(b, n), n >= 1, NEW w, w = b[1].n, NEW ws, NEW es,
           ws = SubSeq(b, 2, 1 + w), es = SubSeq(b, 2 + w, n), ~ (n < 1 + w), NoText(ws, es)
    PROVE  Refused(b)
<1> SUFFICES ASSUME NEW p PROVE DecryptEnvelope(p, b) = Err
  BY Zenon DEF Refused
<1>1. Decrypts(p, b, n, w, ws, es)
  BY DecryptIs, Zenon
<1> QED  BY <1>1, Zenon DEF Decrypts, NoText

\* What is known of an envelope as written.
Layout(b, i, master, text, m) ==
    /\ m \in Nat /\ IsList(b, m + 7) /\ b[1].n = 4 /\ i \in Nat
    /\ \A u \in 1..(m + 7) : IsUnit(b[u]) /\ b[u].n \in Nat
    /\ \A u \in 2..5 : b[u].n = 2 * i + 1 /\ b[u].text \in Seq(STRING)
    /\ \A u \in 6..(m + 7) : b[u].n = 2 * i /\ b[u].text \in Seq(STRING) /\ (b[u].kind = "tag" => u = m + 7)
    /\ b[6].kind = "nonce"
    /\ SubSeq(b, 2, 5) = Seal(master, 2 * i + 1, DataKeys[i]) /\ SubSeq(b, 6, m + 7) = Seal(DataKeys[i], 2 * i, text)

\* An envelope is laid out so.
LEMMA EnvelopeIs ==
    ASSUME NEW b, NEW i \in DOMAIN DataKeys, NEW master, NEW text \in Texts, Envelope(b, i, master, text),
           NEW m, m = Len(text)
    PROVE  Layout(b, i, master, text, m)
<1> DEFINE w == Seal(master, 2 * i + 1, DataKeys[i])
           e == Seal(DataKeys[i], 2 * i, text)
<1>1. text \in Seq(STRING) /\ m \in Nat /\ 5 + (m + 2) = m + 7 /\ i \in Nat
  BY KeyAssumption, KeysAre
<1>2. IsList(b, m + 7) /\ b[1] = Unit("len", 4, << >>, << >>) /\ b[1].n = 4
      /\ (\A u \in 1..4 : b[1 + u] = w[u]) /\ \A u \in 1..(m + 2) : b[5 + u] = e[u]
  BY <1>1, Zenon DEF Envelope
<1>3. \A u \in 1..4 : w[u].n = 2 * i + 1 /\ w[u].text \in Seq(STRING) /\ IsUnit(w[u])
  <2>1. Sealed(w, master, 2 * i + 1, DataKeys[i], Len(DataKeys[i]))
    BY KeysAre, SealIs
  <2>2. DataKeys[i] \in Seq(STRING) /\ Len(DataKeys[i]) + 2 = 4
    BY KeysAre
  <2> HIDE DEF w
  <2> QED  BY <2>1, <2>2, SealedUnits
<1>4. e[1].kind = "nonce" /\ \A u \in 1..(m + 2) : e[u].n = 2 * i /\ e[u].text \in Seq(STRING) /\ (e[u].kind = "tag" => u = m + 2) /\ IsUnit(e[u])
  <2>1. Sealed(e, DataKeys[i], 2 * i, text, m)
    BY <1>1, SealIs
  <2> HIDE DEF e
  <2> QED  BY <1>1, <2>1, SealedUnits
<1>5. SubSeq(b, 2, 5) = w /\ SubSeq(b, 6, m + 7) = e
  BY <1>1, PartsAre
<1> HIDE DEF w, e
<1>6. ASSUME NEW u \in 2..5 PROVE b[u].n = 2 * i + 1 /\ b[u].text \in Seq(STRING) /\ IsUnit(b[u])
  <2>1. u - 1 \in 1..4 /\ 1 + (u - 1) = u
    OBVIOUS
  <2> QED  BY <1>2, <1>3, <2>1
<1>7. ASSUME NEW u \in 6..(m + 7)
      PROVE  b[u].n = 2 * i /\ b[u].text \in Seq(STRING) /\ (b[u].kind = "tag" => u = m + 7) /\ IsUnit(b[u])
  <2>1. u - 5 \in 1..(m + 2) /\ 5 + (u - 5) = u /\ (u - 5 = m + 2 => u = m + 7)
    BY <1>1
  <2>2. b[u] = e[u - 5]
    BY <1>2, <2>1
  <2>3. e[u - 5].n = 2 * i /\ e[u - 5].text \in Seq(STRING) /\ (e[u - 5].kind = "tag" => u - 5 = m + 2) /\ IsUnit(e[u - 5])
    BY <1>4, <2>1, Zenon
  <2> QED  BY <2>1, <2>2, <2>3, Zenon
<1>8. b[6].kind = "nonce"
  <2>1. 1 \in 1..(m + 2) /\ 5 + 1 = 6
    BY <1>1
  <2> QED  BY <1>2, <1>4, <2>1
<1>9. IsUnit(b[1]) /\ b[1].n \in Nat
  <2>1. IsUnit(Unit("len", 4, << >>, << >>))
    BY DEF IsUnit, Unit
  <2> QED  BY <1>2, <2>1
<1>10. \A u \in 1..(m + 7) : IsUnit(b[u]) /\ b[u].n \in Nat
  <2>1. \A u \in 1..(m + 7) : u = 1 \/ u \in 2..5 \/ u \in 6..(m + 7)
    BY <1>1
  <2>2. 2 * i \in Nat /\ 2 * i + 1 \in Nat
    BY <1>1
  <2> QED  BY <1>6, <1>7, <1>9, <2>1, <2>2
<1> QED  BY <1>1, <1>2, <1>5, <1>6, <1>7, <1>8, <1>10 DEF w, e, Layout

\* A wrapped key as written gives its data key or none.
LEMMA KeyOrNone ==
    ASSUME NEW i \in DOMAIN DataKeys, NEW master, NEW k
    PROVE  Open(k, Seal(master, 2 * i + 1, DataKeys[i])) = Err \/ Open(k, Seal(master, 2 * i + 1, DataKeys[i])) = Ok(DataKeys[i])
<1>1. DataKeys[i] \in Seq(STRING)
  BY KeysAre
<1>2. Opens(k, master, 2 * i + 1, DataKeys[i])
  BY <1>1, OpenSealed, Zenon
<1> QED  BY <1>2, Zenon DEF Opens

\* An envelope cut short is refused.
LEMMA TruncatedRefused ==
    ASSUME NEW b, NEW i \in DOMAIN DataKeys, NEW master, NEW text \in Texts, Envelope(b, i, master, text),
           NEW n \in 0..(Len(b) - 1)
    PROVE  Refused(SubSeq(b, 1, n))
<1> DEFINE m == Len(text)
           c == SubSeq(b, 1, n)
           w == Seal(master, 2 * i + 1, DataKeys[i])
<1>1. /\ m \in Nat /\ IsList(b, m + 7) /\ b[1].n = 4
      /\ \A u \in 2..5 : b[u].text \in Seq(STRING)
      /\ \A u \in 6..(m + 7) : b[u].text \in Seq(STRING) /\ (b[u].kind = "tag" => u = m + 7)
      /\ SubSeq(b, 2, 5) = w
  <2>1. Layout(b, i, master, text, m)
    BY EnvelopeIs, Zenon
  <2> HIDE DEF m, w
  <2> QED  BY <2>1 DEF Layout, w
<1>2. n \in 0..(m + 6) /\ n \in Nat /\ m + 7 \in Nat /\ m \in Nat
  <2>1. Len(b) = m + 7
    BY <1>1, ListSeq
  <2> QED  BY <1>1, <2>1
<1> HIDE DEF m, w
<1>3. IsList(c, n) /\ \A u \in 1..n : c[u] = b[u]
  <2>1. 1 \in Nat /\ 1 <= 1 /\ 1 <= n + 1 /\ n <= m + 7 /\ n = n + 1 - 1 /\ \A u \in 1..n : 1 + u - 1 = u
    BY <1>1, <1>2
  <2>2. Part(b, 1, n, c)
    BY <1>1, <1>2, <2>1, PartIs, Zenon
  <2> QED  BY <2>1, <2>2 DEF Part
<1> HIDE DEF c
<1>4. CASE n = 0
  <2>1. c = << >>
    BY <1>3, <1>4 DEF IsList
  <2> QED  BY <2>1 DEF Refused, DecryptEnvelope, c
<1>5. CASE n # 0
  <2> DEFINE ws == SubSeq(c, 2, 1 + 4)
             es == SubSeq(c, 2 + 4, n)
  <2>1. n >= 1 /\ 1 \in 1..n /\ 4 = c[1].n
    BY <1>1, <1>2, <1>3, <1>5
  <2>4. ws = SubSeq(c, 2, 1 + 4) /\ es = SubSeq(c, 2 + 4, n)
    OBVIOUS
  <2>2. CASE n < 1 + 4
    <3>1. Refused(c)
      BY <1>3, <2>1, <2>2, RefusedShort, Zenon
    <3> QED  BY <3>1 DEF c
  <2>3. CASE ~ (n < 1 + 4)
    <3>1. ws = w
      <4>1. \A u \in 1..4 : 2 + u - 1 \in 1..n
        BY <1>2, <2>3
      <4>2. Part(b, 2, 4, SubSeq(b, 2, 5))
        <5>1. 2 \in Nat /\ 5 \in Nat /\ 4 \in Nat /\ 1 <= 2 /\ 2 <= 5 + 1 /\ 5 <= m + 7 /\ 4 = 5 + 1 - 2
          BY <1>1
        <5> QED  BY <1>1, <5>1, PartIs, Zenon
      <4>3. IsList(w, 4) /\ \A u \in 1..4 : w[u] = b[2 + u - 1]
        BY <1>1, <4>2, Zenon DEF Part
      <4>6. \A u \in 1..n : c[u] = b[u]
        BY <1>3
      <4>7. Part(c, 2, 4, w)
        BY <4>1, <4>3, <4>6, Zenon DEF Part
      <4>4. 2 \in Nat /\ 5 \in Nat /\ 4 \in Nat /\ 1 <= 2 /\ 2 <= 5 + 1 /\ 5 <= n /\ 4 = 5 + 1 - 2 /\ 1 + 4 = 5
        BY <1>2, <2>3
      <4>5. SubSeq(c, 2, 5) = w
        <5>1. IsList(c, n)
          BY <1>3
        <5>2. Part(c, 2, 4, SubSeq(c, 2, 5))
          BY <4>4, <5>1, PartIs, Zenon
        <5> QED  BY <4>7, <5>2, SameParts
      <4> QED  BY <4>4, <4>5
    <3>2. \A key : Open(key, es) = Err
      <4> DEFINE k == n - 5
      <4>1. 6 \in Nat /\ k \in Nat /\ 1 <= 6 /\ 6 <= n + 1 /\ n <= n /\ k = n + 1 - 6 /\ 2 + 4 = 6 /\ k < m + 2
            /\ \A u \in 1..k : 6 + u - 1 = u + 5 /\ u + 5 \in 6..(m + 7) /\ u + 5 \in 1..n /\ u + 5 # m + 7
        <5>1. m \in Nat /\ n \in Nat /\ n <= m + 6 /\ 5 <= n
          BY <1>2, <2>3
        <5> QED  BY <5>1
      <4> HIDE DEF k
      <4>2. Part(c, 6, k, es)
        BY <1>2, <1>3, <4>1, PartIs
      <4>3. IsList(es, k) /\ \A u \in 1..k : es[u] = b[u + 5]
        BY <1>3, <4>1, <4>2 DEF Part
      <4>4. k >= 2 => k \in 1..k
        BY <4>1
      <4>5. Broken(es, k)
        <5>1. CASE k < 2
          BY <5>1 DEF Broken
        <5>2. CASE ~ (k < 2)
          <6>1. k \in 1..k
            BY <4>1, <5>2
          <6>2. es[k].kind # "tag"
            BY <1>1, <4>1, <4>3, <6>1
          <6> QED  BY <6>2 DEF Broken
        <5> QED  BY <5>1, <5>2
      <4>6. k >= 2 => es[k].text \in Seq(STRING)
        BY <1>1, <4>1, <4>3, <4>4
      <4> HIDE DEF es
      <4> QED  BY <4>3, <4>5, <4>6, OpenBroken
    <3>3. \A key : Open(key, ws) = Err \/ Open(key, ws) = Ok(DataKeys[i])
      <4>1. \A key : Open(key, w) = Err \/ Open(key, w) = Ok(DataKeys[i])
        BY KeyOrNone, Zenon DEF w
      <4> QED  BY <3>1, <4>1, Zenon
    <3>4. Len(DataKeys[i]) = 2
      BY KeysAre
    <3>5. NoText(ws, es)
      <4> HIDE DEF ws, es
      <4> QED  BY <3>2, <3>3, <3>4, Zenon DEF NoText
    <3>6. Refused(c)
      <4> HIDE DEF ws, es
      <4> QED  BY <1>3, <2>1, <2>3, <2>4, <3>5, RefusedIf, Zenon
    <3> QED  BY <3>6 DEF c
  <2> QED  BY <2>2, <2>3
<1> QED  BY <1>4, <1>5

\* A list of units one of which names another nonce than the others.
Mixed(c, n, at, nonce) == /\ IsList(c, n) /\ n >= 2 /\ at \in 1..n
                          /\ \A u \in 1..n : u # at => c[u].n = nonce
                          /\ c[at].n # nonce /\ c[n].text \in Seq(STRING)

\* No key opens it.
LEMMA MixedRefused ==
    ASSUME NEW c, NEW n, NEW at, NEW nonce, Mixed(c, n, at, nonce), NEW key
    PROVE  Open(key, c) = Err
<1> USE DEF Mixed
<1>1. n \in Nat
  BY DEF IsList
<1>2. PICK v \in 1..n : v # at
  <2>1. 1 \in 1..n /\ 2 \in 1..n /\ 1 # 2
    BY <1>1
  <2> QED  BY <2>1
<1>3. Broken(c, n)
  <2>1. c[v].n = nonce /\ c[at].n # c[v].n
    BY <1>2
  <2> QED  BY <2>1 DEF Broken
<1> QED  BY <1>3, OpenBroken

\* An envelope one unit of which was changed is refused.
LEMMA FlippedRefused ==
    ASSUME NEW b, NEW i \in DOMAIN DataKeys, NEW master, NEW text \in Texts, Envelope(b, i, master, text),
           NEW at \in DOMAIN b
    PROVE  Refused([b EXCEPT ![at].n = @ + 1])
<1> DEFINE m == Len(text)
           c == [b EXCEPT ![at].n = @ + 1]
           n == m + 7
           w == Seal(master, 2 * i + 1, DataKeys[i])
           e == Seal(DataKeys[i], 2 * i, text)
<1>1. Layout(b, i, master, text, m)
  BY EnvelopeIs, Zenon
<1> HIDE DEF m
<1>2. /\ m \in Nat /\ IsList(b, n) /\ b[1].n = 4 /\ i \in Nat
      /\ \A u \in 1..n : IsUnit(b[u]) /\ b[u].n \in Nat
      /\ \A u \in 2..5 : b[u].n = 2 * i + 1 /\ b[u].text \in Seq(STRING)
      /\ \A u \in 6..n : b[u].n = 2 * i /\ b[u].text \in Seq(STRING) /\ (b[u].kind = "tag" => u = n)
      /\ b[6].kind = "nonce"
      /\ SubSeq(b, 2, 5) = w /\ SubSeq(b, 6, n) = e
  BY <1>1, Zenon DEF Layout
<1>20. m \in Nat /\ IsList(b, n) /\ i \in Nat
  BY <1>2
<1>21. \A u \in 2..5 : b[u].n = 2 * i + 1
  BY <1>2, Zenon
<1>22. \A u \in 6..n : b[u].n = 2 * i
  BY <1>2, Zenon
<1>23. (\A u \in 2..5 : b[u].text \in Seq(STRING)) /\ \A u \in 6..n : b[u].text \in Seq(STRING)
  BY <1>2, Zenon
<1> HIDE DEF w, e
<1>3. n \in Nat /\ n >= 7 /\ n = m + 7 /\ DOMAIN b = 1..n /\ at \in 1..n
  <2>1. DOMAIN b = 1..n
    BY <1>20, ListSeq
  <2> QED  BY <1>20, <2>1
<1> HIDE DEF n
<1>4. /\ IsList(c, n)
      /\ \A u \in 1..n : u # at => c[u] = b[u]
      /\ c[at].n = b[at].n + 1 /\ c[at].kind = b[at].kind /\ c[at].text = b[at].text
  <2>1. c = [u \in 1..n |-> IF u = at THEN [b[at] EXCEPT !.n = @ + 1] ELSE b[u]]
    BY <1>2, <1>3
  <2> DEFINE x == [b[at] EXCEPT !.n = @ + 1]
  <2>2. x.n = b[at].n + 1 /\ x.kind = b[at].kind /\ x.text = b[at].text
    <3> DEFINE y == b[at]
    <3>1. y = [kind |-> y.kind, n |-> y.n, key |-> y.key, text |-> y.text]
      BY <1>2, <1>3, Zenon DEF IsUnit, Unit
    <3> HIDE DEF y
    <3>2. [y EXCEPT !.n = @ + 1].n = y.n + 1 /\ [y EXCEPT !.n = @ + 1].kind = y.kind /\ [y EXCEPT !.n = @ + 1].text = y.text
      BY <3>1
    <3> QED  BY <3>2 DEF y
  <2> HIDE DEF x, c
  <2>3. c[at] = x /\ \A u \in 1..n : u # at => c[u] = b[u]
    BY <1>3, <2>1 DEF x
  <2>4. IsList(c, n)
    BY <1>3, <2>1 DEF IsList
  <2> QED  BY <2>2, <2>3, <2>4
<1> HIDE DEF c
<1>5. \A u \in 1..n : c[u].kind = b[u].kind /\ c[u].text = b[u].text
  BY <1>3, <1>4
<1>6. Len(DataKeys[i]) = 2
  BY KeysAre
<1>7. \A k : Open(k, w) = Err \/ Open(k, w) = Ok(DataKeys[i])
  BY KeyOrNone, Zenon DEF w
<1>8. CASE at = 1
  <2> DEFINE ws == SubSeq(c, 2, 1 + 5)
             es == SubSeq(c, 2 + 5, n)
  <2>1. c[1].n = 5
    BY <1>2, <1>4, <1>8
  <2>2. Part(c, 2, 5, SubSeq(c, 2, 6))
    <3>1. 2 \in Nat /\ 6 \in Nat /\ 5 \in Nat /\ 1 <= 2 /\ 2 <= 6 + 1 /\ 6 <= n /\ 5 = 6 + 1 - 2
      BY <1>3
    <3> QED  BY <1>4, <3>1, PartIs, Zenon
  <2>3. IsList(ws, 5) /\ ws[5] = c[6]
    <3>1. 1 + 5 = 6 /\ 2 + 5 - 1 = 6 /\ 5 \in 1..5
      OBVIOUS
    <3> QED  BY <2>2, <3>1 DEF Part
  <2>4. ws[5].kind = "nonce" /\ ws[5].text \in Seq(STRING)
    <3>1. 6 \in 1..n /\ 6 \in 6..n
      BY <1>3
    <3> QED  BY <1>2, <1>5, <2>3, <3>1
  <2> HIDE DEF ws
  <2>5. \A key : Open(key, ws) = Err
    <3>1. Broken(ws, 5)
      <4>1. ws[5].kind # "tag"
        BY <2>4
      <4> QED  BY <4>1, Zenon DEF Broken
    <3> QED  BY <2>3, <2>4, <3>1, OpenBroken
  <2>6. NoText(ws, es)
    BY <2>5, Zenon DEF NoText
  <2>7. n >= 1 /\ 5 = c[1].n /\ ~ (n < 1 + 5) /\ ws = SubSeq(c, 2, 1 + 5) /\ es = SubSeq(c, 2 + 5, n)
    BY <1>3, <2>1 DEF ws
  <2> HIDE DEF es
  <2>8. Refused(c)
    BY <1>4, <2>6, <2>7, RefusedIf, Zenon
  <2> QED  BY <2>8 DEF c
<1>9. ASSUME at # 1, NoText(SubSeq(c, 2, 5), SubSeq(c, 6, n)) PROVE Refused(c)
  <2> DEFINE ws == SubSeq(c, 2, 1 + 4)
             es == SubSeq(c, 2 + 4, n)
  <2>1. n >= 1 /\ 4 = c[1].n /\ ~ (n < 1 + 4) /\ ws = SubSeq(c, 2, 1 + 4) /\ es = SubSeq(c, 2 + 4, n)
    <3>1. 1 \in 1..n /\ 1 # at
      BY <1>3, <1>9
    <3>2. c[1] = b[1]
      BY <1>4, <3>1
    <3>3. 4 = c[1].n
      BY <1>2, <3>2
    <3>4. n >= 1 /\ ~ (n < 1 + 4)
      BY <1>3
    <3> QED  BY <3>3, <3>4
  <2>2. 1 + 4 = 5 /\ 2 + 4 = 6
    OBVIOUS
  <2>3. NoText(ws, es)
    BY <1>9, <2>2
  <2> HIDE DEF ws, es
  <2> QED  BY <1>4, <2>1, <2>3, RefusedIf, Zenon
<1>10. /\ Part(c, 2, 4, SubSeq(c, 2, 5)) /\ Part(c, 6, m + 2, SubSeq(c, 6, n))
       /\ Part(b, 2, 4, w) /\ Part(b, 6, m + 2, e)
  <2>1. 2 \in Nat /\ 5 \in Nat /\ 4 \in Nat /\ 1 <= 2 /\ 2 <= 5 + 1 /\ 5 <= n /\ 4 = 5 + 1 - 2
    BY <1>3
  <2>2. 6 \in Nat /\ n \in Nat /\ m + 2 \in Nat /\ 1 <= 6 /\ 6 <= n + 1 /\ n <= n /\ m + 2 = n + 1 - 6
    BY <1>2, <1>3
  <2>3. Part(c, 2, 4, SubSeq(c, 2, 5)) /\ Part(b, 2, 4, SubSeq(b, 2, 5))
    BY <1>2, <1>4, <2>1, PartIs, Zenon
  <2>4. Part(c, 6, m + 2, SubSeq(c, 6, n)) /\ Part(b, 6, m + 2, SubSeq(b, 6, n))
    BY <1>2, <1>4, <2>2, PartIs, Zenon
  <2> QED  BY <1>2, <2>3, <2>4
<1>11. CASE at \in 2..5
  <2> DEFINE ws == SubSeq(c, 2, 5)
             es == SubSeq(c, 6, n)
             k == at - 1
  <2>1. k \in 1..4 /\ 2 + k - 1 = at /\ \A u \in 1..4 : 2 + u - 1 \in 2..5 /\ 2 + u - 1 \in 1..n /\ (u # k => 2 + u - 1 # at)
    BY <1>3, <1>11
  <2>2. IsList(ws, 4) /\ \A u \in 1..4 : ws[u] = c[2 + u - 1]
    BY <1>10 DEF Part
  <2> HIDE DEF ws, es, k
  <2>3. \A u \in 1..4 : u # k => ws[u].n = 2 * i + 1
    <3> SUFFICES ASSUME NEW u \in 1..4, u # k PROVE ws[u].n = 2 * i + 1
      OBVIOUS
    <3>1. ws[u] = b[2 + u - 1] /\ 2 + u - 1 \in 2..5
      BY <1>4, <2>1, <2>2
    <3> QED  BY <1>21, <3>1
  <2>4. ws[k].n # 2 * i + 1
    <3>1. ws[k] = c[at]
      BY <2>1, <2>2
    <3>2. ws[k].n = (2 * i + 1) + 1
      BY <1>4, <1>11, <1>21, <3>1
    <3> QED  BY <1>20, <3>2
  <2>5. ws[4].text \in Seq(STRING)
    <3>1. 4 \in 1..4 /\ 2 + 4 - 1 = 5 /\ 5 \in 2..5 /\ 5 \in 1..n
      BY <1>3
    <3>2. ws[4].text = b[5].text
      BY <1>5, <2>2, <3>1
    <3> QED  BY <1>23, <3>1, <3>2
  <2>6. \A key : Open(key, ws) = Err
    <3>1. 4 >= 2
      OBVIOUS
    <3>2. Mixed(ws, 4, k, 2 * i + 1)
      BY <2>1, <2>2, <2>3, <2>4, <2>5, <3>1 DEF Mixed
    <3> QED  BY <3>2, MixedRefused, Zenon
  <2>7. NoText(ws, es)
    BY <2>6, Zenon DEF NoText
  <2>8. at # 1
    BY <1>11
  <2> QED  BY <1>9, <2>7, <2>8 DEF ws, es, c
<1>12. CASE at \in 6..n
  <2> DEFINE ws == SubSeq(c, 2, 5)
             es == SubSeq(c, 6, n)
             k == at - 5
  <2>1. /\ k \in 1..(m + 2) /\ 6 + k - 1 = at /\ m + 2 >= 2
        /\ \A u \in 1..(m + 2) : 6 + u - 1 \in 6..n /\ 6 + u - 1 \in 1..n /\ (u # k => 6 + u - 1 # at)
        /\ \A u \in 1..4 : 2 + u - 1 \in 1..n /\ 2 + u - 1 # at
        /\ m + 2 \in 1..(m + 2)
    <3>1. m \in Nat /\ n = m + 7 /\ at \in Int /\ 6 <= at /\ at <= m + 7
      BY <1>3, <1>12, <1>20
    <3>2. k \in 1..(m + 2) /\ 6 + k - 1 = at /\ m + 2 >= 2 /\ m + 2 \in 1..(m + 2)
      BY <3>1
    <3>3. ASSUME NEW u \in 1..(m + 2) PROVE 6 + u - 1 \in 6..n /\ 6 + u - 1 \in 1..n /\ (u # k => 6 + u - 1 # at)
      BY <3>1
    <3>4. ASSUME NEW u \in 1..4 PROVE 2 + u - 1 \in 1..n /\ 2 + u - 1 # at
      BY <3>1
    <3> QED  BY <3>2, <3>3, <3>4
  <2>2. IsList(es, m + 2) /\ \A u \in 1..(m + 2) : es[u] = c[6 + u - 1]
    BY <1>10 DEF Part
  <2>3. ws = w
    <3>1. IsList(ws, 4) /\ IsList(w, 4) /\ \A u \in 1..4 : ws[u] = c[2 + u - 1] /\ w[u] = b[2 + u - 1]
      BY <1>10 DEF Part
    <3> HIDE DEF ws
    <3>2. \A u \in 1..4 : ws[u] = w[u]
      BY <1>4, <2>1, <3>1
    <3> QED  BY <3>1, <3>2, SameLists
  <2> HIDE DEF ws, es, k
  <2>4. \A u \in 1..(m + 2) : u # k => es[u].n = 2 * i
    <3> SUFFICES ASSUME NEW u \in 1..(m + 2), u # k PROVE es[u].n = 2 * i
      OBVIOUS
    <3>1. es[u] = b[6 + u - 1] /\ 6 + u - 1 \in 6..n
      BY <1>4, <2>1, <2>2
    <3> QED  BY <1>22, <3>1
  <2>5. es[k].n # 2 * i
    <3>1. es[k] = c[at]
      BY <2>1, <2>2
    <3>2. es[k].n = 2 * i + 1
      BY <1>4, <1>12, <1>22, <3>1
    <3> QED  BY <1>20, <3>2
  <2>6. es[m + 2].text \in Seq(STRING)
    <3>1. es[m + 2] = c[6 + (m + 2) - 1] /\ 6 + (m + 2) - 1 \in 6..n /\ 6 + (m + 2) - 1 \in 1..n
      BY <2>1, <2>2
    <3>2. es[m + 2].text = b[6 + (m + 2) - 1].text
      BY <1>5, <3>1
    <3> QED  BY <1>23, <3>1, <3>2
  <2>7. \A key : Open(key, es) = Err
    <3>1. Mixed(es, m + 2, k, 2 * i)
      BY <2>1, <2>2, <2>4, <2>5, <2>6, Zenon DEF Mixed
    <3> QED  BY <3>1, MixedRefused, Zenon
  <2>8. NoText(ws, es)
    BY <1>6, <1>7, <2>3, <2>7, Zenon DEF NoText
  <2>9. at # 1
    BY <1>12
  <2> QED  BY <1>9, <2>8, <2>9 DEF ws, es, c
<1>13. at = 1 \/ at \in 2..5 \/ at \in 6..n
  BY <1>3
<1> QED  BY <1>8, <1>11, <1>12, <1>13 DEF c

\* An envelope with the key of another one is refused, unless that changes nothing.
LEMMA SplicedRefused ==
    ASSUME NEW b, NEW i \in DOMAIN DataKeys, NEW master, NEW text \in Texts, Envelope(b, i, master, text),
           NEW d, NEW j \in DOMAIN DataKeys, NEW mj, NEW tj \in Texts, Envelope(d, j, mj, tj), i # j
    PROVE  Refused(SubSeq(d, 1, 5) \o SubSeq(b, 6, Len(b)))
<1> DEFINE m == Len(text)
           mm == Len(tj)
           n == m + 7
           w == Seal(mj, 2 * j + 1, DataKeys[j])
           e == Seal(DataKeys[i], 2 * i, text)
           head == SubSeq(d, 1, 5)
           c == head \o e
<1>1. Layout(b, i, master, text, m) /\ Layout(d, j, mj, tj, mm)
  BY EnvelopeIs, Zenon
<1> HIDE DEF m, mm
<1>2. m \in Nat /\ IsList(b, n) /\ mm \in Nat /\ IsList(d, mm + 7)
  BY <1>1, Zenon DEF Layout
<1>3. SubSeq(b, 6, n) = e /\ SubSeq(d, 2, 5) = w /\ d[1].n = 4
  BY <1>1, Zenon DEF Layout
<1>4. Len(b) = n /\ n \in Nat
  BY <1>2, ListSeq
<1> HIDE DEF w, e
<1>5. Part(b, 6, m + 2, e) /\ Part(d, 2, 4, w) /\ Part(d, 1, 5, head)
  <2>1. 6 \in Nat /\ n \in Nat /\ m + 2 \in Nat /\ 1 <= 6 /\ 6 <= n + 1 /\ n <= n /\ m + 2 = n + 1 - 6
    BY <1>2
  <2>2. 2 \in Nat /\ 5 \in Nat /\ 4 \in Nat /\ 1 <= 2 /\ 2 <= 5 + 1 /\ 5 <= mm + 7 /\ 4 = 5 + 1 - 2
        /\ 1 \in Nat /\ 1 <= 1 /\ 1 <= 5 + 1 /\ 5 = 5 + 1 - 1
    BY <1>2
  <2> HIDE DEF n
  <2>3. Part(b, 6, m + 2, SubSeq(b, 6, n))
    BY <1>2, <2>1, PartIs, Zenon
  <2>4. Part(d, 2, 4, SubSeq(d, 2, 5))
    BY <1>2, <2>2, PartIs, Zenon
  <2>5. Part(d, 1, 5, SubSeq(d, 1, 5))
    BY <1>2, <2>2, PartIs, Zenon
  <2> QED  BY <1>3, <2>3, <2>4, <2>5
<1>6. IsList(e, m + 2) /\ IsList(head, 5) /\ IsList(w, 4)
  BY <1>5 DEF Part
<1> HIDE DEF head
<1>7. Joined(head, 5, e, m + 2, c)
  BY <1>6, JoinIs, Zenon
<1>8. /\ IsList(c, n) /\ (\A u \in 1..5 : c[u] = head[u]) /\ \A u \in 1..(m + 2) : c[5 + u] = e[u]
  <2>1. 5 + (m + 2) = n
    BY <1>2
  <2> QED  BY <1>7, <2>1, Zenon DEF Joined
<1> HIDE DEF c, n
<1>9. n \in Nat /\ n = m + 7
  BY <1>4 DEF n
<1>10. SubSeq(c, 2, 5) = w
  <2>1. 2 \in Nat /\ 5 \in Nat /\ 4 \in Nat /\ 1 <= 2 /\ 2 <= 5 + 1 /\ 5 <= n /\ 4 = 5 + 1 - 2
    BY <1>2, <1>9
  <2>2. \A u \in 1..4 : 2 + u - 1 \in 1..5 /\ 1 + (2 + u - 1) - 1 = 2 + u - 1
    OBVIOUS
  <2>3. Part(c, 2, 4, w)
    BY <1>5, <1>6, <1>8, <2>2 DEF Part
  <2>4. Part(c, 2, 4, SubSeq(c, 2, 5))
    BY <1>8, <2>1, PartIs, Zenon
  <2> QED  BY <2>3, <2>4, SameParts
<1>11. SubSeq(c, 6, n) = e
  <2>1. 6 \in Nat /\ n \in Nat /\ m + 2 \in Nat /\ 1 <= 6 /\ 6 <= n + 1 /\ n <= n /\ m + 2 = n + 1 - 6
    BY <1>2, <1>9
  <2>2. \A u \in 1..(m + 2) : 6 + u - 1 = 5 + u
    BY <1>2
  <2>3. Part(c, 6, m + 2, e)
    BY <1>6, <1>8, <2>2 DEF Part
  <2>4. Part(c, 6, m + 2, SubSeq(c, 6, n))
    BY <1>8, <2>1, PartIs, Zenon
  <2> QED  BY <2>3, <2>4, SameParts
<1>12. c[1].n = 4
  <2>1. 1 \in 1..5 /\ 1 + 1 - 1 = 1
    OBVIOUS
  <2> QED  BY <1>3, <1>5, <1>8, <2>1 DEF Part
<1>13. \A k : Open(k, w) = Err \/ Open(k, w) = Ok(DataKeys[j])
  BY KeyOrNone, Zenon DEF w
<1>14. Open(DataKeys[j], e) = Err
  <2>1. text \in Seq(STRING) /\ DataKeys[i] # DataKeys[j]
    BY KeyAssumption
  <2>2. Opens(DataKeys[j], DataKeys[i], 2 * i, text)
    BY <2>1, OpenSealed, Zenon
  <2> QED  BY <2>1, <2>2, Zenon DEF Opens, e
<1>15. Len(DataKeys[j]) = 2
  BY KeysAre
<1>16. NoText(w, e)
  <2> DEFINE key == DataKeys[j]
  <2>1. (\A k : Open(k, w) = Err \/ Open(k, w) = Ok(key)) /\ Open(key, e) = Err /\ Len(key) = 2
    BY <1>13, <1>14, <1>15
  <2> HIDE DEF key
  <2> SUFFICES ASSUME NEW k, Open(k, w) # Err
               PROVE  \E l : Open(k, w) = Ok(l) /\ Len(l) = 2 /\ Open(l, e) = Err
    BY Zenon DEF NoText
  <2>2. Open(k, w) = Ok(key)
    BY <2>1, Zenon
  <2> WITNESS key
  <2> QED  BY <2>1, <2>2, Zenon
<1>17. Refused(c)
  <2>1. n >= 1 /\ 4 = c[1].n /\ ~ (n < 1 + 4)
    BY <1>2, <1>9, <1>12
  <2>2. 1 + 4 = 5 /\ 2 + 4 = 6
    OBVIOUS
  <2>3. w = SubSeq(c, 2, 1 + 4) /\ e = SubSeq(c, 2 + 4, n)
    BY <1>10, <1>11, <2>2
  <2> QED  BY <1>8, <1>16, <2>1, <2>3, RefusedIf, Zenon
<1> QED  BY <1>3, <1>4, <1>17 DEF c, head

\* With its own key it is what it was.
LEMMA SplicedSame ==
    ASSUME NEW b, NEW i \in DOMAIN DataKeys, NEW master, NEW text \in Texts, Envelope(b, i, master, text)
    PROVE  SubSeq(b, 1, 5) \o SubSeq(b, 6, Len(b)) = b
<1> DEFINE m == Len(text)
           n == m + 7
           x == SubSeq(b, 1, 5)
           y == SubSeq(b, 6, n)
           c == x \o y
<1>1. Layout(b, i, master, text, m)
  BY EnvelopeIs, Zenon
<1> HIDE DEF m
<1>2. m \in Nat /\ IsList(b, n)
  BY <1>1, Zenon DEF Layout
<1>3. Len(b) = n
  BY <1>2, ListSeq
<1>4. 6 \in Nat /\ n \in Nat /\ m + 2 \in Nat /\ 1 <= 6 /\ 6 <= n + 1 /\ n <= n /\ m + 2 = n + 1 - 6
      /\ 5 <= n /\ 1 \in Nat /\ 1 <= 1 /\ 1 <= 5 + 1 /\ 5 = 5 + 1 - 1 /\ 5 \in Nat /\ 5 + (m + 2) = n /\ n = m + 7
  BY <1>2
<1> HIDE DEF n
<1>5. Part(b, 6, m + 2, y) /\ Part(b, 1, 5, x)
  BY <1>2, <1>4, PartIs, Zenon
<1> HIDE DEF x, y
<1>6. IsList(x, 5) /\ IsList(y, m + 2) /\ (\A u \in 1..5 : x[u] = b[1 + u - 1]) /\ \A u \in 1..(m + 2) : y[u] = b[6 + u - 1]
  BY <1>5 DEF Part
<1>7. Joined(x, 5, y, m + 2, c)
  BY <1>6, JoinIs, Zenon
<1> HIDE DEF c
<1>8. IsList(c, n) /\ (\A u \in 1..5 : c[u] = x[u]) /\ \A u \in 1..(m + 2) : c[5 + u] = y[u]
  BY <1>4, <1>7, Zenon DEF Joined
<1>9. ASSUME NEW u \in 1..n PROVE c[u] = b[u]
  <2>1. CASE u \in 1..5
    <3>1. 1 + u - 1 = u
      OBVIOUS
    <3> QED  BY <1>6, <1>8, <2>1, <3>1
  <2>2. CASE ~ (u \in 1..5)
    <3>1. u - 5 \in 1..(m + 2) /\ 5 + (u - 5) = u /\ 6 + (u - 5) - 1 = u
      BY <1>2, <1>4, <2>2
    <3> QED  BY <1>6, <1>8, <3>1
  <2> QED  BY <2>1, <2>2
<1>10. c = b
  BY <1>2, <1>8, <1>9, SameLists
<1> QED  BY <1>3, <1>10 DEF c, x, y

-----------------------------------------------------------------------------
(* The envelopes of the key manager. *)

KmsInv == /\ IsList(blobs, Len(blobs)) /\ IsList(written, Len(blobs)) /\ Len(blobs) <= Len(DataKeys)
          /\ \A i \in 1..Len(blobs) :
               /\ written[i].text \in Texts
               /\ written[i] = [text |-> written[i].text, master |-> written[i].master, intact |-> written[i].intact]
               /\ written[i].intact = TRUE \/ written[i].intact = FALSE
               /\ written[i].intact => Envelope(blobs[i], i, written[i].master, written[i].text)
               /\ ~ written[i].intact => Refused(blobs[i])

\* At the start nothing is written.
LEMMA KmsBegins == KmsInit => KmsInv
<1> SUFFICES ASSUME KmsInit PROVE KmsInv
  OBVIOUS
<1>1. blobs = << >> /\ written = << >>
  BY DEF KmsInit
<1>2. Len(blobs) = 0 /\ 1..0 = {} /\ Len(DataKeys) \in Nat /\ blobs = [i \in 1..0 |-> blobs[i]] /\ written = [i \in 1..0 |-> written[i]]
  BY <1>1, KeyAssumption
<1> QED  BY <1>2 DEF KmsInv, IsList

\* A list with one more element.
Appended(b, n, x, bx) == /\ IsList(bx, n + 1) /\ Len(bx) = n + 1 /\ bx[n + 1] = x
                         /\ \A k \in 1..n : bx[k] = b[k]

\* That is what append gives.
LEMMA AppendIs == ASSUME NEW b, NEW n, IsList(b, n), NEW x PROVE Appended(b, n, x, Append(b, x))
<1>1. n \in Nat /\ Len(b) = n /\ \E S : b \in Seq(S)
  BY ListSeq
<1>2. PICK S : b \in Seq(S)
  BY <1>1
<1> DEFINE U == S \cup {x}
           bx == Append(b, x)
<1>3. b \in Seq(U)
  BY <1>2, SeqWiden, Zenon
<1>4. x \in U
  OBVIOUS
<1> HIDE DEF U
<1>5. bx \in Seq(U) /\ Len(bx) = n + 1 /\ bx[n + 1] = x /\ \A k \in 1..n : bx[k] = b[k]
  BY <1>1, <1>3, <1>4
<1> HIDE DEF bx
<1>6. IsList(bx, Len(bx))
  BY <1>5, SeqList
<1>7. Appended(b, n, x, bx)
  BY <1>5, <1>6 DEF Appended
<1> QED  BY <1>7 DEF bx

\* An envelope written is one.
LEMMA EncryptKeeps == ASSUME KmsInv, NEW text \in Texts, Encrypt(text) PROVE KmsInv'
<1> DEFINE n == Len(blobs)
           i == n + 1
           b == EncryptEnvelope(kms, DataKeys[i], 2 * i, text)
           x == [text |-> text, master |-> MasterKey(kms), intact |-> TRUE]
<1>1. n \in Nat /\ IsList(blobs, n) /\ IsList(written, n) /\ n <= Len(DataKeys)
  BY DEF KmsInv, IsList
<1>2. i \in DOMAIN DataKeys /\ blobs' = Append(blobs, b) /\ written' = Append(written, x)
  BY DEF Encrypt
<1>3. Envelope(b, i, MasterKey(kms), text)
  BY <1>2, EncryptIs
<1>4. i \in 1..Len(DataKeys) /\ Len(DataKeys) \in Nat
  BY <1>2, KeyAssumption
<1>5. x.text = text /\ x.master = MasterKey(kms) /\ x.intact = TRUE /\ x = [text |-> x.text, master |-> x.master, intact |-> x.intact]
  OBVIOUS
<1> HIDE DEF n, b, x
<1>6. /\ IsList(blobs', i) /\ Len(blobs') = i /\ blobs'[i] = b
      /\ \A k \in 1..n : blobs'[k] = blobs[k]
  <2>1. Appended(blobs, n, b, Append(blobs, b))
    BY <1>1, AppendIs, Zenon
  <2> QED  BY <1>2, <2>1, Zenon DEF Appended
<1>7. /\ IsList(written', i) /\ written'[i] = x
      /\ \A k \in 1..n : written'[k] = written[k]
  <2>1. Appended(written, n, x, Append(written, x))
    BY <1>1, AppendIs, Zenon
  <2> QED  BY <1>2, <2>1, Zenon DEF Appended
<1>8. \A k \in 1..i : k \in 1..n \/ k = i
  BY <1>1
<1>9. ASSUME NEW k \in 1..i
      PROVE  /\ written'[k].text \in Texts
             /\ written'[k] = [text |-> written'[k].text, master |-> written'[k].master, intact |-> written'[k].intact]
             /\ written'[k].intact = TRUE \/ written'[k].intact = FALSE
             /\ written'[k].intact => Envelope(blobs'[k], k, written'[k].master, written'[k].text)
             /\ ~ written'[k].intact => Refused(blobs'[k])
  <2>1. CASE k \in 1..n
    <3>1. blobs'[k] = blobs[k] /\ written'[k] = written[k]
      BY <1>6, <1>7, <2>1
    <3>2. /\ written[k].text \in Texts
          /\ written[k] = [text |-> written[k].text, master |-> written[k].master, intact |-> written[k].intact]
          /\ written[k].intact = TRUE \/ written[k].intact = FALSE
          /\ written[k].intact => Envelope(blobs[k], k, written[k].master, written[k].text)
          /\ ~ written[k].intact => Refused(blobs[k])
      BY <2>1, Zenon DEF KmsInv, n
    <3> QED  BY <3>1, <3>2, Zenon
  <2>2. CASE k = i
    <3>1. blobs'[k] = b /\ written'[k] = x
      BY <1>6, <1>7, <2>2
    <3> QED  BY <1>3, <1>5, <2>2, <3>1, Zenon
  <2> QED  BY <1>8, <2>1, <2>2
<1>10. i <= Len(DataKeys)
  BY <1>4
<1> HIDE DEF i
<1>11. \A k \in 1..Len(blobs') :
          /\ written'[k].text \in Texts
          /\ written'[k] = [text |-> written'[k].text, master |-> written'[k].master, intact |-> written'[k].intact]
          /\ written'[k].intact = TRUE \/ written'[k].intact = FALSE
          /\ written'[k].intact => Envelope(blobs'[k], k, written'[k].master, written'[k].text)
          /\ ~ written'[k].intact => Refused(blobs'[k])
  BY <1>6, <1>9, Zenon
<1> QED  BY <1>6, <1>7, <1>10, <1>11, Zenon DEF KmsInv

\* What an envelope and what is known of it are.
Record(b, i, x) == /\ x.text \in Texts
                   /\ x = [text |-> x.text, master |-> x.master, intact |-> x.intact]
                   /\ x.intact = TRUE \/ x.intact = FALSE
                   /\ x.intact => Envelope(b, i, x.master, x.text)
                   /\ ~ x.intact => Refused(b)

\* A change outside keeps the invariant when what it makes is refused.
LEMMA ChangedKeeps ==
    ASSUME KmsInv, NEW i \in DOMAIN blobs, NEW bytes, Changed(i, bytes), Refused(bytes)
    PROVE  KmsInv'
<1> DEFINE n == Len(blobs)
<1>1. n \in Nat /\ IsList(blobs, n) /\ IsList(written, n) /\ n <= Len(DataKeys)
  BY DEF KmsInv, IsList
<1>2. DOMAIN blobs = 1..n /\ DOMAIN written = 1..n
  BY <1>1 DEF IsList
<1>3. \A k \in 1..n : Record(blobs[k], k, written[k])
  BY Zenon DEF KmsInv, Record, n
<1> HIDE DEF n
<1>4. blobs' = [blobs EXCEPT ![i] = bytes] /\ written' = [written EXCEPT ![i].intact = FALSE]
  BY Zenon DEF Changed
<1>5. blobs' = [k \in 1..n |-> IF k = i THEN bytes ELSE blobs[k]]
  BY <1>2, <1>4
<1>6. written' = [k \in 1..n |-> IF k = i THEN [written[i] EXCEPT !.intact = FALSE] ELSE written[k]]
  BY <1>2, <1>4
<1>7. IsList(blobs', n) /\ IsList(written', n)
  BY <1>1, <1>5, <1>6 DEF IsList
<1>8. Len(blobs') = n
  BY <1>7, ListSeq
<1>9. ASSUME NEW k \in 1..n PROVE Record(blobs'[k], k, written'[k])
  <2>1. CASE k = i
    <3> DEFINE x == written[k]
    <3>1. Record(blobs[k], k, x)
      BY <1>3
    <3> HIDE DEF x
    <3>2. x.text \in Texts /\ x = [text |-> x.text, master |-> x.master, intact |-> x.intact]
      BY <3>1, Zenon DEF Record
    <3> DEFINE y == [text |-> x.text, master |-> x.master, intact |-> FALSE]
    <3>3. [x EXCEPT !.intact = FALSE] = y
      <4> DEFINE a == x.text
                 m == x.master
                 f == x.intact
      <4>1. x = [text |-> a, master |-> m, intact |-> f]
        BY <3>2
      <4> HIDE DEF a, m, f
      <4> DEFINE g == FALSE
      <4> HIDE DEF g
      <4>2. [[text |-> a, master |-> m, intact |-> f] EXCEPT !.intact = g] = [text |-> a, master |-> m, intact |-> g]
        OBVIOUS
      <4>3. [x EXCEPT !.intact = FALSE] = [text |-> a, master |-> m, intact |-> FALSE]
        BY <4>1, <4>2, Zenon DEF g
      <4> QED  BY <4>3 DEF a, m
    <3>4. y.text = x.text /\ y.master = x.master /\ y.intact = FALSE
      OBVIOUS
    <3>5. y = [text |-> y.text, master |-> y.master, intact |-> y.intact]
      OBVIOUS
    <3>6. blobs'[k] = bytes /\ written'[k] = y
      BY <1>5, <1>6, <2>1, <3>3 DEF x
    <3> HIDE DEF y
    <3>7. Record(bytes, k, y)
      BY <3>2, <3>4, <3>5, Zenon DEF Record
    <3> QED  BY <3>6, <3>7
  <2>2. CASE k # i
    <3>1. blobs'[k] = blobs[k] /\ written'[k] = written[k]
      BY <1>5, <1>6, <2>2
    <3> QED  BY <1>3, <3>1
  <2> QED  BY <2>1, <2>2
<1>10. \A k \in 1..Len(blobs') : Record(blobs'[k], k, written'[k])
  BY <1>8, <1>9, Zenon
<1> QED  BY <1>1, <1>7, <1>8, <1>10, Zenon DEF KmsInv, Record

\* A blob that is not yet changed.
LEMMA IntactIs == ASSUME KmsInv, NEW i \in DOMAIN blobs, written[i].intact
                  PROVE  /\ i \in DOMAIN DataKeys /\ written[i].text \in Texts
                         /\ Envelope(blobs[i], i, written[i].master, written[i].text)
<1> DEFINE n == Len(blobs)
<1>1. n \in Nat /\ IsList(blobs, n) /\ n <= Len(DataKeys)
  BY DEF KmsInv, IsList
<1>2. i \in 1..n
  BY <1>1 DEF IsList
<1>3. i \in 1..Len(DataKeys) /\ Len(DataKeys) \in Nat /\ DataKeys \in Seq(Seq(STRING))
  BY <1>1, <1>2, KeyAssumption
<1>4. written[i].text \in Texts /\ Envelope(blobs[i], i, written[i].master, written[i].text)
  BY <1>2, Zenon DEF KmsInv, n
<1> QED  BY <1>3, <1>4

\* Every step keeps the invariant: each change that is possible makes a blob
\* that is refused.
LEMMA KmsKeeps == KmsInv /\ [KmsNext]_kms_vars => KmsInv'
<1> SUFFICES ASSUME KmsInv, [KmsNext]_kms_vars PROVE KmsInv'
  OBVIOUS
<1>1. ASSUME blobs' = blobs, written' = written PROVE KmsInv'
  BY <1>1 DEF KmsInv
<1>2. CASE UNCHANGED kms_vars
  BY <1>1, <1>2 DEF kms_vars
<1>3. ASSUME NEW text \in Texts, Encrypt(text) PROVE KmsInv'
  BY <1>3, EncryptKeeps
<1>4. ASSUME NEW p, Reconfigure(p) PROVE KmsInv'
  BY <1>1, <1>4 DEF Reconfigure
<1>5. ASSUME NEW i \in DOMAIN blobs, Truncate(i) PROVE KmsInv'
  <2>1. PICK n \in 0..(Len(blobs[i]) - 1) : Changed(i, SubSeq(blobs[i], 1, n))
    BY <1>5, Zenon DEF Truncate
  <2>2. written[i].intact
    BY <2>1, Zenon DEF Changed
  <2>3. /\ i \in DOMAIN DataKeys /\ written[i].text \in Texts
        /\ Envelope(blobs[i], i, written[i].master, written[i].text)
    BY <2>2, IntactIs
  <2>4. Refused(SubSeq(blobs[i], 1, n))
    BY <2>3, TruncatedRefused, Zenon
  <2> QED  BY <2>1, <2>4, ChangedKeeps, Zenon
<1>6. ASSUME NEW i \in DOMAIN blobs, Flip(i) PROVE KmsInv'
  <2>1. PICK u \in DOMAIN blobs[i] : Changed(i, [blobs[i] EXCEPT ![u].n = @ + 1])
    BY <1>6, Zenon DEF Flip
  <2>2. written[i].intact
    BY <2>1, Zenon DEF Changed
  <2>3. /\ i \in DOMAIN DataKeys /\ written[i].text \in Texts
        /\ Envelope(blobs[i], i, written[i].master, written[i].text)
    BY <2>2, IntactIs
  <2>4. Refused([blobs[i] EXCEPT ![u].n = @ + 1])
    BY <2>3, FlippedRefused, Zenon
  <2> QED  BY <2>1, <2>4, ChangedKeeps, Zenon
<1>7. ASSUME NEW i \in DOMAIN blobs, NEW j \in DOMAIN blobs, Splice(i, j) PROVE KmsInv'
  <2> DEFINE c == SubSeq(blobs[j], 1, 5) \o SubSeq(blobs[i], 6, Len(blobs[i]))
  <2>1. written[j].intact /\ Changed(i, c)
    <3>1. KeyLen + 3 = 5 /\ 5 + 1 = 6
      BY DEF KeyLen
    <3> QED  BY <1>7, <3>1 DEF Splice
  <2>2. written[i].intact /\ c # blobs[i]
    BY <2>1, Zenon DEF Changed
  <2>3. /\ i \in DOMAIN DataKeys /\ written[i].text \in Texts
        /\ Envelope(blobs[i], i, written[i].master, written[i].text)
    BY <2>2, IntactIs
  <2>4. /\ j \in DOMAIN DataKeys /\ written[j].text \in Texts
        /\ Envelope(blobs[j], j, written[j].master, written[j].text)
    BY <2>1, IntactIs
  <2>5. i # j
    <3>1. SUFFICES ASSUME i = j PROVE FALSE
      OBVIOUS
    <3>2. SubSeq(blobs[i], 1, 5) \o SubSeq(blobs[i], 6, Len(blobs[i])) = blobs[i]
      BY <2>3, SplicedSame, Zenon
    <3> QED  BY <2>2, <3>1, <3>2
  <2>6. Refused(c)
    BY <2>3, <2>4, <2>5, SplicedRefused, Zenon
  <2> HIDE DEF c
  <2> QED  BY <2>1, <2>6, ChangedKeeps, Zenon
<1> QED  BY <1>2, <1>3, <1>4, <1>5, <1>6, <1>7 DEF KmsNext

\* Envelopes as written open with the master key they were written with, and
\* those that were changed do not open.
LEMMA KmsIsSafe == KmsInv => EnvelopeSafe
<1> SUFFICES ASSUME KmsInv, NEW i \in DOMAIN blobs
             PROVE  DecryptEnvelope(kms, blobs[i]) = IF written[i].intact /\ MasterKey(kms) = written[i].master
                                                       THEN Ok(written[i].text) ELSE Err
  BY Zenon DEF EnvelopeSafe
<1>1. i \in 1..Len(blobs)
  BY DEF KmsInv, IsList
<1>2. CASE written[i].intact
  <2>1. /\ i \in DOMAIN DataKeys /\ written[i].text \in Texts
        /\ Envelope(blobs[i], i, written[i].master, written[i].text)
    BY <1>2, IntactIs
  <2>2. DecryptEnvelope(kms, blobs[i]) = IF MasterKey(kms) = written[i].master THEN Ok(written[i].text) ELSE Err
    BY <2>1, EnvelopeOpens, Zenon
  <2> QED  BY <1>2, <2>2
<1>3. CASE ~ written[i].intact
  <2>1. Refused(blobs[i])
    BY <1>1, <1>3, Zenon DEF KmsInv
  <2> QED  BY <1>3, <2>1, Zenon DEF Refused
<1> QED  BY <1>2, <1>3

-----------------------------------------------------------------------------
(* Encrypted fields. *)

\* One row as it is stored, and what it was, when the columns of set have a key.
Stored(r, i, x, set) ==
                   /\ x = [row |-> x.row, keys |-> x.keys]
                   /\ x.row \in [DOMAIN x.row -> Values]
                   /\ DOMAIN x.keys \subseteq set
                   /\ r = EncryptRow(x.keys, i, x.row)

FieldInv == /\ IsList(rows, Len(rows)) /\ IsList(plain, Len(rows))
            /\ \A i \in 1..Len(rows) : Stored(rows[i], i, plain[i], DOMAIN column_keys)

\* At the start there is no row.
LEMMA FieldBegins == FieldInit => FieldInv
<1> SUFFICES ASSUME FieldInit PROVE FieldInv
  OBVIOUS
<1>1. rows = << >> /\ plain = << >>
  BY DEF FieldInit
<1>2. Len(rows) = 0 /\ 1..0 = {} /\ rows = [i \in 1..0 |-> rows[i]] /\ plain = [i \in 1..0 |-> plain[i]] /\ 0 \in Nat
  BY <1>1
<1> QED  BY <1>2 DEF FieldInv, IsList

\* To set a key leaves the rows as they are, and no column loses its key.
LEMMA SetColumnKeyKeeps == ASSUME FieldInv, NEW col, NEW key, SetColumnKey(col, key) PROVE FieldInv'
<1>1. rows' = rows /\ plain' = plain /\ DOMAIN column_keys \subseteq DOMAIN column_keys'
  BY DEF SetColumnKey
<1>3. ASSUME NEW i \in 1..Len(rows') PROVE Stored(rows'[i], i, plain'[i], DOMAIN column_keys')
  <2>1. Stored(rows[i], i, plain[i], DOMAIN column_keys)
    BY <1>1, <1>3, Zenon DEF FieldInv
  <2> QED  BY <1>1, <2>1 DEF Stored
<1>4. IsList(rows', Len(rows')) /\ IsList(plain', Len(rows'))
  BY <1>1 DEF FieldInv
<1>5. \A i \in 1..Len(rows') : Stored(rows'[i], i, plain'[i], DOMAIN column_keys')
  BY <1>3, Zenon
<1> QED  BY <1>4, <1>5, Zenon DEF FieldInv

\* A row is stored under the keys in use.
LEMMA WriteKeeps == ASSUME FieldInv, NEW cols, NEW row \in [cols -> Values], Write(row) PROVE FieldInv'
<1> DEFINE n == Len(rows)
           r == EncryptRow(column_keys, n + 1, row)
           x == [row |-> row, keys |-> column_keys]
<1>1. n \in Nat /\ IsList(rows, n) /\ IsList(plain, n)
  BY DEF FieldInv, IsList
<1>2. rows' = Append(rows, r) /\ plain' = Append(plain, x) /\ column_keys' = column_keys
  BY DEF Write
<1>3. Stored(r, n + 1, x, DOMAIN column_keys)
  <2>1. x.row = row /\ x.keys = column_keys /\ x = [row |-> x.row, keys |-> x.keys]
    OBVIOUS
  <2>2. DOMAIN row = cols /\ row \in [DOMAIN row -> Values]
    OBVIOUS
  <2> HIDE DEF x
  <2> QED  BY <2>1, <2>2, Zenon DEF Stored
<1>4. \A i \in 1..n : Stored(rows[i], i, plain[i], DOMAIN column_keys)
  BY Zenon DEF FieldInv
<1> HIDE DEF n, r, x
<1>5. /\ IsList(rows', n + 1) /\ Len(rows') = n + 1 /\ rows'[n + 1] = r
      /\ \A k \in 1..n : rows'[k] = rows[k]
  <2>1. Appended(rows, n, r, Append(rows, r))
    BY <1>1, AppendIs, Zenon
  <2> QED  BY <1>2, <2>1, Zenon DEF Appended
<1>6. /\ IsList(plain', n + 1) /\ plain'[n + 1] = x
      /\ \A k \in 1..n : plain'[k] = plain[k]
  <2>1. Appended(plain, n, x, Append(plain, x))
    BY <1>1, AppendIs, Zenon
  <2> QED  BY <1>2, <2>1, Zenon DEF Appended
<1>7. ASSUME NEW i \in 1..(n + 1) PROVE Stored(rows'[i], i, plain'[i], DOMAIN column_keys)
  <2>1. CASE i \in 1..n
    BY <1>4, <1>5, <1>6, <2>1
  <2>2. CASE ~ (i \in 1..n)
    <3>1. i = n + 1
      BY <1>1, <2>2
    <3> QED  BY <1>3, <1>5, <1>6, <3>1
  <2> QED  BY <2>1, <2>2
<1>8. \A i \in 1..Len(rows') : Stored(rows'[i], i, plain'[i], DOMAIN column_keys')
  BY <1>2, <1>5, <1>7, Zenon
<1> QED  BY <1>5, <1>6, <1>8, Zenon DEF FieldInv

\* Every step keeps the invariant.
LEMMA FieldKeeps == FieldInv /\ [FieldNext]_field_vars => FieldInv'
<1> SUFFICES ASSUME FieldInv, [FieldNext]_field_vars PROVE FieldInv'
  OBVIOUS
<1>1. CASE UNCHANGED field_vars
  BY <1>1 DEF field_vars, FieldInv, Stored
<1>2. ASSUME NEW col, NEW key, SetColumnKey(col, key) PROVE FieldInv'
  BY <1>2, SetColumnKeyKeeps
<1>3. ASSUME NEW cols, NEW row \in [cols -> Values], Write(row) PROVE FieldInv'
  BY <1>3, WriteKeeps
<1> QED  BY <1>1, <1>2, <1>3 DEF FieldNext

\* A field comes back with the key it was written with, and without one when
\* it has none; with another key, or one set since, it is refused.
Comes(ks, current, col, i, text) ==
    DecryptField(current, col, EncryptField(ks, col, i, text)) =
        IF (col \in DOMAIN ks <=> col \in DOMAIN current) /\ (col \in DOMAIN current => ks[col] = current[col])
          THEN Ok(text) ELSE Err

\* The cases: no key, a key at both times, and a key set since.
LEMMA FieldComes ==
    ASSUME NEW ks, NEW current, DOMAIN ks \subseteq DOMAIN current, NEW col, NEW i, NEW text \in Values
    PROVE  Comes(ks, current, col, i, text)
<1> DEFINE P == [kind : {"plain"}, n : Nat, key : {<< >>}, text : {<< >>}]
<1>1. text \in Seq(P)
  BY ValueAssumption
<1>2. CASE col \notin DOMAIN current
  BY <1>2 DEF Comes, DecryptField, EncryptField
<1>3. CASE col \in DOMAIN ks
  <2>1. col \in DOMAIN current
    BY <1>3
  <2>2. Opens(current[col], ks[col], i, text)
    BY <1>1, OpenSealed, Zenon
  <2>3. DecryptField(current, col, EncryptField(ks, col, i, text)) = Open(current[col], Seal(ks[col], i, text))
    BY <1>3, <2>1, Zenon DEF DecryptField, EncryptField
  <2>4. ks[col] = current[col] <=> current[col] = ks[col]
    OBVIOUS
  <2> QED  BY <1>3, <2>1, <2>2, <2>3, <2>4, Zenon DEF Comes, Opens
<1>4. CASE col \in DOMAIN current /\ col \notin DOMAIN ks
  <2> DEFINE n == Len(text)
  <2>1. n \in Nat /\ IsList(text, n)
    BY <1>1, SeqList
  <2>2. \A u \in 1..n : text[u].kind = "plain" /\ text[u].text = << >>
    <3> SUFFICES ASSUME NEW u \in 1..n PROVE text[u].kind = "plain" /\ text[u].text = << >>
      OBVIOUS
    <3>1. text[u] \in P
      <4> HIDE DEF P
      <4> QED  BY <1>1
    <3>2. PICK m \in Nat : text[u] = [kind |-> "plain", n |-> m, key |-> << >>, text |-> << >>]
      BY <3>1
    <3> QED  BY <3>2
  <2>3. << >> \in Seq(P)
    OBVIOUS
  <2> HIDE DEF P, n
  <2>4. n >= 2 => n \in 1..n
    BY <2>1
  <2>5. n >= 2 => text[n].text \in Seq(P)
    BY <2>2, <2>3, <2>4
  <2>6. Broken(text, n)
    <3>1. CASE n < 2
      BY <3>1 DEF Broken
    <3>2. CASE ~ (n < 2)
      <4>1. n >= 2
        BY <2>1, <3>2
      <4>2. text[n].kind # "tag"
        BY <2>2, <2>4, <4>1
      <4> QED  BY <4>2, Zenon DEF Broken
    <3> QED  BY <3>1, <3>2
  <2>7. Open(current[col], text) = Err
    BY <2>1, <2>5, <2>6, OpenBroken, Zenon
  <2>8. DecryptField(current, col, EncryptField(ks, col, i, text)) = Open(current[col], text)
    BY <1>4, Zenon DEF DecryptField, EncryptField
  <2> QED  BY <1>4, <2>7, <2>8, Zenon DEF Comes
<1> QED  BY <1>2, <1>3, <1>4

\* A row comes back exactly if each of its fields does.
LEMMA FieldsAreSafe == FieldInv => FieldsSafe
<1> SUFFICES ASSUME FieldInv, NEW i \in DOMAIN rows
             PROVE  LET row == plain[i].row
                        same == \A col \in DOMAIN row :
                                  /\ col \in DOMAIN plain[i].keys <=> col \in DOMAIN column_keys
                                  /\ col \in DOMAIN column_keys => plain[i].keys[col] = column_keys[col]
                    IN  DecryptRow(column_keys, rows[i]) =
                          IF same THEN [ok |-> TRUE, row |-> row]
                          ELSE [ok |-> FALSE, row |-> [col \in DOMAIN row |-> << >>]]
  BY Zenon DEF FieldsSafe
<1> DEFINE x == plain[i]
           ks == x.keys
           row == x.row
           r == rows[i]
           Right(col) == /\ col \in DOMAIN ks <=> col \in DOMAIN column_keys
                         /\ col \in DOMAIN column_keys => ks[col] = column_keys[col]
           f(col) == DecryptField(column_keys, col, r[col])
<1>1. Stored(r, i, x, DOMAIN column_keys)
  <2>1. i \in 1..Len(rows)
    BY DEF FieldInv, IsList
  <2> QED  BY <2>1, Zenon DEF FieldInv
<1>2. row \in [DOMAIN row -> Values] /\ DOMAIN ks \subseteq DOMAIN column_keys /\ r = EncryptRow(ks, i, row)
  BY <1>1, Zenon DEF Stored
<1> HIDE DEF x, ks, row, r
<1>3. DOMAIN r = DOMAIN row /\ \A col \in DOMAIN row : r[col] = EncryptField(ks, col, i, row[col])
  BY <1>2 DEF EncryptRow
<1>4. ASSUME NEW col \in DOMAIN row
      PROVE  f(col) = IF Right(col) THEN Ok(row[col]) ELSE Err
  <2>1. row[col] \in Values
    BY <1>2
  <2>2. Comes(ks, column_keys, col, i, row[col])
    BY <1>2, <2>1, FieldComes, Zenon
  <2> QED  BY <1>3, <2>2, Zenon DEF Comes
<1>5. \A t : Ok(t).ok = TRUE /\ Ok(t).text = t
  BY DEF Ok
<1>6. Err.ok = FALSE
  BY DEF Err
<1>7. DecryptRow(column_keys, r) =
        IF \A col \in DOMAIN row : f(col).ok THEN [ok |-> TRUE, row |-> [col \in DOMAIN row |-> f(col).text]]
        ELSE [ok |-> FALSE, row |-> [col \in DOMAIN row |-> << >>]]
  <2> HIDE DEF f
  <2>1. DecryptRow(column_keys, r) =
          LET fields == [col \in DOMAIN row |-> f(col)]
          IN  IF \A col \in DOMAIN row : fields[col].ok THEN [ok |-> TRUE, row |-> [col \in DOMAIN row |-> fields[col].text]]
              ELSE [ok |-> FALSE, row |-> [col \in DOMAIN row |-> << >>]]
    BY <1>3, Zenon DEF DecryptRow, f
  <2> QED  BY <2>1
<1> HIDE DEF f, Right
<1>8. CASE \A col \in DOMAIN row : Right(col)
  <2>1. ASSUME NEW col \in DOMAIN row PROVE f(col) = Ok(row[col])
    BY <1>4, <1>8
  <2>2. \A col \in DOMAIN row : f(col).ok /\ f(col).text = row[col]
    BY <1>5, <2>1, Zenon
  <2>3. [col \in DOMAIN row |-> f(col).text] = row
    BY <1>2, <2>2
  <2>4. DecryptRow(column_keys, r) = [ok |-> TRUE, row |-> row]
    BY <1>7, <2>2, <2>3
  <2> QED  BY <1>8, <2>4 DEF Right, ks, row, x, r
<1>9. CASE ~ \A col \in DOMAIN row : Right(col)
  <2>1. PICK col \in DOMAIN row : ~ Right(col)
    BY <1>9
  <2>2. f(col) = Err
    BY <1>4, <2>1
  <2>3. ~ f(col).ok
    BY <1>6, <2>2
  <2>4. DecryptRow(column_keys, r) = [ok |-> FALSE, row |-> [c \in DOMAIN row |-> << >>]]
    BY <1>7, <2>3, Zenon
  <2> QED  BY <1>9, <2>4 DEF Right, ks, row, x, r
<1> QED  BY <1>8, <1>9

-----------------------------------------------------------------------------
(* The security components side by side: a behaviour of the composition is *)
(* one of each part, or that part stands still.                            *)

sum_vars == <<part, auth_vars, store_vars, audit_vars, blocks, kms_vars, field_vars, rbac_vars, mask_vars>>

\* A step of the composition is a step of the audit log or leaves it alone, ...
LEMMA AuditMoves == [SumNext]_sum_vars => [AuditNext]_audit_vars
BY Zenon DEF SumNext, sum_vars

\* ... and so for what encrypts ...
LEMMA CiphersMove == [SumNext]_sum_vars => [MerkleNext]_blocks /\ [KmsNext]_kms_vars /\ [FieldNext]_field_vars
BY Zenon DEF SumNext, sum_vars

\* ... and for roles and masks.
LEMMA AccessMoves == [SumNext]_sum_vars => [RbacNext]_rbac_vars /\ [MaskNext]_mask_vars
BY Zenon DEF SumNext, sum_vars

\* A verification of the chain succeeds exactly while no entry is missing
\* between those kept, it then finds every edit of an entry and every loss of
\* one before the last, and each entry was given to the sink in its order.
THEOREM AuditAlwaysSafe == SumSpec => []AuditSafe
<1>1. SumInit => AuditInv
  BY AuditBegins DEF SumInit
<1>2. AuditInv /\ [SumNext]_sum_vars => AuditInv'
  BY AuditMoves, AuditKeeps
<1> QED  BY <1>1, <1>2, AuditIsSafe, PTL DEF SumSpec, sum_vars

\* Envelopes and fields give back what was encrypted or fail, also when cut,
\* changed, spliced, or read with another key, and a Merkle proof is good for
\* the content of its block only.
THEOREM EncryptionIsSafe == SumSpec => []EncryptionSafe
<1> DEFINE I == MerkleInv /\ KmsInv /\ FieldInv
<1>1. SumInit => I
  BY MerkleBegins, KmsBegins, FieldBegins DEF SumInit
<1>2. I /\ [SumNext]_sum_vars => I'
  BY CiphersMove, MerkleKeeps, KmsKeeps, FieldKeeps
<1>3. I => EncryptionSafe
  BY MerkleIsSafe, KmsIsSafe, FieldsAreSafe DEF EncryptionSafe
<1> HIDE DEF I
<1> QED  BY <1>1, <1>2, <1>3, PTL DEF SumSpec, sum_vars

\* A check allows what the roles held grant and nothing else, and a column
\* that is masked for a role shows it at most the ends its rule allows.
THEOREM AccessIsSafe == SumSpec => []AccessSafe
<1> DEFINE I == RbacInv /\ MaskInv
<1>1. SumInit => I
  BY RbacBegins, MaskBegins DEF SumInit
<1>2. I /\ [SumNext]_sum_vars => I'
  BY AccessMoves, RbacKeeps, MaskKeeps
<1>3. I => AccessSafe
  BY RbacIsExact, MaskingIsSafe DEF AccessSafe
<1> HIDE DEF I
<1> QED  BY <1>1, <1>2, <1>3, PTL DEF SumSpec, sum_vars
=============================================================================
