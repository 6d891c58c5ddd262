--------------------------- MODULE FileSessionStore ---------------------------
(***************************************************************************)
(* FileSessionStore of cendb-security/src/session_store.rs: sessions in a  *)
(* JSON Lines file that several threads share.  save appends a line under  *)
(* the write lock; load reads the file under the read lock; delete and     *)
(* delete_expired read it under the read lock, let go of the lock, and     *)
(* then replace the file, by rename, under the write lock.  A lock section *)
(* is one step: no other thread sees the middle of it.                     *)
(*                                                                         *)
(* A line is the session it holds, or Damaged when parse_session_json      *)
(* rejects it.  user_id is stored for the caller and never read.  A        *)
(* restart is the end of the process; what a power failure takes back of   *)
(* a rename whose directory was not fsynced is left out.                   *)
(*                                                                         *)
(* held, gone, exposed and torn are not in the code.  held and gone are    *)
(* what the answers of the store promise: the sessions saved and the       *)
(* tokens removed since.  exposed has the tokens whose last answer came    *)
(* while another thread was between the two halves of a removal.           *)
(***************************************************************************)
EXTENDS Integers, Sequences, SequencesExt, FiniteSets

CONSTANTS Thread, Token,
          MaxTime,     \* bound: expires_at and cutoffs are 1..MaxTime
          MaxLines,    \* bound: lines of the file before a save
          MaxFaults,   \* bound: failed operations and restarts
          Damaged      \* a line that does not parse

StoredSession == [token : Token, expires_at : 1..MaxTime]

VARIABLES file,      \* the lines, and whether the last one lacks its newline
          removal,   \* thread -> its removal between the lock sections, if any
          held, gone, exposed, torn,
          faults

store_vars == <<file, removal, held, gone, exposed, torn, faults>>

NoRemoval == [on |-> FALSE, keep |-> {}, drop |-> {}]

\* Of several lines with one token the map has a single session.
IsMap(sessions) == \A s, t \in sessions : s.token = t.token => s = t

StoreTypeOK == /\ file.lines \in Seq(StoredSession \cup {Damaged})
               /\ file.partial \in BOOLEAN
               /\ \A th \in Thread : /\ removal[th].on \in BOOLEAN
                                     /\ removal[th].keep \subseteq StoredSession
                                     /\ IsMap(removal[th].keep)
                                     /\ removal[th].drop \subseteq Token
               /\ held \subseteq StoredSession /\ IsMap(held)
               /\ {gone, exposed} \subseteq SUBSET Token
               /\ torn \in BOOLEAN
               /\ faults \in 0..MaxFaults

StoreInit == /\ file = [lines |-> << >>, partial |-> FALSE]
             /\ removal = [th \in Thread |-> NoRemoval]
             /\ held = {} /\ gone = {} /\ exposed = {}
             /\ torn = FALSE
             /\ faults = 0

-----------------------------------------------------------------------------
(* Reading. *)

\* read_all fails on any line that does not parse.
Readable(f) == Damaged \notin ToSet(f.lines)

\* The last line of a token wins.
ReadAll(f) ==
    {f.lines[i] : i \in {j \in DOMAIN f.lines :
        \A k \in DOMAIN f.lines : f.lines[k].token = f.lines[j].token => k <= j}}

-----------------------------------------------------------------------------
(* save *)

Idle(th) == ~removal[th].on
OthersRemoving(th) == \E u \in Thread \ {th} : removal[u].on

\* A line after one without a newline joins it, and the two do not parse.
WithLine(f, line, partial) ==
    [lines |-> IF f.partial THEN Append(Front(f.lines), Damaged) ELSE Append(f.lines, line),
     partial |-> partial]

LessTokens(sessions, tokens) == {s \in sessions : s.token \notin tokens}
Expose(th, tokens) == exposed' = IF OthersRemoving(th) THEN exposed \cup tokens
                                 ELSE exposed \ tokens

\* Fault: the newline is written before the next line, not after this one.
Save_NoNewline(th, s) ==
    /\ Idle(th)
    /\ Len(file.lines) < MaxLines
    /\ file' = WithLine(file, s, TRUE)
    /\ held' = LessTokens(held, {s.token}) \cup {s}
    /\ gone' = gone \ {s.token}
    /\ Expose(th, {s.token})
    /\ UNCHANGED <<removal, torn, faults>>

Save(th, s) ==
    /\ Idle(th)
    /\ Len(file.lines) < MaxLines
    /\ file' = WithLine(file, s, FALSE)
    /\ held' = LessTokens(held, {s.token}) \cup {s}
    /\ gone' = gone \ {s.token}
    /\ Expose(th, {s.token})
    /\ UNCHANGED <<removal, torn, faults>>

\* A write or the fsync fails, or the process ends during the save: nothing,
\* part of the line, the line, or the line and its newline are in the file.
\* The caller does not know which.
SaveFails(th, s) ==
    /\ Idle(th)
    /\ faults < MaxFaults
    /\ Len(file.lines) < MaxLines
    /\ file' \in {file, WithLine(file, Damaged, TRUE), WithLine(file, s, TRUE),
                  WithLine(file, s, FALSE)}
    /\ torn' = (torn \/ file'.partial)
    /\ held' = LessTokens(held, {s.token})
    /\ gone' = gone \ {s.token}
    /\ faults' = faults + 1
    /\ UNCHANGED <<removal, exposed>>

-----------------------------------------------------------------------------
(* delete and delete_expired *)

\* The first half of delete; a token that is not in the file is Ok at once.
Delete(th, token) ==
    /\ Idle(th)
    /\ Readable(file)
    /\ IF \E s \in ReadAll(file) : s.token = token
       THEN /\ removal' = [removal EXCEPT ![th] =
                  [on |-> TRUE, keep |-> LessTokens(ReadAll(file), {token}), drop |-> {token}]]
            /\ UNCHANGED <<held, gone, exposed>>
       ELSE /\ held' = LessTokens(held, {token})
            /\ gone' = gone \cup {token}
            /\ Expose(th, {token})
            /\ UNCHANGED removal
    /\ UNCHANGED <<file, torn, faults>>

\* Fault: sessions that expire at the cutoff go, too.
Unexpired_NotStrict(before) == {s \in ReadAll(file) : s.expires_at > before}

Unexpired(before) == {s \in ReadAll(file) : s.expires_at >= before}

\* The first half of delete_expired, which ends there if nothing has expired.
DeleteExpired(th, before) ==
    /\ Idle(th)
    /\ Readable(file)
    /\ Unexpired(before) # ReadAll(file)
    /\ removal' = [removal EXCEPT ![th] =
          [on |-> TRUE, keep |-> Unexpired(before),
           drop |-> {s.token : s \in {t \in ReadAll(file) : t.expires_at < before}}]]
    /\ UNCHANGED <<file, held, gone, exposed, torn, faults>>

\* Fault: the sessions are appended to the file instead of replacing it.
Rewrite_Appends(th) ==
    /\ removal[th].on
    /\ file' = [lines |-> file.lines \o SetToSeq(removal[th].keep), partial |-> FALSE]
    /\ held' = LessTokens(held, removal[th].drop)
    /\ gone' = gone \cup removal[th].drop
    /\ Expose(th, removal[th].drop)
    /\ removal' = [removal EXCEPT ![th] = NoRemoval]
    /\ UNCHANGED <<torn, faults>>

\* The second half: the sessions read earlier replace whatever is there now,
\* in the order of the hash map.
Rewrite(th) ==
    /\ removal[th].on
    /\ file' = [lines |-> SetToSeq(removal[th].keep), partial |-> FALSE]
    /\ held' = LessTokens(held, removal[th].drop)
    /\ gone' = gone \cup removal[th].drop
    /\ Expose(th, removal[th].drop)
    /\ removal' = [removal EXCEPT ![th] = NoRemoval]
    /\ UNCHANGED <<torn, faults>>

\* A write, the fsync or the rename fails: the file is the old one.
RewriteFails(th) ==
    /\ removal[th].on
    /\ faults < MaxFaults
    /\ faults' = faults + 1
    /\ removal' = [removal EXCEPT ![th] = NoRemoval]
    /\ UNCHANGED <<file, held, gone, exposed, torn>>

\* The process ends between lock sections; its successor opens the file.
StoreRestart ==
    /\ faults < MaxFaults
    /\ faults' = faults + 1
    /\ removal' = [th \in Thread |-> NoRemoval]
    /\ UNCHANGED <<file, held, gone, exposed, torn>>

StoreNext == \/ \E th \in Thread :
                  \/ \E s \in StoredSession : Save(th, s) \/ SaveFails(th, s)
                  \/ \E token \in Token : Delete(th, token)
                  \/ \E before \in 1..MaxTime : DeleteExpired(th, before)
                  \/ Rewrite(th)
                  \/ RewriteFails(th)
             \/ StoreRestart

StoreSpec == StoreInit /\ [][StoreNext]_store_vars
-----------------------------------------------------------------------------
(* Properties. *)

\* A session whose save was answered Ok while no other thread was half way
\* through a removal is what load returns, until it is saved again, deleted or
\* swept, whatever removals, failures and restarts come later.
SavedKept == Readable(file) =>
    \A s \in held : s.token \notin exposed => s \in ReadAll(file)

\* A token that was removed while no other removal was half way stays removed.
DeletedGone == Readable(file) =>
    \A s \in ReadAll(file) : s.token \in gone => s.token \in exposed

\* Nothing but a save that was cut short makes the file unreadable: removals
\* that fail or race never do.
OnlyTornCorrupts == ~torn => Readable(file)

SessionsDurable == SavedKept /\ DeletedGone /\ OnlyTornCorrupts

\* "This makes a single FileSessionStore instance safe to share across
\* threads": a saved session is what load returns, exposed or not.
SafeToShare == Readable(file) => held \subseteq ReadAll(file)
=============================================================================
