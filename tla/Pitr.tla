-------------------------------- MODULE Pitr --------------------------------
(***************************************************************************)
(* Version chains and time travel (cendb-pitr/src/lib.rs).  PitrManager    *)
(* commits in the order of its own oracle; a VersionChain, which is public *)
(* too, takes the timestamps its caller gives, in any order.               *)
(***************************************************************************)
EXTENDS Integers, FiniteSets

CONSTANTS PKey, PValue, MaxTs

ASSUME PitrAssumption == MaxTs \in Nat \ {0}

VARIABLES chains,     \* key -> timestamp -> [end_ts, value]
          oracle,     \* of the manager's transactions
          committed,  \* key -> timestamp -> value: all that was committed
          cutoff,     \* the largest argument of gc so far
          inOrder     \* commits came in the order of their timestamps

pitr_vars == <<chains, oracle, committed, cutoff, inOrder>>

Forever == MaxTs + 1   \* u64::MAX

With(f, x, y) == [z \in DOMAIN f \cup {x} |-> IF z = x THEN y ELSE f[z]]
Newest(ts) == CHOOSE t \in ts : \A u \in ts : u <= t

\* VersionChain::commit
Committing(chain, ts, value) ==
    LET before == {t \in DOMAIN chain : t < ts}
        ended  == IF before = {} THEN chain ELSE [chain EXCEPT ![Newest(before)].end_ts = ts]
    IN  With(ended, ts, [end_ts |-> Forever, value |-> value])

\* VersionChain::read_at: 0 for none
ReadAt(chain, ts) ==
    LET hits == {t \in DOMAIN chain : t <= ts /\ chain[t].end_ts > ts}
    IN  IF hits = {} THEN 0 ELSE chain[Newest(hits)].value

\* A mutant: the version that ends after the cutoff goes too.
CollectedInclusive(chain, min) == {t \in DOMAIN chain : chain[t].end_ts <= min + 1}
Collected(chain, min) == {t \in DOMAIN chain : chain[t].end_ts <= min}

PitrInit == /\ chains = [k \in PKey |-> <<>>] /\ committed = [k \in PKey |-> <<>>]
            /\ oracle = 1 /\ cutoff = 0 /\ inOrder = TRUE

CommitAt(k, ts, value) ==
    /\ chains' = [chains EXCEPT ![k] = Committing(@, ts, value)]
    /\ committed' = [committed EXCEPT ![k] = With(@, ts, value)]

\* PitrManager::write: begin, record_write and commit, then the chain
Write(k, value) == /\ oracle < MaxTs /\ oracle' = oracle + 1
                   /\ CommitAt(k, oracle + 1, value)
                   /\ UNCHANGED <<cutoff, inOrder>>

\* A chain used without the manager
CommitLate(k, ts, value) == /\ ts <= oracle /\ ts \notin DOMAIN committed[k] /\ ts > cutoff
                            /\ CommitAt(k, ts, value)
                            /\ inOrder' = (inOrder /\ \A t \in DOMAIN committed[k] : t < ts)
                            /\ UNCHANGED <<oracle, cutoff>>

Gc(min) == /\ min > cutoff /\ min <= oracle
           /\ chains' = [k \in PKey |-> [t \in DOMAIN chains[k] \ Collected(chains[k], min) |-> chains[k][t]]]
           /\ cutoff' = min
           /\ UNCHANGED <<oracle, committed, inOrder>>

PitrNext == \/ \E k \in PKey, v \in PValue : Write(k, v) \/ \E ts \in 1..MaxTs : CommitLate(k, ts, v)
            \/ \E min \in 1..MaxTs : Gc(min)

PitrSpec == PitrInit /\ [][PitrNext]_pitr_vars

-----------------------------------------------------------------------------
\* What a key was at a time: its last commit until then
AsOf(k, ts) == LET until == {t \in DOMAIN committed[k] : t <= ts}
               IN  IF until = {} THEN 0 ELSE committed[k][Newest(until)]

\* Reads at the cutoff of the last gc or later are exact, in whatever order
\* the commits came; reads before it give what was there then or nothing, as
\* long as the commits came in order.  read_current is one of the former.
PitrSafe == \A k \in PKey, ts \in 1..oracle :
    LET got == ReadAt(chains[k], ts)
    IN  IF ts >= cutoff THEN got = AsOf(k, ts) ELSE inOrder => got \in {0, AsOf(k, ts)}
=============================================================================
