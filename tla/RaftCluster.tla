----------------------------- MODULE RaftCluster -----------------------------
(***************************************************************************)
(* The in-process Raft cluster of cendb-replication (src/lib.rs): elections,*)
(* replication, application, snapshots and membership changes.  Each call  *)
(* of RaftCluster runs to its end before the next one, so it is one action.*)
(* next_index and votes_received are written and never read by the cluster,*)
(* and are left out.  Entries are numbered by the order they are proposed. *)
(***************************************************************************)
EXTENDS Integers, FiniteSets, Sequences, SequencesExt, FiniteSetsExt

CONSTANTS NodeId, Initial, None,
          Limits   \* the mixes of calls a behaviour is bounded by

VARIABLES nodes,      \* RaftCluster.nodes: a map from ids to nodes
          leader,     \* RaftCluster.leader
          panicked,   \* an unwrap, an index or a drain has panicked
          executed,   \* what each node applied, or got with a snapshot, in order
          committed,  \* the log as it was covered by the leader's commit_index
          wins,       \* elections won: term, winner, and who is left of its time
          proposed, snapshots, changes,   \* calls so far
          limit       \* how many of each a behaviour makes

raft_vars == <<nodes, leader, panicked, executed, committed, wins, proposed, snapshots, changes, limit>>

RaftNode(peers) == [role |-> "Follower", current_term |-> 0, voted_for |-> None, log |-> <<>>,
                    commit_index |-> 0, last_applied |-> 0, match_index |-> <<>>, peers |-> peers]

RaftInit == /\ nodes = [n \in Initial |-> RaftNode(Initial \ {n})]
            /\ leader = None /\ panicked = FALSE
            /\ executed = [n \in NodeId |-> <<>>] /\ committed = <<>> /\ wins = {}
            /\ proposed = 0 /\ snapshots = 0 /\ changes = 0 /\ limit \in Limits

-----------------------------------------------------------------------------
(* The operations of one node *)

StartElection(n, id) == [n EXCEPT !.role = "Candidate", !.current_term = @ + 1, !.voted_for = id]

BecomeLeader(n) == [n EXCEPT !.role = "Leader",
                             !.match_index = [p \in DOMAIN @ \cup n.peers |->
                                                IF p \in n.peers THEN 0 ELSE @[p]]]

AppendEntry(n, data) == [n EXCEPT !.log = Append(@, [term |-> n.current_term, data |-> data])]

\* The highest index above commit_index that a majority holds; it is committed
\* only if its entry is of the leader's term, and no lower one is looked at.
Advanced(n) ==
    LET Holders(i) == 1 + Cardinality({p \in DOMAIN n.match_index : n.match_index[p] >= i})
        held == {i \in (n.commit_index + 1)..Len(n.log) :
                    Holders(i) >= (Cardinality(n.peers) + 1) \div 2 + 1}
    IN  IF held # {} /\ n.log[Max(held)].term = n.current_term THEN Max(held) ELSE n.commit_index

Acknowledge(n, follower, index) ==
    IF n.role # "Leader" THEN n
    ELSE LET m == [n EXCEPT !.match_index = [p \in DOMAIN @ \cup {follower} |->
                                               IF p = follower THEN index ELSE @[p]]]
         IN  [m EXCEPT !.commit_index = Advanced(m)]

\* Every follower reports the entry, in the order of the hash map.
AcknowledgedBy(n, followers, index) ==
    FoldSet(LAMBDA f, m : Acknowledge(m, f, index), n, followers)

\* Mutant: every call starts from the first entry again.
AppliedAgain(n) == SubSeq(n.log, 1, Min({n.commit_index, Len(n.log)}))

\* Entries that commit_index covers but the log does not hold are passed over.
Applied(n) == SubSeq(n.log, n.last_applied + 1, Min({n.commit_index, Len(n.log)}))
ApplyCommitted(n) == [n EXCEPT !.last_applied = Max({@, n.commit_index})]

\* drain(0..commit_index) panics on a shorter log
CanDrain(n) == n.commit_index <= Len(n.log)
CreateSnapshot(n) == [n EXCEPT !.log = SubSeq(@, n.commit_index + 1, Len(@))]

InstallSnapshot(n, last) ==
    IF last <= n.commit_index THEN n
    ELSE [n EXCEPT !.log = IF last <= Len(@) THEN SubSeq(@, last + 1, Len(@)) ELSE @,
                   !.commit_index = last, !.last_applied = last]

AddPeer(n, id) ==
    IF id \in n.peers THEN n
    ELSE [n EXCEPT !.peers = @ \cup {id},
                   !.match_index = IF n.role # "Leader" THEN @
                                   ELSE [p \in DOMAIN @ \cup {id} |-> IF p = id THEN 0 ELSE @[p]]]

RemovePeer(n, id) == [n EXCEPT !.peers = @ \ {id},
                               !.match_index = [p \in DOMAIN @ \ {id} |-> @[p]]]

-----------------------------------------------------------------------------
(* The operations of the cluster *)

Majority == Cardinality(DOMAIN nodes) \div 2 + 1

\* Mutant: a node votes a second time in its term.
GrantsVoteTwice(n, term) == n.current_term <= term

GrantsVote(n, term) == n.current_term < term \/ n.voted_for = None
Voted(n, term, c) == [n EXCEPT !.current_term = term, !.voted_for = c]

ElectLeader(c) ==
    LET candidate == StartElection(nodes[c], c)
        term   == candidate.current_term
        voters == {i \in DOMAIN nodes \ {c} : GrantsVote(nodes[i], term)}
        won    == 1 + Cardinality(voters) >= Majority
    IN  /\ ~panicked /\ term <= limit.term
        /\ nodes' = [i \in DOMAIN nodes |->
                       IF i = c THEN IF won THEN BecomeLeader(candidate) ELSE candidate
                       ELSE IF i \in voters THEN Voted(nodes[i], term, c)
                       ELSE nodes[i]]
        /\ leader' = IF won THEN c ELSE leader
        /\ wins' = wins \cup IF won THEN {[term |-> term, id |-> c, left |-> DOMAIN nodes]} ELSE {}
        /\ UNCHANGED <<panicked, executed, committed, proposed, snapshots, changes, limit>>

\* The leader's id names a node that leads; anything else ends in a panic.
LeaderThere == leader \in DOMAIN nodes /\ nodes[leader].role = "Leader"

ReplicateEntry ==
    /\ ~panicked /\ leader # None /\ proposed < limit.entries
    /\ proposed' = proposed + 1
    /\ IF ~LeaderThere THEN panicked' = TRUE /\ UNCHANGED <<nodes, committed>>
       ELSE LET led    == AppendEntry(nodes[leader], proposed + 1)
                index  == Len(led.log)
                others == DOMAIN nodes \ {leader}
                acked  == AcknowledgedBy(led, others, index)
            IN  /\ nodes' = [i \in DOMAIN nodes |->
                               IF i = leader THEN acked
                               ELSE IF Len(nodes[i].log) < index
                                    THEN [nodes[i] EXCEPT !.log = Append(@, led.log[index])]
                                    ELSE nodes[i]]
                /\ committed' = IF acked.commit_index > led.commit_index
                                THEN SubSeq(acked.log, 1, acked.commit_index) ELSE committed
                /\ UNCHANGED panicked
    /\ UNCHANGED <<leader, executed, wins, snapshots, changes, limit>>

\* The caller hands the leader's commit_index to the followers.
SyncCommit ==
    /\ ~panicked /\ LeaderThere
    /\ nodes' = [i \in DOMAIN nodes |-> [nodes[i] EXCEPT !.commit_index = nodes[leader].commit_index]]
    /\ UNCHANGED <<leader, panicked, executed, committed, wins, proposed, snapshots, changes, limit>>

ApplyAll ==
    /\ ~panicked
    /\ nodes' = [i \in DOMAIN nodes |-> ApplyCommitted(nodes[i])]
    /\ executed' = [i \in NodeId |-> IF i \in DOMAIN nodes THEN executed[i] \o Applied(nodes[i])
                                     ELSE executed[i]]
    /\ UNCHANGED <<leader, panicked, committed, wins, proposed, snapshots, changes, limit>>

SnapshotAndSync ==
    /\ ~panicked /\ leader \in DOMAIN nodes /\ snapshots < limit.snapshots
    /\ snapshots' = snapshots + 1
    /\ IF ~CanDrain(nodes[leader]) THEN panicked' = TRUE /\ UNCHANGED <<nodes, executed>>
       ELSE LET last == nodes[leader].commit_index
                data == SubSeq(nodes[leader].log, 1, last)
            IN  /\ nodes' = [i \in DOMAIN nodes |->
                               IF i = leader THEN CreateSnapshot(nodes[i])
                               ELSE InstallSnapshot(nodes[i], last)]
                /\ executed' = [i \in NodeId |->
                                  IF i \in DOMAIN nodes \ {leader} /\ last > nodes[i].commit_index
                                  THEN data ELSE executed[i]]
                /\ UNCHANGED panicked
    /\ UNCHANGED <<leader, committed, wins, proposed, changes, limit>>

Departed(id) == {[w EXCEPT !.left = @ \ {id}] : w \in wins}

AddNode(id) ==
    /\ ~panicked /\ changes < limit.changes
    /\ nodes' = [i \in DOMAIN nodes \cup {id} |->
                   IF i = id THEN RaftNode(DOMAIN nodes) ELSE AddPeer(nodes[i], id)]
    /\ executed' = [executed EXCEPT ![id] = <<>>]
    /\ wins' = Departed(id) /\ changes' = changes + 1
    /\ UNCHANGED <<leader, panicked, committed, proposed, snapshots, limit>>

RemoveNode(id) ==
    /\ ~panicked /\ changes < limit.changes /\ Cardinality(DOMAIN nodes) > 1
    /\ nodes' = [i \in DOMAIN nodes \ {id} |-> RemovePeer(nodes[i], id)]
    /\ wins' = Departed(id) /\ changes' = changes + 1
    /\ UNCHANGED <<leader, panicked, executed, committed, proposed, snapshots, limit>>

\* What verify_consistency compares: the lengths of the logs.
VerifyConsistency == \A i, j \in DOMAIN nodes : Len(nodes[i].log) = Len(nodes[j].log)

RaftNext == \/ \E c \in DOMAIN nodes : ElectLeader(c)
            \/ ReplicateEntry \/ SyncCommit \/ ApplyAll \/ SnapshotAndSync
            \/ \E id \in NodeId : AddNode(id)
            \/ \E id \in DOMAIN nodes : RemoveNode(id)

RaftSpec == RaftInit /\ [][RaftNext]_raft_vars

-----------------------------------------------------------------------------
(* Properties *)

\* With the members it started with, the first snapshot included, no call panics.
NoPanic == changes = 0 /\ snapshots <= 1 => ~panicked

\* While members and snapshots stand still, what a leader has committed is the
\* beginning of every node's log, whoever led when it was appended.
CommittedEverywhere ==
    changes = 0 /\ snapshots = 0 =>
        /\ VerifyConsistency
        /\ \A i \in DOMAIN nodes : IsPrefix(committed, nodes[i].log)

\* A node executes the entries in the order they were proposed: none is
\* executed twice or passed over.
AppliedInOrder == \A i \in DOMAIN nodes : \A k \in DOMAIN executed[i] : executed[i][k].data = k

\* The same while members and snapshots stand still.
AppliedInOrderAtRest == changes = 0 /\ snapshots = 0 => AppliedInOrder

RaftSafe == NoPanic /\ CommittedEverywhere /\ AppliedInOrderAtRest

\* Leaders of one term: replicas of an election that are still there do not
\* vote again, so a second winner needs a majority of nodes added since.
OneWinnerPerTerm ==
    [][\A w \in {v \in wins' : v.left = DOMAIN nodes} \ wins : \A v \in wins :
          v.term = w.term => Cardinality(DOMAIN nodes \ v.left) >= Majority]_raft_vars
=============================================================================
