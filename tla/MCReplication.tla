---------------------------- MODULE MCReplication ----------------------------
(***************************************************************************)
(* The write-ahead log, the shipping of its segments, the Raft cluster,    *)
(* its transports and the chaos tests for TLC. They share no state in this *)
(* code base, so a behaviour is one of any of them: part says of which,    *)
(* the others stand still in one of their initial states.                  *)
(***************************************************************************)
EXTENDS Chaos, RaftCluster, WalShipping, Transport

VARIABLE part

\* Mixes of calls: terms, entries, snapshots and membership changes.
Calls(t, e, s, c) == [term |-> t, entries |-> e, snapshots |-> s, changes |-> c]
MCLimits == {Calls(2, 3, 2, 0), Calls(2, 2, 0, 1), Calls(1, 0, 0, 4), Calls(1, 1, 1, 2)}

\* Faults of every type, for any file or one, alone and several at one operation.
Fault(t, n, p) == [type |-> t, n |-> n, path |-> p]
MCSchedules ==
    {<<>>} \cup {2 :> <<f>> : f \in {Fault("IoError", 0, Path), Fault("TornWrite", 1, Path), Fault("TornWrite", 3, Path),
                                   Fault("SilentFsyncFail", 0, {"p"}), Fault("CorruptData", 0, Path), Fault("CorruptData", 5, {"q"})}}
            \cup {1 :> <<Fault("SilentFsyncFail", 0, Path), Fault("TornWrite", 0, Path), Fault("IoError", 0, {"q"})>>
                  @@ 3 :> <<Fault("SilentFsyncFail", 0, Path)>>}

MCData == {<<1, 2>>}

SumInit == /\ part \in {"wal", "ship", "raft", "tcp", "failover", "router", "net", "ring", "vfs", "harness"}
           /\ Init /\ (part # "wal" => config = Manual)
           /\ ShipInit /\ (part # "ship" => policy = "OnCommit")
           /\ RaftInit /\ (part # "raft" => limit = Calls(2, 3, 2, 0))
           /\ TcpInit /\ FailoverInit /\ RouterInit /\ NetInit /\ RingInit /\ HarnessInit
           /\ VfsInit /\ (part # "vfs" => faults = <<>>)

SumNext ==
    /\ part' = part
    /\ \/ /\ part = "wal" /\ Next
          /\ UNCHANGED <<ship_vars, raft_vars, tcp_vars, failover_vars, router_vars, net_vars, ring_vars, vfs_vars, harness_vars>>
       \/ /\ part = "ship" /\ ShipNext
          /\ UNCHANGED <<vars, raft_vars, tcp_vars, failover_vars, router_vars, net_vars, ring_vars, vfs_vars, harness_vars>>
       \/ /\ part = "raft" /\ RaftNext
          /\ UNCHANGED <<vars, ship_vars, tcp_vars, failover_vars, router_vars, net_vars, ring_vars, vfs_vars, harness_vars>>
       \/ /\ part = "tcp" /\ TcpNext
          /\ UNCHANGED <<vars, ship_vars, raft_vars, failover_vars, router_vars, net_vars, ring_vars, vfs_vars, harness_vars>>
       \/ /\ part = "failover" /\ FailoverNext
          /\ UNCHANGED <<vars, ship_vars, raft_vars, tcp_vars, router_vars, net_vars, ring_vars, vfs_vars, harness_vars>>
       \/ /\ part = "router" /\ RouterNext
          /\ UNCHANGED <<vars, ship_vars, raft_vars, tcp_vars, failover_vars, net_vars, ring_vars, vfs_vars, harness_vars>>
       \/ /\ part = "net" /\ NetNext
          /\ UNCHANGED <<vars, ship_vars, raft_vars, tcp_vars, failover_vars, router_vars, ring_vars, vfs_vars, harness_vars>>
       \/ /\ part = "ring" /\ RingNext
          /\ UNCHANGED <<vars, ship_vars, raft_vars, tcp_vars, failover_vars, router_vars, net_vars, vfs_vars, harness_vars>>
       \/ /\ part = "vfs" /\ VfsNext
          /\ UNCHANGED <<vars, ship_vars, raft_vars, tcp_vars, failover_vars, router_vars, net_vars, ring_vars, harness_vars>>
       \/ /\ part = "harness" /\ HarnessNext
          /\ UNCHANGED <<vars, ship_vars, raft_vars, tcp_vars, failover_vars, router_vars, net_vars, ring_vars, vfs_vars>>

SumSpec == SumInit /\ [][SumNext]_<<part, vars, ship_vars, raft_vars, tcp_vars, failover_vars,
                                    router_vars, net_vars, ring_vars, vfs_vars, harness_vars>>

\* The one-pass analysis finds the committed and the unfinished transactions
\* of every log; the faulty file system spoils only what its faults name, and
\* the crash tests accept what the analysis makes of every workload and crash.
RecoverySafe == TypeOK /\ AnalysisExact /\ VfsHonest /\ HarnessVerifies
=============================================================================
