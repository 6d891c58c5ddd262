----------------------------- MODULE Transport ------------------------------
(***************************************************************************)
(* How the nodes of a cluster reach one another, notice that the leader is *)
(* silent and choose where to read: the TCP transport, the failover        *)
(* manager and the read router of cendb-replication, and the simulated     *)
(* network and the queue of I/O operations of cendb-net.                   *)
(***************************************************************************)
EXTENDS Integers, Sequences, FiniteSets, SequencesExt

(***************************************************************************)
(* Messages between Raft processes over TCP (cendb-replication/src/        *)
(* tcp_transport.rs): one TcpTransport that listens, and the threads that  *)
(* send to it.  Every message has a connection of its own, and the listener*)
(* thread serves one connection at a time, in any order.  The JSON text    *)
(* with its length prefix arrives whole or is cut off, and is then dropped.*)
(***************************************************************************)
CONSTANTS Thread, MaxMessages, Nil, Node

VARIABLES peers,       \* does the senders' map know this node
          bound,       \* the listener thread holds the port
          listener,    \* the transport still has the thread's handle
          sends,        \* sends[t]: the message t is sending, and how far it is
          conns,       \* connections not yet served: message -> "open", "whole", "cut"
          serving,     \* the message the listener is reading, or Nil
          incoming, polled,
          sent, failed, next_message,   \* Ok and Err returned by send; the next message
          severed      \* messages whose connection broke, which nobody is told

tcp_vars == <<peers, bound, listener, sends, conns, serving, incoming, polled, sent, failed,
              next_message, severed>>

IdleSend == [msg |-> Nil, at |-> "idle"]

TcpInit == /\ peers = FALSE /\ bound = FALSE /\ listener = FALSE
           /\ sends = [t \in Thread |-> IdleSend] /\ conns = [m \in {} |-> "open"] /\ serving = Nil
           /\ incoming = <<>> /\ polled = <<>> /\ sent = {} /\ failed = {} /\ next_message = 1
           /\ severed = {}

TransportAddPeer ==
    /\ ~peers /\ peers' = TRUE
    /\ UNCHANGED <<bound, listener, sends, conns, serving, incoming, polled, sent, failed, next_message, severed>>

TransportRemovePeer ==
    /\ peers /\ peers' = FALSE
    /\ UNCHANGED <<bound, listener, sends, conns, serving, incoming, polled, sent, failed, next_message, severed>>

\* bind fails while the thread of an earlier start still holds the port
Start == /\ ~bound /\ bound' = TRUE /\ listener' = TRUE
         /\ UNCHANGED <<peers, sends, conns, serving, incoming, polled, sent, failed, next_message, severed>>

\* Only the handle is dropped: the thread goes on accepting.
Stop == /\ listener /\ listener' = FALSE
        /\ UNCHANGED <<peers, bound, sends, conns, serving, incoming, polled, sent, failed, next_message, severed>>

\* send looks the address up under the lock and connects after releasing it.
SendLookup(t) ==
    /\ sends[t] = IdleSend /\ next_message <= MaxMessages /\ next_message' = next_message + 1
    /\ IF peers THEN sends' = [sends EXCEPT ![t] = [msg |-> next_message, at |-> "connect"]] /\ UNCHANGED failed
       ELSE failed' = failed \cup {next_message} /\ UNCHANGED sends
    /\ UNCHANGED <<peers, bound, listener, conns, serving, incoming, polled, sent, severed>>

SendConnect(t) ==
    /\ sends[t].at = "connect"
    /\ IF bound THEN /\ conns' = [m \in DOMAIN conns \cup {sends[t].msg} |->
                                     IF m = sends[t].msg THEN "open" ELSE conns[m]]
                     /\ sends' = [sends EXCEPT ![t].at = "write"] /\ UNCHANGED failed
       ELSE failed' = failed \cup {sends[t].msg} /\ sends' = [sends EXCEPT ![t] = IdleSend] /\ UNCHANGED conns
    /\ UNCHANGED <<peers, bound, listener, serving, incoming, polled, sent, next_message, severed>>

\* What is written reaches a connection only while that connection holds.
OnTheWire(m, c) == [k \in DOMAIN conns |-> IF k = m /\ conns[k] = "open" THEN c ELSE conns[k]]

\* write_all and flush hand all the bytes to the kernel, which is what Ok says,
\* or fail with part of the message on the wire; the stream is closed either
\* way.  On a connection that has broken both answers are possible.
SendWrite(t) ==
    /\ sends[t].at = "write" /\ sends' = [sends EXCEPT ![t] = IdleSend]
    /\ \/ /\ conns' = OnTheWire(sends[t].msg, "whole")
          /\ sent' = sent \cup {sends[t].msg} /\ UNCHANGED failed
       \/ /\ conns' = OnTheWire(sends[t].msg, "cut")
          /\ failed' = failed \cup {sends[t].msg} /\ UNCHANGED sent
    /\ UNCHANGED <<peers, bound, listener, serving, incoming, polled, next_message, severed>>

\* A connection breaks before the listener has read the message, written or not:
\* the listener finds the end of the stream, the sender may have its Ok already.
ConnectionBreaks(m) ==
    /\ m \in DOMAIN conns /\ conns[m] # "cut"
    /\ conns' = [conns EXCEPT ![m] = "cut"] /\ severed' = severed \cup {m}
    /\ UNCHANGED <<peers, bound, listener, sends, serving, incoming, polled, sent, failed, next_message>>

Accept == /\ bound /\ serving = Nil
          /\ \E m \in DOMAIN conns : serving' = m
          /\ UNCHANGED <<peers, bound, listener, sends, conns, incoming, polled, sent, failed, next_message, severed>>

\* Mutant: what was read is kept although the stream ended early.
ReadTruncated ==
    /\ serving # Nil /\ conns[serving] # "open"
    /\ incoming' = Append(incoming, serving)
    /\ conns' = [m \in DOMAIN conns \ {serving} |-> conns[m]] /\ serving' = Nil
    /\ UNCHANGED <<peers, bound, listener, sends, polled, sent, failed, next_message, severed>>

\* read_message blocks on an open connection, without a timeout
ReadMessage ==
    /\ serving # Nil /\ conns[serving] # "open"
    /\ incoming' = IF conns[serving] = "whole" THEN Append(incoming, serving) ELSE incoming
    /\ conns' = [m \in DOMAIN conns \ {serving} |-> conns[m]] /\ serving' = Nil
    /\ UNCHANGED <<peers, bound, listener, sends, polled, sent, failed, next_message, severed>>

PollIncoming == /\ incoming # <<>> /\ polled' = polled \o incoming /\ incoming' = <<>>
                /\ UNCHANGED <<peers, bound, listener, sends, conns, serving, sent, failed, next_message, severed>>

TcpNext == \/ TransportAddPeer \/ TransportRemovePeer \/ Start \/ Stop \/ Accept \/ ReadMessage \/ PollIncoming
           \/ \E t \in Thread : SendLookup(t) \/ SendConnect(t) \/ SendWrite(t)
           \/ \E m \in DOMAIN conns : ConnectionBreaks(m)

TcpSpec == TcpInit /\ [][TcpNext]_tcp_vars

-----------------------------------------------------------------------------
\* A message is handed out at most once, and only if send returned Ok for it;
\* one that send reported as failed never turns up later.
DeliveredOnce ==
    LET all == polled \o incoming
    IN  IsInjective(all) /\ Range(all) \subseteq sent \ failed

\* Ok is the last that is heard of a message only when its connection broke:
\* otherwise it is carried whole, waiting or handed out while the listener lives.
NothingLost == \A m \in sent \ severed :
                 m \in {k \in DOMAIN conns : conns[k] = "whole"} \cup Range(polled \o incoming)

TcpSafe == DeliveredOnce /\ NothingLost

-----------------------------------------------------------------------------
(***************************************************************************)
(* FailoverManager (cendb-replication/src/tcp_transport.rs): when the      *)
(* leader was last heard of, and whether that is too long ago.  set_leader *)
(* takes its two locks one after the other; it and record_heartbeat read   *)
(* the clock before they take the lock of the time they store.             *)
(***************************************************************************)
CONSTANTS HeartbeatTimeout, MaxClock

ASSUME TransportAssumption == Nil \notin Nat /\ IsFiniteSet(Node) /\ HeartbeatTimeout \in Nat

VARIABLES clock, leader_id, last_heartbeat,
          calling,    \* calling[t]: "set" when t has stored the leader, "store" when it has read the clock
          stamp,      \* the time t has read
          heard,      \* when the leader was last set or heard of
          overlapped, \* that call read the clock while another had yet to store its time
          alarmed     \* check_failover has just returned TRUE

failover_vars == <<clock, leader_id, last_heartbeat, calling, stamp, heard, overlapped, alarmed>>

FailoverInit == /\ clock = 0 /\ leader_id = Nil /\ last_heartbeat = 0
                /\ calling = [t \in Thread |-> "idle"] /\ stamp = [t \in Thread |-> 0]
                /\ heard = 0 /\ overlapped = FALSE /\ alarmed = FALSE

FailoverTick == /\ clock < MaxClock /\ clock' = clock + 1 /\ alarmed' = FALSE
                /\ UNCHANGED <<leader_id, last_heartbeat, calling, stamp, heard, overlapped>>

SetLeader(t, n) == /\ calling[t] = "idle" /\ calling' = [calling EXCEPT ![t] = "set"]
                   /\ leader_id' = n /\ heard' = clock /\ alarmed' = FALSE
                   /\ UNCHANGED <<clock, last_heartbeat, stamp, overlapped>>

\* the right-hand side of the assignment: first of record_heartbeat, last of set_leader
ReadClock(t) == /\ calling[t] \in {"idle", "set"} /\ calling' = [calling EXCEPT ![t] = "store"]
                /\ stamp' = [stamp EXCEPT ![t] = clock] /\ heard' = clock
                /\ overlapped' = (\E u \in Thread \ {t} : calling[u] = "store") /\ alarmed' = FALSE
                /\ UNCHANGED <<clock, leader_id, last_heartbeat>>

StoreHeartbeat(t) == /\ calling[t] = "store" /\ calling' = [calling EXCEPT ![t] = "idle"]
                     /\ last_heartbeat' = stamp[t] /\ alarmed' = FALSE
                     /\ UNCHANGED <<clock, leader_id, stamp, heard, overlapped>>

CheckFailover == /\ alarmed' = (clock - last_heartbeat > HeartbeatTimeout)
                 /\ UNCHANGED <<clock, leader_id, last_heartbeat, calling, stamp, heard, overlapped>>

FailoverNext == \/ FailoverTick \/ CheckFailover
                \/ \E t \in Thread : ReadClock(t) \/ StoreHeartbeat(t) \/ \E n \in Node : SetLeader(t, n)

FailoverSpec == FailoverInit /\ [][FailoverNext]_failover_vars

-----------------------------------------------------------------------------
\* Failover is called for only when nothing was heard of the leader for longer
\* than the timeout, a call that says otherwise is still under way, or the last
\* two calls overlapped, so that the older of their times may be what is stored.
NoFalseAlarm == alarmed => \/ \E t \in Thread : calling[t] # "idle"
                           \/ overlapped
                           \/ clock - heard > HeartbeatTimeout

-----------------------------------------------------------------------------
(***************************************************************************)
(* ReadRouter (cendb-replication/src/tcp_transport.rs): reads go round the *)
(* replicas; the list can change between two reads, the cursor runs on.    *)
(***************************************************************************)
CONSTANTS MaxReplicas, MaxReads

VARIABLES replicas, cursor,   \* the list, and ReadRouter.next
          reads               \* reads given to each position since the list changed

router_vars == <<replicas, cursor, reads>>

\* Vec::retain: the elements that are not dropped, in the order they were in.
Retain(list, dropped) ==
    LET kept == {i \in DOMAIN list : list[i] \notin dropped}
        Place(i) == Cardinality({j \in kept : j <= i})
    IN  [k \in 1..Cardinality(kept) |-> list[CHOOSE i \in kept : Place(i) = k]]

Zeros(list) == [i \in DOMAIN list |-> 0]

RouterInit == replicas = SetToSeq(Node) /\ cursor = 0 /\ reads = Zeros(replicas)

AddReplica(n) == /\ Len(replicas) < MaxReplicas
                 /\ replicas' = Append(replicas, n) /\ reads' = Zeros(replicas') /\ UNCHANGED cursor

RemoveReplica(n) == /\ replicas' = Retain(replicas, {n}) /\ reads' = Zeros(replicas')
                    /\ UNCHANGED cursor

ChosenReplica == (cursor % Len(replicas)) + 1

NextReplica == /\ replicas # <<>> /\ cursor < MaxReads
               /\ reads' = [reads EXCEPT ![ChosenReplica] = @ + 1] /\ cursor' = cursor + 1
               /\ UNCHANGED replicas

RouterNext == NextReplica \/ \E n \in Node : AddReplica(n) \/ RemoveReplica(n)

RouterSpec == RouterInit /\ [][RouterNext]_router_vars

-----------------------------------------------------------------------------
\* However the list has changed before, reads are spread evenly over it: no
\* position is ever two reads ahead of another.
ReadsBalanced == \A i, j \in DOMAIN reads : reads[i] - reads[j] <= 1

-----------------------------------------------------------------------------
(***************************************************************************)
(* The simulated network of cendb-net (src/lib.rs): a mailbox per node, and*)
(* partitions that drop what is sent across them; and the wire frame of a  *)
(* message: its type's byte, sender, receiver, term and payload.           *)
(***************************************************************************)
CONSTANTS MaxPartitions

VARIABLES mailboxes, partitions, outgoing, received

net_vars == <<mailboxes, partitions, outgoing, received>>

MsgType == <<"VoteRequest", "VoteResponse", "AppendEntries", "AppendEntriesResponse",
             "Snapshot", "JoinCluster", "LeaveCluster">>

\* serialize_message: the header and the payload; the length is of the payload
Serialize(m) == [magic |-> "CNR1", type |-> CHOOSE b \in DOMAIN MsgType : MsgType[b] = m.msg_type,
                 payload_len |-> Len(m.payload), from |-> m.from, to |-> m.to, term |-> m.term,
                 rest |-> m.payload]

\* deserialize_message: {} for Nil.  Bytes beyond the payload are ignored.
Deserialize(f) == IF f.magic = "CNR1" /\ f.type \in DOMAIN MsgType /\ Len(f.rest) >= f.payload_len
                  THEN {[msg_type |-> MsgType[f.type], from |-> f.from, to |-> f.to, term |-> f.term,
                         payload |-> SubSeq(f.rest, 1, f.payload_len)]}
                  ELSE {}

NetInit == /\ mailboxes = [n \in Node |-> <<>>] /\ partitions = <<>> /\ outgoing = 0
           /\ received = [n \in Node |-> <<>>]

IsPartitioned(a, b) == Contains(partitions, <<a, b>>)

\* Messages are numbered by their term, in the order they are sent.
Message(a, b) == [msg_type |-> MsgType[(outgoing % Len(MsgType)) + 1], from |-> a, to |-> b,
                  term |-> outgoing + 1, payload |-> [i \in 1..(outgoing % 2) |-> outgoing]]

Send(a, b) ==
    /\ outgoing < MaxMessages /\ outgoing' = outgoing + 1
    /\ mailboxes' = IF IsPartitioned(a, b) THEN mailboxes
                    ELSE [mailboxes EXCEPT ![b] = Append(@, Message(a, b))]
    /\ UNCHANGED <<partitions, received>>

Recv(n) == /\ mailboxes[n] # <<>>
           /\ mailboxes' = [mailboxes EXCEPT ![n] = Tail(@)]
           /\ received' = [received EXCEPT ![n] = Append(@, Head(mailboxes[n]))]
           /\ UNCHANGED <<partitions, outgoing>>

AddPartition(a, b) == /\ Len(partitions) < MaxPartitions
                      /\ partitions' = partitions \o <<<<a, b>>, <<b, a>>>>
                      /\ UNCHANGED <<mailboxes, outgoing, received>>

\* Mutant: only the direction that is named is healed.
HealOneWay(a, b) == /\ partitions' = Retain(partitions, {<<a, b>>})
                    /\ UNCHANGED <<mailboxes, outgoing, received>>

HealPartition(a, b) == /\ partitions' = Retain(partitions, {<<a, b>>, <<b, a>>})
                       /\ UNCHANGED <<mailboxes, outgoing, received>>

NetNext == \/ \E a, b \in Node : Send(a, b) \/ AddPartition(a, b) \/ HealPartition(a, b)
           \/ \E n \in Node : Recv(n)

NetSpec == NetInit /\ [][NetNext]_net_vars

-----------------------------------------------------------------------------
\* What a node receives from another arrives in the order it was sent, and at
\* most once.
InOrder == \A n \in Node : \A i, j \in DOMAIN received[n] :
             /\ received[n][i].to = n
             /\ i < j => received[n][i].term < received[n][j].term

\* A message that goes through its wire frame comes out as it went in.
FramesExact == \A n \in Node : \A i \in DOMAIN received[n] :
                 Deserialize(Serialize(received[n][i])) = {received[n][i]}

\* A partition is cut in both directions, however often it was added, and one
\* call heals it: no half of it is left behind.
CutBothWays == \A a, b \in Node : IsPartitioned(a, b) = IsPartitioned(b, a)

NetworkSafe == InOrder /\ FramesExact /\ CutBothWays

-----------------------------------------------------------------------------
(***************************************************************************)
(* The batched I/O queue of cendb-net (src/io_uring.rs), which on every    *)
(* platform runs its operations one after the other when the batch is      *)
(* submitted.                                                              *)
(***************************************************************************)
CONSTANTS MaxOps

VARIABLES pending, results, submitted, completed,
          handed   \* the results handed out, in order

ring_vars == <<pending, results, submitted, completed, handed>>

RingInit == pending = <<>> /\ results = <<>> /\ submitted = 0 /\ completed = 0 /\ handed = <<>>

\* submit_read, submit_write and submit_fsync only queue the operation.
Submit == /\ submitted + Len(pending) < MaxOps
          /\ \E op \in {"Read", "Write", "Fsync"} :
                pending' = Append(pending, <<submitted + Len(pending) + 1, op>>)
          /\ UNCHANGED <<results, submitted, completed, handed>>

\* execute_sync: a write is reported as done, a read or fsync can fail
ExecuteSync(op) == {[op |-> op, error |-> e] : e \in IF op[2] = "Write" THEN {FALSE} ELSE BOOLEAN}

SubmitBatch == /\ pending # <<>>
               /\ \E rs \in [DOMAIN pending -> UNION {ExecuteSync(pending[i]) : i \in DOMAIN pending}] :
                    /\ \A i \in DOMAIN pending : rs[i] \in ExecuteSync(pending[i])
                    /\ results' = results \o rs
               /\ submitted' = submitted + Len(pending) /\ pending' = <<>>
               /\ UNCHANGED <<completed, handed>>

\* wait_for_completion never waits: it takes what is there and counts it.
WaitForCompletion == /\ completed' = completed + Len(results)
                     /\ handed' = handed \o results /\ results' = <<>>
                     /\ UNCHANGED <<pending, submitted>>

\* poll_completions takes the same results without counting them.
PollCompletions == /\ handed' = handed \o results /\ results' = <<>>
                   /\ UNCHANGED <<pending, submitted, completed>>

RingNext == Submit \/ SubmitBatch \/ WaitForCompletion \/ PollCompletions

RingSpec == RingInit /\ [][RingNext]_ring_vars

-----------------------------------------------------------------------------
\* Every submitted operation has exactly one result, handed out in submission
\* order; only polling leaves a result uncounted.
ResultsAccounted ==
    LET all == handed \o results
    IN  /\ Len(all) = submitted
        /\ \A i \in DOMAIN all : all[i].op[1] = i
        /\ completed <= Len(handed)

-----------------------------------------------------------------------------
(* The parts share no state. *)

TransportSpec == TcpSpec /\ FailoverSpec /\ RouterSpec /\ NetSpec /\ RingSpec

\* A message sent over TCP with Ok arrives once unless its connection broke, one
\* that failed never does; a failover is called for only after a silence; reads
\* are spread evenly; the simulated network keeps the order and the frames of
\* messages and heals both directions of a partition; every I/O operation has one
\* result.
TransportSafe == TcpSafe /\ NoFalseAlarm /\ ReadsBalanced /\ NetworkSafe /\ ResultsAccounted
=============================================================================
