--------------------------- MODULE TamperEvidence ---------------------------
(***************************************************************************)
(* Evidence of changed data (cendb-security): the hash chain of the audit  *)
(* log and the Merkle tree of a set of blocks.                             *)
(***************************************************************************)
EXTENDS Integers, Sequences, SequencesExt, FiniteSets

(***************************************************************************)
(* The audit log (cendb-security/src/audit.rs): entries chained by hashes, *)
(* each over the entry's fields and the hash of the entry before it.  The  *)
(* hash is taken to be free of collisions: it is its input.                *)
(***************************************************************************)
CONSTANTS What,              \* what append is told: who did what (user and operation),
                             \* the resource, the number of rows, the detail
          Time, MaxAppends   \* bounds: the clock's values, calls of append

\* The number of rows is written in a fixed number of bytes.
ASSUME WhatAssumption ==
    /\ \A w \in What : /\ DOMAIN w = {"who", "resource", "rows", "detail"}
                       /\ {w.resource, w.rows, w.detail} \subseteq Seq(Nat)
    /\ \A v, w \in What : Len(v.rows) = Len(w.rows)

VARIABLES entries, sink,     \* the log; the entries forwarded to the sink
          clock,
          appends,
          chain              \* what its last entry is chained to, the pruned entries included

audit_vars == <<entries, sink, clock, appends, chain>>

EmptyHash == <<>>            \* of the empty byte string

\* Resource, rows and detail are hashed one after the other without their
\* lengths.  What is of a fixed length, and the name of the operation, which is
\* no prefix of another one, can be told from what is beside it.
Run(w) == w.resource \o w.rows \o w.detail

ComputeHash(e) == <<e.sequence, e.timestamp, e.what.who, Run(e.what), e.prev_hash>>

AuditInit == entries = <<>> /\ sink = <<>> /\ clock \in Time /\ appends = 0 /\ chain = <<>>

\* Wall-clock time, which may be set back
ClockTick == clock' \in Time \ {clock} /\ UNCHANGED <<entries, sink, appends, chain>>

\* Forwarded before it is in the log, both under the lock of the entries
AppendEntry(what) ==
    LET draft == [sequence |-> Len(entries) + 1, timestamp |-> clock, what |-> what,
                  prev_hash |-> IF entries = <<>> THEN EmptyHash ELSE entries[Len(entries)].entry_hash,
                  entry_hash |-> EmptyHash]
        entry == [draft EXCEPT !.entry_hash = ComputeHash(draft)]
    IN  /\ appends < MaxAppends /\ appends' = appends + 1
        /\ sink' = Append(sink, entry) /\ entries' = Append(entries, entry)
        /\ chain' = Append(chain, entry)
        /\ UNCHANGED clock

\* Vec::retain: the elements that are not dropped, in the order they were in
Retain(list, dropped) ==
    LET kept == {i \in DOMAIN list : list[i] \notin dropped}
        Place(i) == Cardinality({j \in kept : j <= i})
    IN  [k \in 1..Cardinality(kept) |-> list[CHOOSE i \in kept : Place(i) = k]]

PruneOlderThan(ts) ==
    LET kept == Retain(entries, {e \in ToSet(entries) : e.timestamp < ts})
    IN  /\ kept # entries
        /\ entries' = kept
        /\ chain' = IF kept = <<>> THEN <<>>
                    ELSE SubSeq(chain, 1, CHOOSE m \in DOMAIN chain : chain[m] = kept[Len(kept)])
        /\ UNCHANGED <<sink, clock, appends>>

Clear == /\ entries # <<>> /\ entries' = <<>> /\ chain' = <<>> /\ UNCHANGED <<sink, clock, appends>>

\* A mutant: the link to the entry before is not compared.
VerifyHashesOnly(es) ==
    LET bad == {i \in DOMAIN es : es[i].entry_hash # ComputeHash(es[i])}
    IN  IF bad = {} THEN 0 ELSE CHOOSE i \in bad : \A j \in bad : i <= j

\* verify_chain: the position of the first bad entry, 0 if there is none
VerifyChain(es) ==
    LET prev(i) == IF i = 1 THEN EmptyHash ELSE es[i - 1].entry_hash
        bad     == {i \in DOMAIN es : es[i].prev_hash # prev(i) \/ es[i].entry_hash # ComputeHash(es[i])}
    IN  IF bad = {} THEN 0 ELSE CHOOSE i \in bad : \A j \in bad : i <= j

AuditNext == \/ ClockTick \/ Clear
             \/ \E what \in What : AppendEntry(what)
             \/ \E ts \in Time : PruneOlderThan(ts)

AuditSpec == AuditInit /\ [][AuditNext]_audit_vars

-----------------------------------------------------------------------------
\* An entry in the log follows one that was pruned
Gap == entries # chain

\* The chain verifies exactly as long as no entry in it follows a pruned one:
\* a prune that keeps later entries makes a sound log fail until they go too.
VerifiesUntilPruned == (VerifyChain(entries) = 0) <=> ~Gap

EditFound(es, i, what) ==
    LET edited == [es EXCEPT ![i].what = what]
        forged == [edited EXCEPT ![i].entry_hash = ComputeHash(edited[i])]
    IN  VerifyChain(edited) = i /\ (i < Len(es) => VerifyChain(forged) = i + 1)

LossFound(es, i) == /\ VerifyChain(RemoveAt(es, i)) = i
                    /\ VerifyChain([es EXCEPT ![i] = es[i + 1], ![i + 1] = es[i]]) = i

\* The same bytes are hashed for two different entries when what one has at
\* the end of the resource is at the start of the rows or the detail of the other.
SameRun(v, w) == v.who = w.who /\ Run(v) = Run(w)
OneField(v, w) == \E f \in DOMAIN v : v[f] # w[f] /\ \A g \in DOMAIN v \ {f} : v[g] = w[g]

\* A change to any one field of an entry is found at that entry, and at the next
\* one when its hash is made again.  So is a change to several fields, except
\* when the bytes only moved from one field to the next: that is never found.
EditTold(es, i, what) ==
    /\ OneField(es[i].what, what) \/ ~SameRun(es[i].what, what) => EditFound(es, i, what)
    /\ SameRun(es[i].what, what) => VerifyChain([es EXCEPT ![i].what = what]) = 0

\* What was edited is told as above; an entry taken out and two that changed
\* places are found, unless it is the last entry that is taken.
ChangesFound ==
    ~Gap => \A i \in DOMAIN entries :
              /\ \A what \in What \ {entries[i].what} : EditTold(entries, i, what)
              /\ i < Len(entries) => LossFound(entries, i)

\* The sink has every entry, in the order of the log; their numbers are those
\* of the log until something is taken from it.
Forwarded == /\ Len(sink) = appends
             /\ \A i \in DOMAIN entries : Contains(sink, entries[i])
             /\ Len(entries) = appends => entries = sink /\ \A i \in DOMAIN entries : entries[i].sequence = i

AuditSafe == VerifiesUntilPruned /\ ChangesFound /\ Forwarded

-----------------------------------------------------------------------------
(***************************************************************************)
(* The Merkle tree over blocks (cendb-security/src/merkle.rs).  Hashes are *)
(* free of collisions: a leaf's is <<content>>, a pair's <<left, right>>.  *)
(***************************************************************************)
CONSTANTS Content, MaxBlocks

VARIABLE blocks

HashPair(left, right) == <<left, right>>
Leaves(bs) == [i \in DOMAIN bs |-> <<bs[i]>>]

\* The level above: an odd node at the end is paired with itself
Parents(level) == [k \in 1..((Len(level) + 1) \div 2) |->
                     HashPair(level[2 * k - 1], level[IF 2 * k <= Len(level) THEN 2 * k ELSE 2 * k - 1])]

\* build: the levels from the leaves to the root
Build(bs) ==
    LET level[l \in 1..Len(bs)] == IF l = 1 THEN Leaves(bs) ELSE Parents(level[l - 1])
        height == CHOOSE h \in 1..Len(bs) : Len(level[h]) = 1 /\ \A l \in 1..(h - 1) : Len(level[l]) > 1
    IN  IF bs = <<>> THEN << <<>> >> ELSE [l \in 1..height |-> level[l]]

Root(levels) == levels[Len(levels)][1]
VerifyBlock(levels, i, content) == i \in DOMAIN levels[1] /\ <<content>> = levels[1][i]

\* proof: for each level below the root the sibling and whether it is on the
\* left.  Positions are counted from zero, as in the code.
Proof(levels, index) ==
    LET idx[l \in 1..Len(levels)] == IF l = 1 THEN index ELSE idx[l - 1] \div 2
        sibling(l) == IF idx[l] % 2 = 0 THEN idx[l] + 1 ELSE idx[l] - 1
    IN  [leaf_hash |-> levels[1][index + 1], root |-> Root(levels),
         path |-> [l \in 1..(Len(levels) - 1) |->
                     [hash |-> levels[l][(IF sibling(l) < Len(levels[l]) THEN sibling(l) ELSE idx[l]) + 1],
                      left |-> idx[l] % 2 = 1]]]

\* A mutant: the sibling is always put on the right.
VerifyRight(proof, content) ==
    LET current[l \in 0..Len(proof.path)] ==
          IF l = 0 THEN proof.leaf_hash ELSE HashPair(current[l - 1], proof.path[l].hash)
    IN  <<content>> = proof.leaf_hash /\ current[Len(proof.path)] = proof.root

Verify(proof, content) ==
    LET current[l \in 0..Len(proof.path)] ==
          IF l = 0 THEN proof.leaf_hash
          ELSE IF proof.path[l].left THEN HashPair(proof.path[l].hash, current[l - 1])
          ELSE HashPair(current[l - 1], proof.path[l].hash)
    IN  <<content>> = proof.leaf_hash /\ current[Len(proof.path)] = proof.root

MerkleInit == blocks = <<>>
MerkleNext == Len(blocks) < MaxBlocks /\ \E c \in Content : blocks' = Append(blocks, c)
MerkleSpec == MerkleInit /\ [][MerkleNext]_blocks

-----------------------------------------------------------------------------
\* A proof made for a block is good for its content and no other; the root
\* tells any change of a block, at every number of blocks, odd ones included.
MerkleSafe ==
    blocks # <<>> =>
      LET levels == Build(blocks) IN
      /\ \A i \in DOMAIN blocks : \A c \in Content :
           /\ Verify(Proof(levels, i - 1), c) <=> c = blocks[i]
           /\ VerifyBlock(levels, i, c) <=> c = blocks[i]
           /\ Root(Build([blocks EXCEPT ![i] = c])) = Root(levels) <=> c = blocks[i]
=============================================================================
