------------------------------ MODULE MCSecurity ------------------------------
(***************************************************************************)
(* The security components for TLC.  They share no state here (the         *)
(* authentication manager sees its store as a map), so a behaviour is one  *)
(* of a single part, which never changes, and the other parts stand still. *)
(***************************************************************************)
EXTENDS AuthManager, FileSessionStore, DataProtection

CONSTANTS t1, t2   \* threads

VARIABLE part

MCProviders == {[kind |-> "local", secret |-> <<"k">>, name |-> <<>>],
                [kind |-> "aws", secret |-> <<"k">>, name |-> <<>>],
                [kind |-> "vault", secret |-> <<"t">>, name |-> <<"u", "v">>],
                [kind |-> "vault", secret |-> <<"t", "u">>, name |-> <<"v">>],
                [kind |-> "vault", secret |-> <<"t">>, name |-> <<"v">>]}
\* Entries of which the second hashes the same bytes as the first, and the others
\* differ from it in one field.
Entry(w, r, n, d) == [who |-> w, resource |-> r, rows |-> n, detail |-> d]
MCWhat == {Entry(1, <<1>>, <<2>>, <<3>>), Entry(1, <<1, 2>>, <<3>>, <<>>), Entry(1, <<1>>, <<2>>, <<>>)}
MCDataKeys == <<<<"d", "1">>, <<"d", "2">>>>
MCTexts == {<<>>, <<"d", "3">>}
Plain(n) == <<[kind |-> "plain", n |-> n, key |-> <<>>, text |-> <<>>]>>
MCPatterns == {<<"a", "?", "*">>, <<"a", "*", "b">>}
MCResources == {<<>>, <<"a">>, <<"a", "b">>, <<"a", ".", "b">>, <<"a", ".", "c">>}
MCMaskValues == {<<>>, <<"p">>, <<"p", "q">>, <<"p", "q", "r">>, <<"p", "q", "r", "s">>}

MCKeys == {<<"k">>, <<"l">>}
MCValues == {<<>>, Plain(1), Plain(2) \o Plain(3)}

auth_vars == <<now, account_vars, lockout, issued, session_vars>>

SumInit == /\ part \in {"store", "auth", "audit", "merkle", "kms", "field", "access", "mask"}
           /\ Init /\ StoreInit /\ AuditInit /\ MerkleInit
           /\ KmsInit /\ FieldInit /\ RbacInit /\ MaskInit
           /\ part # "audit" => clock = 1
           /\ part # "kms" => kms.kind = "local"

SumNext == /\ part' = part
           /\ IF part = "auth" THEN TRUE ELSE UNCHANGED auth_vars
           /\ IF part = "store" THEN TRUE ELSE UNCHANGED store_vars
           /\ IF part = "audit" THEN TRUE ELSE UNCHANGED audit_vars
           /\ IF part = "merkle" THEN TRUE ELSE UNCHANGED blocks
           /\ IF part = "kms" THEN TRUE ELSE UNCHANGED kms_vars
           /\ IF part = "field" THEN TRUE ELSE UNCHANGED field_vars
           /\ IF part = "access" THEN TRUE ELSE UNCHANGED rbac_vars
           /\ IF part = "mask" THEN TRUE ELSE UNCHANGED mask_vars
           /\ \/ part = "auth"   /\ Next
              \/ part = "store"  /\ StoreNext
              \/ part = "audit"  /\ AuditNext
              \/ part = "merkle" /\ MerkleNext
              \/ part = "kms"    /\ KmsNext
              \/ part = "field"  /\ FieldNext
              \/ part = "access" /\ RbacNext
              \/ part = "mask"   /\ MaskNext

SumSpec == SumInit /\ [][SumNext]_<<part, auth_vars, store_vars, audit_vars, blocks, kms_vars, field_vars, rbac_vars, mask_vars>>

Symmetry == Permutations(Thread)

\* Encrypted pages, envelopes and fields give back what was written or fail,
\* and a Merkle proof is good for one block content only.
EncryptionSafe == MerkleSafe /\ EnvelopeSafe /\ FieldsSafe

\* Permissions are those of the roles held, and masked columns stay masked.
AccessSafe == ChecksExact /\ MaskingSafe
=============================================================================
