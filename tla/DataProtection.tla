--------------------------- MODULE DataProtection ---------------------------
(***************************************************************************)
(* What protects the data itself (cendb-security): encryption of pages, of *)
(* the envelope of their data key and of single fields; the roles that say *)
(* what a user may do, and the masks on the columns of what is read.       *)
(***************************************************************************)
EXTENDS TamperEvidence, TLC

(***************************************************************************)
(* Page encryption (cendb-security/src/tde.rs) over an ideal AEAD cipher:  *)
(* a sealed text is the nonce, one unit for each unit of text, and a tag   *)
(* that depends on the key, the nonce and the whole text.  Units are       *)
(* records, so that a blob can be cut, changed and spliced like bytes.     *)
(***************************************************************************)
Unit(kind, n, key, text) == [kind |-> kind, n |-> n, key |-> key, text |-> text]

Ok(text) == [ok |-> TRUE, text |-> text]
Err == [ok |-> FALSE, text |-> <<>>]

\* encrypt, with the nonce it draws
Seal(key, nonce, text) ==
    <<Unit("nonce", nonce, <<>>, <<>>)>>
      \o [i \in DOMAIN text |-> Unit("ct", nonce, key, <<text[i]>>)]
      \o <<Unit("tag", nonce, key, text)>>

\* A mutant: the tag is not verified.
OpenUnverified(key, bytes) == IF Len(bytes) < 2 THEN Err ELSE Ok(Last(bytes).text)

\* decrypt: too short for a nonce and a tag, or not authentic under the key
Open(key, bytes) ==
    IF Len(bytes) >= 2 /\ bytes = Seal(key, bytes[1].n, Last(bytes).text) THEN Ok(Last(bytes).text) ELSE Err

\* TdeCipher: text passes through a cipher that is disabled
TdeEncrypt(config, nonce, text) == IF config.enabled THEN Seal(config.key, nonce, text) ELSE text
TdeDecrypt(config, bytes) == IF config.enabled THEN Open(config.key, bytes) ELSE Ok(bytes)

FromRawKey(key) == [key |-> key, enabled |-> TRUE]
FromPassphrase(passphrase, salt) == FromRawKey(<<"argon2", passphrase, salt>>)

-----------------------------------------------------------------------------
(***************************************************************************)
(* Envelope encryption (cendb-security/src/kms.rs): each text is sealed    *)
(* under a data key of its own, which the provider wraps under a master    *)
(* key; the blob is the length of the wrapped key, the wrapped key and the *)
(* sealed text.  Between writing and reading, the provider's secret may be *)
(* replaced, and the blob cut, changed or given the key of another blob.   *)
(***************************************************************************)
CONSTANTS Providers,      \* configurations: kind, secret and name, as sequences
          Texts,
          DataKeys        \* sequence of data keys, no two equal; bounds the blobs

VARIABLES kms,            \* the provider in use
          blobs,          \* the envelopes written, as they are now
          written         \* what was encrypted, under which master key, and whether it was changed since

kms_vars == <<kms, blobs, written>>

\* The master key of a provider: LocalKms has it or derives it from a
\* passphrase, AWS hashes the secret, Vault token and key name one after
\* the other.
DeriveVaultMasterKey(token, name) == <<"vault">> \o token \o name
MasterKey(p) == CASE p.kind = "local" -> p.secret
                  [] p.kind = "aws"   -> <<"aws">> \o p.secret
                  [] p.kind = "vault" -> DeriveVaultMasterKey(p.secret, p.name)

KeyLen == 2

ASSUME KeyAssumption == /\ Texts \subseteq Seq(STRING) /\ DataKeys \in Seq(Seq(STRING))
                        /\ \A i \in DOMAIN DataKeys : /\ Len(DataKeys[i]) = KeyLen
                                                      /\ \A j \in DOMAIN DataKeys : DataKeys[i] = DataKeys[j] => i = j

EncryptDataKey(p, nonce, key) == TdeEncrypt(FromRawKey(MasterKey(p)), nonce, key)
DecryptDataKey(p, bytes) == LET pt == TdeDecrypt(FromRawKey(MasterKey(p)), bytes)
                            IN  IF pt.ok /\ Len(pt.text) = KeyLen THEN pt ELSE Err

EncryptEnvelope(p, key, nonce, text) ==
    LET wrapped == EncryptDataKey(p, nonce + 1, key)
    IN  <<Unit("len", Len(wrapped), <<>>, <<>>)>> \o wrapped \o TdeEncrypt(FromRawKey(key), nonce, text)

DecryptEnvelope(p, bytes) ==
    IF bytes = <<>> \/ Len(bytes) < 1 + bytes[1].n THEN Err
    ELSE LET key == DecryptDataKey(p, SubSeq(bytes, 2, 1 + bytes[1].n))
         IN  IF key.ok THEN TdeDecrypt(FromRawKey(key.text), SubSeq(bytes, 2 + bytes[1].n, Len(bytes))) ELSE Err

KmsInit == kms \in Providers /\ blobs = <<>> /\ written = <<>>

Encrypt(text) ==
    LET i == Len(blobs) + 1 IN
    /\ i \in DOMAIN DataKeys
    /\ blobs' = Append(blobs, EncryptEnvelope(kms, DataKeys[i], 2 * i, text))
    /\ written' = Append(written, [text |-> text, master |-> MasterKey(kms), intact |-> TRUE])
    /\ UNCHANGED kms

\* The provider is built again from another configuration
Reconfigure(p) == kms' = p /\ UNCHANGED <<blobs, written>>

\* What can happen to a blob outside: cut, one unit changed, another's key
Changed(i, bytes) == /\ bytes # blobs[i] /\ written[i].intact
                     /\ blobs' = [blobs EXCEPT ![i] = bytes]
                     /\ written' = [written EXCEPT ![i].intact = FALSE]
                     /\ UNCHANGED kms
Truncate(i) == \E n \in 0..(Len(blobs[i]) - 1) : Changed(i, SubSeq(blobs[i], 1, n))
Flip(i) == \E u \in DOMAIN blobs[i] : Changed(i, [blobs[i] EXCEPT ![u].n = @ + 1])
Splice(i, j) == LET w == KeyLen + 3
                IN  written[j].intact /\ Changed(i, SubSeq(blobs[j], 1, w) \o SubSeq(blobs[i], w + 1, Len(blobs[i])))

KmsNext == \/ \E text \in Texts : Encrypt(text)
           \/ \E p \in Providers \ {kms} : Reconfigure(p)
           \/ \E i \in DOMAIN blobs : Truncate(i) \/ Flip(i) \/ \E j \in DOMAIN blobs : Splice(i, j)

KmsSpec == KmsInit /\ [][KmsNext]_kms_vars

-----------------------------------------------------------------------------
\* An envelope opens exactly when it is as written and the provider in use
\* has the master key it was written with; then it gives what was encrypted.
\* No cut, change or spliced key makes decrypt return another text.
EnvelopeSafe == \A i \in DOMAIN blobs :
                  DecryptEnvelope(kms, blobs[i]) = IF written[i].intact /\ MasterKey(kms) = written[i].master
                                                     THEN Ok(written[i].text) ELSE Err

-----------------------------------------------------------------------------
(***************************************************************************)
(* Field encryption (cendb-security/src/field_encryption.rs): columns with *)
(* a key are sealed under it, the others pass through.  Keys are set and   *)
(* replaced while rows written under earlier keys remain stored.           *)
(***************************************************************************)
CONSTANTS Columns, Keys, Values, MaxRows

\* A plain value is no sealed text: its units are of a kind of their own.
ASSUME ValueAssumption == Values \subseteq Seq([kind : {"plain"}, n : Nat, key : {<<>>}, text : {<<>>}])

VARIABLES column_keys, \* column -> key, for the columns that have one
          rows,       \* the rows stored, and for each the row and the keys it was written with
          plain

field_vars == <<column_keys, rows, plain>>

EncryptField(ks, col, nonce, text) == IF col \in DOMAIN ks THEN Seal(ks[col], nonce, text) ELSE text
DecryptField(ks, col, bytes) == IF col \in DOMAIN ks THEN Open(ks[col], bytes) ELSE Ok(bytes)

EncryptRow(ks, nonce, row) == [col \in DOMAIN row |-> EncryptField(ks, col, nonce, row[col])]

\* The first column that fails fails the row
DecryptRow(ks, row) ==
    LET fields == [col \in DOMAIN row |-> DecryptField(ks, col, row[col])]
    IN  IF \A col \in DOMAIN row : fields[col].ok THEN [ok |-> TRUE, row |-> [col \in DOMAIN row |-> fields[col].text]]
        ELSE [ok |-> FALSE, row |-> [col \in DOMAIN row |-> <<>>]]

FieldInit == column_keys = <<>> /\ rows = <<>> /\ plain = <<>>

SetColumnKey(col, key) == /\ column_keys' = [c \in DOMAIN column_keys \cup {col} |-> IF c = col THEN key ELSE column_keys[c]]
                          /\ UNCHANGED <<rows, plain>>

Write(row) == /\ Len(rows) < MaxRows
              /\ rows' = Append(rows, EncryptRow(column_keys, Len(rows) + 1, row))
              /\ plain' = Append(plain, [row |-> row, keys |-> column_keys])
              /\ UNCHANGED column_keys

FieldNext == \/ \E col \in Columns, key \in Keys : SetColumnKey(col, key)
             \/ \E cols \in SUBSET Columns \ {{}} : \E row \in [cols -> Values] : Write(row)

FieldSpec == FieldInit /\ [][FieldNext]_field_vars

-----------------------------------------------------------------------------
\* A row comes back exactly as written as long as the keys of its columns are
\* those it was written with; once a key was set or replaced, by an encryptor
\* that has it, the whole row is refused, and never read as another row.
FieldsSafe == \A i \in DOMAIN rows :
    LET row == plain[i].row
        same == \A col \in DOMAIN row : /\ col \in DOMAIN plain[i].keys <=> col \in DOMAIN column_keys
                                        /\ col \in DOMAIN column_keys => plain[i].keys[col] = column_keys[col]
    IN  DecryptRow(column_keys, rows[i]) = IF same THEN [ok |-> TRUE, row |-> row]
                                            ELSE [ok |-> FALSE, row |-> [col \in DOMAIN row |-> <<>>]]

-----------------------------------------------------------------------------
(***************************************************************************)
(* Roles and permissions (cendb-security/src/rbac.rs).  A pattern or a     *)
(* resource is a sequence of characters.                                   *)
(***************************************************************************)
CONSTANTS Users, Custom,     \* names of roles that can be created
          Patterns, Resources, Permissions

ASSUME GlobAssumption == Patterns \cup Resources \subseteq Seq(STRING)

VARIABLES roles,             \* role name -> set of <<pattern, permission>>
          userRoles,         \* user -> sequence of role names, for the users that ever had one
          assigned           \* the <<user, role>> pairs assigned and not revoked since

rbac_vars == <<roles, userRoles, assigned>>

\* A mutant: the star takes at least one character.
GlobMatchSome(p, t) ==
    LET g[pi \in 1..(Len(p) + 1)] ==
          [ti \in 1..(Len(t) + 1) |->
             IF pi > Len(p) THEN ti > Len(t)
             ELSE IF p[pi] = "*" THEN \E k \in (ti + 1)..(Len(t) + 1) : g[pi + 1][k]
             ELSE ti <= Len(t) /\ p[pi] \in {"?", t[ti]} /\ g[pi + 1][ti + 1]]
    IN  g[1][1]

GlobMatch(p, t) ==
    LET g[pi \in 1..(Len(p) + 1)] ==
          [ti \in 1..(Len(t) + 1) |->
             IF pi > Len(p) THEN ti > Len(t)
             ELSE IF p[pi] = "*" THEN \E k \in ti..(Len(t) + 1) : g[pi + 1][k]
             ELSE ti <= Len(t) /\ p[pi] \in {"?", t[ti]} /\ g[pi + 1][ti + 1]]
    IN  g[1][1]

DefaultRoles == [admin     |-> {<<<<"*">>, p>> : p \in Permissions},
                 read_only |-> {<<<<"*">>, "read">>},
                 analyst   |-> {<<<<"*">>, "read">>} \cup {<<<<"a", ".", "*">>, p>> : p \in {"write", "create"}}]

RbacInit == roles = DefaultRoles /\ userRoles = <<>> /\ assigned = {}

CreateRole(name, grants) ==
    /\ name \notin DOMAIN roles
    /\ roles' = [r \in DOMAIN roles \cup {name} |-> IF r = name THEN grants ELSE roles[r]]
    /\ UNCHANGED <<userRoles, assigned>>

AssignRole(u, name) ==
    LET had == IF u \in DOMAIN userRoles THEN userRoles[u] ELSE <<>>
        has == IF Contains(had, name) THEN had ELSE Append(had, name)
    IN  /\ name \in DOMAIN roles
        /\ userRoles' = [v \in DOMAIN userRoles \cup {u} |-> IF v = u THEN has ELSE userRoles[v]]
        /\ assigned' = assigned \cup {<<u, name>>}
        /\ UNCHANGED roles

RevokeRole(u, name) ==
    /\ u \in DOMAIN userRoles
    /\ userRoles' = [userRoles EXCEPT ![u] = Retain(@, {name})]
    /\ assigned' = assigned \ {<<u, name>>}
    /\ UNCHANGED roles

Check(u, resource, permission) ==
    u \in DOMAIN userRoles /\ \E i \in DOMAIN userRoles[u] :
       LET name == userRoles[u][i]
       IN  name \in DOMAIN roles /\ \E g \in roles[name] : g[2] = permission /\ GlobMatch(g[1], resource)

RbacNext == \/ \E name \in Custom : \E pattern \in Patterns, p \in Permissions : CreateRole(name, {<<pattern, p>>})
            \/ \E u \in Users, name \in DOMAIN roles : AssignRole(u, name) \/ RevokeRole(u, name)

RbacSpec == RbacInit /\ [][RbacNext]_rbac_vars

-----------------------------------------------------------------------------
\* A pattern matches a text when the text can be cut into one piece for each
\* pattern character: any piece for a star, one character for the others.
Fits(p, t) == \E cut \in [1..(Len(p) + 1) -> 0..Len(t)] :
                /\ cut[1] = 0 /\ cut[Len(p) + 1] = Len(t)
                /\ \A i \in DOMAIN p : IF p[i] = "*" THEN cut[i] <= cut[i + 1]
                                       ELSE cut[i + 1] = cut[i] + 1 /\ p[i] \in {"?", t[cut[i + 1]]}

\* check allows exactly what some role assigned, and not revoked since, grants
\* on a pattern the resource fits: assigning twice and revoking once leaves
\* nothing of the role.
ChecksExact == \A u \in Users, r \in Resources, p \in Permissions :
    Check(u, r, p) <=> \E a \in assigned : a[1] = u /\ \E g \in roles[a[2]] : g[2] = p /\ Fits(g[1], r)

-----------------------------------------------------------------------------
(***************************************************************************)
(* Column masking (cendb-security/src/masking.rs).  Values are sequences   *)
(* of characters; the hash is one character that stands for the whole.     *)
(***************************************************************************)
CONSTANTS MaskColumns, MaskRoles, MaskValues, MaxWidth, MaxRules

VARIABLE rules
mask_vars == rules

Masks == [kind : {"full", "hash", "null"}, prefix : {0}, suffix : {0}]
           \cup [kind : {"partial"}, prefix : 0..MaxWidth, suffix : 0..MaxWidth]

Stars(n) == [i \in 1..n |-> "*"]
Hash(value) == <<"#", ToString(value)>>

\* The characters of a mask are told apart from those of the values.
ASSUME MaskAssumption == /\ MaxWidth \in Nat /\ MaskValues \subseteq Seq(STRING)
                         /\ \A v \in MaskValues : \A i \in 1..Len(v) : v[i] \notin {"*", "#", ToString(v)}

\* A mutant: the shown ends of a short value may overlap.
MaskOverlapping(m, v) ==
    CASE m.kind = "full"    -> Stars(IF v = <<>> THEN 1 ELSE Len(v))
      [] m.kind = "hash"    -> Hash(v)
      [] m.kind = "null"    -> <<>>
      [] m.kind = "partial" -> [i \in DOMAIN v |-> IF i <= m.prefix \/ i > Len(v) - m.suffix THEN v[i] ELSE "*"]

Mask(m, v) ==
    CASE m.kind = "full"    -> Stars(IF v = <<>> THEN 1 ELSE Len(v))
      [] m.kind = "hash"    -> Hash(v)
      [] m.kind = "null"    -> <<>>
      [] m.kind = "partial" -> IF Len(v) <= m.prefix + m.suffix THEN Stars(Len(v))
                               ELSE SubSeq(v, 1, m.prefix) \o Stars(Len(v) - m.prefix - m.suffix)
                                      \o SubSeq(v, Len(v) - m.suffix + 1, Len(v))

AppliesTo(rule, role) == rule.roles = {} \/ role \in rule.roles

\* mask_column: the first rule for the column and the role
MaskColumn(rs, column, value, role) ==
    LET hits == {i \in DOMAIN rs : rs[i].column = column /\ AppliesTo(rs[i], role)}
    IN  IF hits = {} THEN value ELSE Mask(rs[CHOOSE i \in hits : \A j \in hits : i <= j].mask, value)

MaskInit == rules = <<>>
AddRule(rule) == Len(rules) < MaxRules /\ rules' = Append(rules, rule)
MaskNext == \E c \in MaskColumns, m \in Masks, rs \in SUBSET MaskRoles : AddRule([column |-> c, mask |-> m, roles |-> rs])
MaskSpec == MaskInit /\ [][MaskNext]_mask_vars

-----------------------------------------------------------------------------
\* Positions at which the output shows the value's own character
Shown(v, out) == {i \in DOMAIN v \cap DOMAIN out : out[i] = v[i]}

\* A column some rule covers for a role shows at most the ends its first rule
\* allows and never the whole value; a rule added later changes nothing for a
\* role that is masked already and nothing for the roles it does not name.
MaskingSafe == \A c \in MaskColumns, v \in MaskValues, role \in MaskRoles :
    LET out  == MaskColumn(rules, c, v, role)
        hits == {i \in DOMAIN rules : rules[i].column = c /\ AppliesTo(rules[i], role)}
    IN  IF hits = {} THEN out = v
        ELSE LET first == rules[CHOOSE i \in hits : \A j \in hits : i <= j].mask IN
             /\ v # <<>> => Shown(v, out) # DOMAIN v
             /\ \A i \in Shown(v, out) : i <= first.prefix \/ i > Len(v) - first.suffix
             /\ \A n \in DOMAIN rules : n \in hits => out = MaskColumn(SubSeq(rules, 1, n), c, v, role)
=============================================================================
