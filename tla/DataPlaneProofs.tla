--------------------------- MODULE DataPlaneProofs ---------------------------
(***************************************************************************)
(* No row without its parent, answers that add up, no loss without a       *)
(* cause, a secret's deletion that reports what it deletes, and one answer *)
(* to a name: for any groups, names, zones, values and number of clients.  *)
(***************************************************************************)
EXTENDS DataPlane, SequenceTheorems, TLAPS

(***************************************************************************)
(* NoOrphans is not inductive: a cascade deletes the rows that have the    *)
(* keys of children, and these are all children only if every row of a     *)
(* child has such a key.                                                   *)
(***************************************************************************)
WellKeyed ==
  \A k \in DOMAIN rows :
    /\ k[1] = "entity" => \E a \in Name, t, e \in Leaf : k = Entity(a, t, e)
    /\ k[1] = "secret" => \E v \in Name, s \in Leaf : k = Secret(v, s)
    /\ k[1] = "record" => \E g \in Group, z \in Zone, r \in Relative : k = DnsRecord(g, z, r)

OrphansInv == NoOrphans /\ WellKeyed

\* A row that may be inserted: it has its parent, and a key of its kind.
HasParent(k) == k[1] \in Roots \/ \E p \in DOMAIN rows : IsParent(p, k)

GoodKey(k) ==
  /\ k[1] = "entity" => \E a \in Name, t, e \in Leaf : k = Entity(a, t, e)
  /\ k[1] = "secret" => \E v \in Name, s \in Leaf : k = Secret(v, s)
  /\ k[1] = "record" => \E g \in Group, z \in Zone, r \in Relative : k = DnsRecord(g, z, r)

ParentKinds ==
  {"container", "table", "store", "cosmos", "database", "collection", "vault", "zone"}

-----------------------------------------------------------------------------
(***************************************************************************)
(* Keys.                                                                   *)
(***************************************************************************)
LEMMA ParentsAreParents ==
  ASSUME NEW k, NEW p, IsParent(p, k)
  PROVE  p[1] \in ParentKinds
BY DEF IsParent, ParentKinds, BlobContainer, Table, ConfigStore, CosmosAccount,
       CosmosDatabase, CosmosContainer, Vault, DnsZone

LEMMA EntityParents ==
  ASSUME NEW k, NEW a, NEW t, IsParent(Table(a, t), k)
  PROVE  k[1] = "entity" /\ k[2] = a /\ k[3] = t
BY DEF IsParent, BlobContainer, Table, ConfigStore, CosmosAccount,
       CosmosDatabase, CosmosContainer, Vault, DnsZone

LEMMA SecretParents ==
  ASSUME NEW k, NEW g, NEW v, IsParent(Vault(g, v), k)
  PROVE  k[1] = "secret" /\ k[2] = v
BY DEF IsParent, BlobContainer, Table, ConfigStore, CosmosAccount,
       CosmosDatabase, CosmosContainer, Vault, DnsZone

LEMMA RecordParents ==
  ASSUME NEW k, NEW g, NEW z, IsParent(DnsZone(g, z), k)
  PROVE  k[1] = "record" /\ k[2] = g /\ k[3] = z
BY DEF IsParent, BlobContainer, Table, ConfigStore, CosmosAccount,
       CosmosDatabase, CosmosContainer, Vault, DnsZone

-----------------------------------------------------------------------------
(***************************************************************************)
(* Statements.                                                             *)
(***************************************************************************)
LEMMA UpsertKeepsOrphansInv ==
  ASSUME OrphansInv, NEW k, NEW v, HasParent(k), GoodKey(k), Upsert(k, v)
  PROVE  OrphansInv'
<1>1. DOMAIN rows' = DOMAIN rows \cup {k} /\ cut' = cut \ {k}
  BY DEF Upsert
<1>2. NoOrphans'
  BY <1>1 DEF OrphansInv, NoOrphans, HasParent, Exists
<1>3. WellKeyed'
  BY <1>1 DEF OrphansInv, WellKeyed, GoodKey
<1> QED
  BY <1>2, <1>3 DEF OrphansInv

\* Rows that are nobody's parent may go.
LEMMA RemoveKeepsOrphansInv ==
  ASSUME OrphansInv, NEW K, Remove(K),
         \A j \in DOMAIN rows \ K, p \in K : ~IsParent(p, j)
  PROVE  OrphansInv'
<1>1. DOMAIN rows' = DOMAIN rows \ K /\ cut' = cut \ K
  BY DEF Remove
<1>2. NoOrphans'
  BY <1>1 DEF OrphansInv, NoOrphans, Exists
<1>3. WellKeyed'
  BY <1>1 DEF OrphansInv, WellKeyed
<1> QED
  BY <1>2, <1>3 DEF OrphansInv

LEMMA RemoveLeafKeepsOrphansInv ==
  ASSUME OrphansInv, NEW k, k[1] \notin ParentKinds, Remove({k})
  PROVE  OrphansInv'
BY ParentsAreParents, RemoveKeepsOrphansInv

LEMMA CascadeKeepsOrphansInv ==
  ASSUME OrphansInv, NEW p, NEW K, DeleteCascading(p, K),
         \A j \in DOMAIN rows \ K : ~IsParent(p, j),
         \A k \in K : k[1] \notin ParentKinds
  PROVE  OrphansInv'
<1>1. CASE Remove({p} \cup K)
  BY <1>1, ParentsAreParents, RemoveKeepsOrphansInv
<1>2. CASE RemoveAlone(p, K)
  <2>1. DOMAIN rows' = DOMAIN rows \ {p} /\ cut' = cut \cup K
    BY <1>2 DEF RemoveAlone
  <2>2. NoOrphans'
    BY <2>1 DEF OrphansInv, NoOrphans, Exists
  <2>3. WellKeyed'
    BY <2>1 DEF OrphansInv, WellKeyed
  <2> QED
    BY <2>2, <2>3 DEF OrphansInv
<1> QED
  BY <1>1, <1>2 DEF DeleteCascading
-----------------------------------------------------------------------------
(***************************************************************************)
(* No orphans: one lemma per plane.                                        *)
(***************************************************************************)
LEMMA OrphansInvInitially == Init => OrphansInv
BY DEF Init, Empty, OrphansInv, NoOrphans, WellKeyed

LEMMA BlobsKeepOrphansInv ==
  ASSUME OrphansInv, BlobsNext
  PROVE  OrphansInv'
<1>1. ASSUME NEW a \in Name, NEW n \in Leaf, createContainer(a, n)
      PROVE  OrphansInv'
  <2>1. HasParent(BlobContainer(a, n)) /\ GoodKey(BlobContainer(a, n))
    BY DEF HasParent, GoodKey, BlobContainer, Roots
  <2> QED
    BY <1>1, <2>1, UpsertKeepsOrphansInv DEF createContainer, CreateBlobContainer
<1>2. ASSUME NEW a \in Name, NEW n \in Leaf, NEW b \in Leaf, deleteBlob(a, n, b)
      PROVE  OrphansInv'
  <2>1. Blob(a, n, b)[1] \notin ParentKinds
    BY DEF Blob, ParentKinds
  <2> QED
    BY <1>2, <2>1, RemoveLeafKeepsOrphansInv DEF deleteBlob, DeleteBlob
<1>3. ASSUME NEW a \in Name, NEW n \in Leaf, NEW b \in Leaf, NEW v \in Value,
             putBlob(a, n, b, v)
      PROVE  OrphansInv'
  <2>1. IsParent(BlobContainer(a, n), Blob(a, n, b))
    BY DEF IsParent, Blob, BlobContainer
  <2>2. HasParent(Blob(a, n, b))
    BY <1>3, <2>1 DEF HasParent, putBlob, PutBlob, Exists
  <2>3. GoodKey(Blob(a, n, b))
    BY DEF GoodKey, Blob
  <2> QED
    BY <1>3, <2>2, <2>3, UpsertKeepsOrphansInv DEF putBlob, PutBlob
<1> QED
  BY <1>1, <1>2, <1>3 DEF BlobsNext

LEMMA TablesKeepOrphansInv ==
  ASSUME OrphansInv, TablesNext
  PROVE  OrphansInv'
<1>1. ASSUME NEW g \in Group, NEW a \in Name, UpsertStorageAccount(g, a)
      PROVE  OrphansInv'
  <2>1. HasParent(Account(g, a)) /\ GoodKey(Account(g, a))
    BY DEF HasParent, GoodKey, Account, Roots
  <2> QED
    BY <1>1, <2>1, UpsertKeepsOrphansInv DEF UpsertStorageAccount
<1>2. ASSUME NEW g \in Group, NEW a \in Name, DeleteStorageAccount(g, a)
      PROVE  OrphansInv'
  <2>1. Account(g, a)[1] \notin ParentKinds
    BY DEF Account, ParentKinds
  <2> QED
    BY <1>2, <2>1, RemoveLeafKeepsOrphansInv DEF DeleteStorageAccount
<1>3. ASSUME NEW a \in Name, NEW t \in Leaf, createTable(a, t)
      PROVE  OrphansInv'
  <2>1. HasParent(Table(a, t)) /\ GoodKey(Table(a, t))
    BY DEF HasParent, GoodKey, Table, Roots
  <2> QED
    BY <1>3, <2>1, UpsertKeepsOrphansInv DEF createTable, CreateTable
<1>4. ASSUME NEW a \in Name, NEW t \in Leaf, deleteTable(a, t)
      PROVE  OrphansInv'
  <2>1. ASSUME NEW j \in DOMAIN rows \ EntitiesOf(a, t)
        PROVE  ~IsParent(Table(a, t), j)
    <3> SUFFICES ASSUME IsParent(Table(a, t), j)
                 PROVE  FALSE
      OBVIOUS
    <3>1. j[1] = "entity" /\ j[2] = a /\ j[3] = t
      BY EntityParents
    <3>2. PICK b \in Name, u \in Leaf, e \in Leaf : j = Entity(b, u, e)
      BY <3>1 DEF OrphansInv, WellKeyed
    <3>3. j = Entity(a, t, e)
      BY <3>1, <3>2 DEF Entity
    <3> QED
      BY <3>3 DEF EntitiesOf
  <2>2. \A k \in EntitiesOf(a, t) : k[1] \notin ParentKinds
    BY DEF EntitiesOf, Entity, ParentKinds
  <2> QED
    BY <1>4, <2>1, <2>2, CascadeKeepsOrphansInv DEF deleteTable, DeleteTable
<1>5. ASSUME NEW a \in Name, NEW t \in Leaf, NEW e \in Leaf, deleteEntity(a, t, e)
      PROVE  OrphansInv'
  <2>1. Entity(a, t, e)[1] \notin ParentKinds
    BY DEF Entity, ParentKinds
  <2> QED
    BY <1>5, <2>1, RemoveLeafKeepsOrphansInv DEF deleteEntity, DeleteTableEntity
<1>6. ASSUME NEW a \in Name, NEW t \in Leaf, NEW e \in Leaf, NEW v \in Value,
             upsertEntity(a, t, e, v)
      PROVE  OrphansInv'
  <2>1. IsParent(Table(a, t), Entity(a, t, e))
    BY DEF IsParent, Entity, Table
  <2>2. HasParent(Entity(a, t, e))
    BY <1>6, <2>1 DEF HasParent, upsertEntity, UpsertTableEntity, Exists
  <2>3. GoodKey(Entity(a, t, e))
    BY DEF GoodKey, Entity
  <2> QED
    BY <1>6, <2>2, <2>3, UpsertKeepsOrphansInv DEF upsertEntity, UpsertTableEntity
<1> QED
  BY <1>1, <1>2, <1>3, <1>4, <1>5, <1>6 DEF TablesNext

LEMMA ConfigKeepsOrphansInv ==
  ASSUME OrphansInv, ConfigNext
  PROVE  OrphansInv'
<1>1. ASSUME NEW s \in Name, createStore(s)
      PROVE  OrphansInv'
  <2>1. HasParent(ConfigStore(s)) /\ GoodKey(ConfigStore(s))
    BY DEF HasParent, GoodKey, ConfigStore, Roots
  <2> QED
    BY <1>1, <2>1, UpsertKeepsOrphansInv DEF createStore, CreateAppConfigStore
<1>2. ASSUME NEW s \in Name, NEW k \in Leaf, NEW l \in Leaf, deleteValue(s, k, l)
      PROVE  OrphansInv'
  <2>1. ConfigValue(s, k, l)[1] \notin ParentKinds
    BY DEF ConfigValue, ParentKinds
  <2> QED
    BY <1>2, <2>1, RemoveLeafKeepsOrphansInv DEF deleteValue, DeleteAppConfigValue
<1>3. ASSUME NEW s \in Name, NEW k \in Leaf, NEW l \in Leaf, NEW v \in Value,
             putValue(s, k, l, v)
      PROVE  OrphansInv'
  <2>1. IsParent(ConfigStore(s), ConfigValue(s, k, l))
    BY DEF IsParent, ConfigStore, ConfigValue
  <2>2. HasParent(ConfigValue(s, k, l))
    BY <1>3, <2>1 DEF HasParent, putValue, PutAppConfigValue, Exists
  <2>3. GoodKey(ConfigValue(s, k, l))
    BY DEF GoodKey, ConfigValue
  <2> QED
    BY <1>3, <2>2, <2>3, UpsertKeepsOrphansInv DEF putValue, PutAppConfigValue
<1> QED
  BY <1>1, <1>2, <1>3 DEF ConfigNext

LEMMA CosmosKeepsOrphansInv ==
  ASSUME OrphansInv, CosmosNext
  PROVE  OrphansInv'
<1>1. ASSUME NEW a \in Name, createAccount(a)
      PROVE  OrphansInv'
  <2>1. HasParent(CosmosAccount(a)) /\ GoodKey(CosmosAccount(a))
    BY DEF HasParent, GoodKey, CosmosAccount, Roots
  <2> QED
    BY <1>1, <2>1, UpsertKeepsOrphansInv DEF createAccount, CreateCosmosAccount
<1>2. ASSUME NEW a \in Name, NEW d \in Leaf, createDatabase(a, d)
      PROVE  OrphansInv'
  <2>1. IsParent(CosmosAccount(a), CosmosDatabase(a, d))
    BY DEF IsParent, CosmosAccount, CosmosDatabase
  <2>2. HasParent(CosmosDatabase(a, d))
    BY <1>2, <2>1 DEF HasParent, createDatabase, CreateCosmosDatabase, Exists
  <2>3. GoodKey(CosmosDatabase(a, d))
    BY DEF GoodKey, CosmosDatabase
  <2> QED
    BY <1>2, <2>2, <2>3, UpsertKeepsOrphansInv DEF createDatabase, CreateCosmosDatabase
<1>3. ASSUME NEW a \in Name, NEW d \in Leaf, NEW n \in Leaf, createCosmosContainer(a, d, n)
      PROVE  OrphansInv'
  <2>1. IsParent(CosmosDatabase(a, d), CosmosContainer(a, d, n))
    BY DEF IsParent, CosmosDatabase, CosmosContainer
  <2>2. HasParent(CosmosContainer(a, d, n))
    BY <1>3, <2>1 DEF HasParent, createCosmosContainer, CreateCosmosContainer, Exists
  <2>3. GoodKey(CosmosContainer(a, d, n))
    BY DEF GoodKey, CosmosContainer
  <2> QED
    BY <1>3, <2>2, <2>3, UpsertKeepsOrphansInv DEF createCosmosContainer, CreateCosmosContainer
<1>4. ASSUME NEW a \in Name, NEW d \in Leaf, NEW n \in Leaf, NEW i \in Leaf,
             deleteDocument(a, d, n, i)
      PROVE  OrphansInv'
  <2>1. CosmosDocument(a, d, n, i)[1] \notin ParentKinds
    BY DEF CosmosDocument, ParentKinds
  <2> QED
    BY <1>4, <2>1, RemoveLeafKeepsOrphansInv DEF deleteDocument, DeleteCosmosDocument
<1>5. ASSUME NEW a \in Name, NEW d \in Leaf, NEW n \in Leaf, NEW i \in Leaf, NEW v \in Value,
             upsertDocument(a, d, n, i, v)
      PROVE  OrphansInv'
  <2>1. IsParent(CosmosContainer(a, d, n), CosmosDocument(a, d, n, i))
    BY DEF IsParent, CosmosContainer, CosmosDocument
  <2>2. HasParent(CosmosDocument(a, d, n, i))
    BY <1>5, <2>1 DEF HasParent, upsertDocument, UpsertCosmosDocument, Exists
  <2>3. GoodKey(CosmosDocument(a, d, n, i))
    BY DEF GoodKey, CosmosDocument
  <2> QED
    BY <1>5, <2>2, <2>3, UpsertKeepsOrphansInv DEF upsertDocument, UpsertCosmosDocument
<1> QED
  BY <1>1, <1>2, <1>3, <1>4, <1>5 DEF CosmosNext

LEMMA VaultsKeepOrphansInv ==
  ASSUME OrphansInv, VaultsNext
  PROVE  OrphansInv'
<1>1. ASSUME NEW g \in Group, NEW v \in Name, UpsertKeyVault(g, v)
      PROVE  OrphansInv'
  <2>1. HasParent(Vault(g, v)) /\ GoodKey(Vault(g, v))
    BY DEF HasParent, GoodKey, Vault, Roots
  <2> QED
    BY <1>1, <2>1, UpsertKeepsOrphansInv DEF UpsertKeyVault
<1>2. ASSUME NEW g \in Group, NEW v \in Name, DeleteKeyVault(g, v)
      PROVE  OrphansInv'
  <2>1. ASSUME NEW j \in DOMAIN rows \ SecretsOf(v)
        PROVE  ~IsParent(Vault(g, v), j)
    <3> SUFFICES ASSUME IsParent(Vault(g, v), j)
                 PROVE  FALSE
      OBVIOUS
    <3>1. j[1] = "secret" /\ j[2] = v
      BY SecretParents
    <3>2. PICK w \in Name, s \in Leaf : j = Secret(w, s)
      BY <3>1 DEF OrphansInv, WellKeyed
    <3>3. j = Secret(v, s)
      BY <3>1, <3>2 DEF Secret
    <3> QED
      BY <3>3 DEF SecretsOf
  <2>2. \A k \in SecretsOf(v) : k[1] \notin ParentKinds
    BY DEF SecretsOf, Secret, ParentKinds
  <2> QED
    BY <1>2, <2>1, <2>2, CascadeKeepsOrphansInv DEF DeleteKeyVault
<1>3. ASSUME NEW v \in Name, NEW s \in Leaf, NEW x \in Value, putSecret(v, s, x)
      PROVE  OrphansInv'
  <2>1. PICK g \in Group : Exists(Vault(g, v))
    BY <1>3 DEF putSecret, PutKeyVaultSecret
  <2>2. IsParent(Vault(g, v), Secret(v, s))
    BY DEF IsParent, Vault, Secret
  <2>3. HasParent(Secret(v, s))
    BY <2>1, <2>2 DEF HasParent, Exists
  <2>4. GoodKey(Secret(v, s))
    BY DEF GoodKey, Secret
  <2> QED
    BY <1>3, <2>3, <2>4, UpsertKeepsOrphansInv DEF putSecret, PutKeyVaultSecret
<1>4. ASSUME rows' = rows, cut' = cut
      PROVE  OrphansInv'
  BY <1>4 DEF OrphansInv, NoOrphans, WellKeyed
<1>5. ASSUME NEW c \in Client, NEW v \in Name, NEW s \in Leaf, deleteSecretReads(c, v, s)
      PROVE  OrphansInv'
  BY <1>4, <1>5 DEF deleteSecretReads
<1>6. ASSUME NEW c \in Client, deleteSecret(c)
      PROVE  OrphansInv'
  <2>1. CASE DeleteKeyVaultSecret(request[c].vault, request[c].secret)
    <3> DEFINE k == Secret(request[c].vault, request[c].secret)
    <3>1. k[1] \notin ParentKinds
      BY DEF Secret, ParentKinds
    <3>2. Remove({k})
      BY <2>1 DEF DeleteKeyVaultSecret
    <3> QED
      BY <3>1, <3>2, RemoveLeafKeepsOrphansInv
  <2> QED
    BY <1>4, <1>6, <2>1 DEF deleteSecret
<1>7. CASE Kill
  BY <1>4, <1>7 DEF Kill
<1> QED
  BY <1>1, <1>2, <1>3, <1>5, <1>6, <1>7 DEF VaultsNext

LEMMA DnsKeepsOrphansInv ==
  ASSUME OrphansInv, DnsNext
  PROVE  OrphansInv'
<1>1. ASSUME NEW g \in Group, NEW z \in Zone, UpsertPrivateDNSZone(g, z)
      PROVE  OrphansInv'
  <2>1. HasParent(DnsZone(g, z)) /\ GoodKey(DnsZone(g, z))
    BY DEF HasParent, GoodKey, DnsZone, Roots
  <2> QED
    BY <1>1, <2>1, UpsertKeepsOrphansInv DEF UpsertPrivateDNSZone
<1>2. ASSUME NEW g \in Group, NEW z \in Zone, DeletePrivateDNSZone(g, z)
      PROVE  OrphansInv'
  <2>1. ASSUME NEW j \in DOMAIN rows \ RecordsOf(g, z)
        PROVE  ~IsParent(DnsZone(g, z), j)
    <3> SUFFICES ASSUME IsParent(DnsZone(g, z), j)
                 PROVE  FALSE
      OBVIOUS
    <3>1. j[1] = "record" /\ j[2] = g /\ j[3] = z
      BY RecordParents
    <3>2. PICK h \in Group, y \in Zone, r \in Relative : j = DnsRecord(h, y, r)
      BY <3>1 DEF OrphansInv, WellKeyed
    <3>3. j = DnsRecord(g, z, r)
      BY <3>1, <3>2 DEF DnsRecord
    <3> QED
      BY <3>3 DEF RecordsOf
  <2>2. \A k \in RecordsOf(g, z) : k[1] \notin ParentKinds
    BY DEF RecordsOf, DnsRecord, ParentKinds
  <2> QED
    BY <1>2, <2>1, <2>2, CascadeKeepsOrphansInv DEF DeletePrivateDNSZone
<1>3. ASSUME NEW g \in Group, NEW z \in Zone, NEW r \in Relative,
             DeletePrivateDNSARecordSet(g, z, r)
      PROVE  OrphansInv'
  <2>1. DnsRecord(g, z, r)[1] \notin ParentKinds
    BY DEF DnsRecord, ParentKinds
  <2> QED
    BY <1>3, <2>1, RemoveLeafKeepsOrphansInv DEF DeletePrivateDNSARecordSet
<1>4. ASSUME NEW g \in Group, NEW z \in Zone, NEW r \in Relative, NEW x \in Address,
             UpsertPrivateDNSARecordSet(g, z, r, x)
      PROVE  OrphansInv'
  <2>1. IsParent(DnsZone(g, z), DnsRecord(g, z, r))
    BY DEF IsParent, DnsZone, DnsRecord
  <2>2. HasParent(DnsRecord(g, z, r))
    BY <1>4, <2>1 DEF HasParent, UpsertPrivateDNSARecordSet, Exists
  <2>3. GoodKey(DnsRecord(g, z, r))
    BY DEF GoodKey, DnsRecord
  <2> QED
    BY <1>4, <2>2, <2>3, UpsertKeepsOrphansInv DEF UpsertPrivateDNSARecordSet
<1> QED
  BY <1>1, <1>2, <1>3, <1>4 DEF DnsNext

LEMMA OrphansInvPreserved == OrphansInv /\ [Next]_vars => OrphansInv'
<1> SUFFICES ASSUME OrphansInv, [Next]_vars
             PROVE  OrphansInv'
  OBVIOUS
<1>1. CASE Next
  BY <1>1, BlobsKeepOrphansInv, TablesKeepOrphansInv, ConfigKeepsOrphansInv,
     CosmosKeepsOrphansInv, VaultsKeepOrphansInv, DnsKeepsOrphansInv DEF Next
<1>2. CASE UNCHANGED vars
  BY <1>2 DEF vars, OrphansInv, NoOrphans, WellKeyed
<1> QED
  BY <1>1, <1>2

(***************************************************************************)
(* In every plane, whatever clients ask for at once, a row has its parent  *)
(* unless a deletion that was cut short has left it behind: checking the   *)
(* parent in the call that writes, and deleting children in the call that  *)
(* deletes the parent, is enough.                                          *)
(***************************************************************************)
THEOREM RowsHaveParents == Spec => []NoOrphans
<1>1. OrphansInv => NoOrphans
  BY DEF OrphansInv
<1> QED
  BY <1>1, OrphansInvInitially, OrphansInvPreserved, PTL DEF Spec

-----------------------------------------------------------------------------
(***************************************************************************)
(* Resolution.                                                             *)
(***************************************************************************)
\* The zone's length tells where a full name is split.
LEMMA SplitByLength ==
  ASSUME NEW S, NEW q \in Seq(S), NEW r \in Seq(S), NEW y \in Seq(S), NEW z \in Seq(S),
         q \o y = r \o z, Len(y) = Len(z)
  PROVE  q = r /\ y = z
<1>1. /\ Len(q \o y) = Len(q) + Len(y) /\ Len(r \o z) = Len(r) + Len(z)
      /\ Len(q) \in Nat /\ Len(r) \in Nat /\ Len(y) \in Nat
  BY ConcatProperties
<1>2. Len(q) = Len(r)
  BY <1>1
<1>3. ASSUME NEW i \in 1 .. Len(q) PROVE q[i] = r[i]
  BY <1>1, <1>2, ConcatProperties
<1>4. ASSUME NEW i \in 1 .. Len(y) PROVE y[i] = z[i]
  <2>1. Len(q) + i \in 1 .. Len(q) + Len(y) /\ ~(Len(q) + i <= Len(q))
        /\ (Len(q) + i) - Len(q) = i
    BY <1>1
  <2>2. (q \o y)[Len(q) + i] = y[i]
    BY <2>1, ConcatProperties
  <2>3. (r \o z)[Len(q) + i] = z[i]
    BY <1>2, <2>1, ConcatProperties
  <2> QED
    BY <2>2, <2>3
<1> QED
  BY <1>2, <1>3, <1>4, SeqEqual

(***************************************************************************)
(* In each group a name has one answer at most, however the zones are      *)
(* nested in one another: of two records in zones of the same length, that *)
(* have the same full name, the zones and the names are the same.          *)
(***************************************************************************)
THEOREM NamesHaveOneAnswer == Spec => []OneAnswer
<1>1. OrphansInv => OneAnswer
  <2> SUFFICES ASSUME WellKeyed, NEW name,
                      NEW j \in ResolvePrivateDNSARecordSet(name),
                      NEW k \in ResolvePrivateDNSARecordSet(name),
                      j[2] = k[2]
               PROVE  j = k
    BY DEF OrphansInv, OneAnswer
  <2>1. /\ j \in Records /\ k \in Records
        /\ FullName(j) = FullName(k)
        /\ Len(j[3]) <= Len(k[3]) /\ Len(k[3]) <= Len(j[3])
    BY DEF ResolvePrivateDNSARecordSet
  <2>2. PICK g \in Group, z \in Zone, r \in Relative : j = DnsRecord(g, z, r)
    BY <2>1 DEF Records, WellKeyed
  <2>3. PICK h \in Group, y \in Zone, q \in Relative : k = DnsRecord(h, y, q)
    BY <2>1 DEF Records, WellKeyed
  <2>4. g = h /\ j[3] = z /\ j[4] = r /\ k[3] = y /\ k[4] = q
    BY <2>2, <2>3 DEF DnsRecord
  <2>5. {z, r, y, q} \subseteq Seq(STRING)
    BY NamesAssumption
  <2>6. r \o z = q \o y /\ Len(z) = Len(y)
    <3>1. r \o z = q \o y
      BY <2>1, <2>4, Zenon DEF FullName
    <3>2. Len(z) <= Len(y) /\ Len(y) <= Len(z)
      BY <2>1, <2>4, Zenon
    <3>3. Len(z) \in Nat /\ Len(y) \in Nat
      BY <2>5
    <3> QED
      BY <3>1, <3>2, <3>3
  <2>7. r = q /\ z = y
    <3>1. /\ r \in Seq(STRING) /\ q \in Seq(STRING)
          /\ z \in Seq(STRING) /\ y \in Seq(STRING)
      BY <2>5
    <3> QED
      BY <2>6, <3>1, SplitByLength, Zenon
  <2> QED
    BY <2>2, <2>3, <2>4, <2>7
<1> QED
  BY <1>1, OrphansInvInitially, OrphansInvPreserved, PTL DEF Spec

-----------------------------------------------------------------------------
(***************************************************************************)
(* Answers add up: AnswersAddUp is inductive as it stands.                 *)
(***************************************************************************)
LEMMA NewRowAddsUp ==
  ASSUME AnswersAddUp, NEW k, k \notin DOMAIN rows, NEW v, Upsert(k, v), Told({k}, 1)
  PROVE  AnswersAddUp'
<1>1. DOMAIN rows' = DOMAIN rows \cup {k}
  BY DEF Upsert
<1> DEFINE old(j) == IF j \in DOMAIN told THEN told[j] ELSE 0
           new(j) == IF j \in {k} THEN old(j) + 1 ELSE old(j)
<1>2. told' = [j \in {i \in DOMAIN told \cup {k} : new(i) # 0} |-> new(j)]
  BY DEF Told
<1>3. /\ DOMAIN told = DOMAIN rows
      /\ \A j \in DOMAIN rows : told[j] = 1
  BY DEF AnswersAddUp
<1>4. \A j \in DOMAIN told \cup {k} : new(j) = 1
  BY <1>3
<1>5. {j \in DOMAIN told \cup {k} : new(j) # 0} = DOMAIN rows'
  BY <1>1, <1>3, <1>4
<1>6. told' = [j \in DOMAIN rows' |-> 1]
  <2> HIDE DEF new
  <2> QED
    BY <1>1, <1>2, <1>3, <1>4, <1>5
<1> QED
  BY <1>6 DEF AnswersAddUp

LEMMA UpsertAddsUp ==
  ASSUME AnswersAddUp, NEW k, NEW v, Upsert(k, v), ToldUpsert(k)
  PROVE  AnswersAddUp'
<1>1. CASE k \in DOMAIN rows
  <2>1. DOMAIN rows' = DOMAIN rows
    BY <1>1 DEF Upsert
  <2> QED
    BY <1>1, <2>1 DEF ToldUpsert, Exists, AnswersAddUp
<1>2. CASE k \notin DOMAIN rows
  BY <1>2, NewRowAddsUp DEF ToldUpsert, Exists
<1> QED
  BY <1>1, <1>2

LEMMA DeletionAddsUp ==
  ASSUME AnswersAddUp, NEW K \in SUBSET DOMAIN rows,
         DOMAIN rows' = DOMAIN rows \ K, Told(K, -1)
  PROVE  AnswersAddUp'
<1> DEFINE old(j) == IF j \in DOMAIN told THEN told[j] ELSE 0
           new(j) == IF j \in K THEN old(j) + -1 ELSE old(j)
<1>1. told' = [j \in {i \in DOMAIN told \cup K : new(i) # 0} |-> new(j)]
  BY DEF Told
<1>2. /\ DOMAIN told = DOMAIN rows
      /\ \A j \in DOMAIN rows : told[j] = 1
  BY DEF AnswersAddUp
<1>3. \A j \in DOMAIN told \cup K : new(j) = IF j \in K THEN 0 ELSE 1
  BY <1>2
<1>4. {j \in DOMAIN told \cup K : new(j) # 0} = DOMAIN rows'
  <2> HIDE DEF new
  <2> QED
    BY <1>2, <1>3
<1>5. told' = [j \in DOMAIN rows' |-> 1]
  <2> HIDE DEF new
  <2> QED
    BY <1>1, <1>2, <1>3, <1>4
<1> QED
  BY <1>5 DEF AnswersAddUp

LEMMA RemoveAddsUp ==
  ASSUME AnswersAddUp, NEW k, Exists(k), Remove({k}), Told({k}, -1)
  PROVE  AnswersAddUp'
<1>1. {k} \in SUBSET DOMAIN rows /\ DOMAIN rows' = DOMAIN rows \ {k}
  BY DEF Exists, Remove
<1> QED
  BY <1>1, DeletionAddsUp

LEMMA CascadeAddsUp ==
  ASSUME AnswersAddUp, NEW p, NEW K \in SUBSET DOMAIN rows, DeleteCascading(p, K)
  PROVE  AnswersAddUp'
<1>1. {p} \cup K \in SUBSET DOMAIN rows /\ {p} \in SUBSET DOMAIN rows
  BY DEF DeleteCascading, Exists
<1>2. CASE Remove({p} \cup K) /\ Told({p} \cup K, -1)
  <2>1. DOMAIN rows' = DOMAIN rows \ ({p} \cup K)
    BY <1>2 DEF Remove
  <2> QED
    BY <1>1, <1>2, <2>1, DeletionAddsUp
<1>3. CASE RemoveAlone(p, K) /\ Told({p}, -1)
  <2>1. DOMAIN rows' = DOMAIN rows \ {p}
    BY <1>3 DEF RemoveAlone
  <2> QED
    BY <1>1, <1>3, <2>1, DeletionAddsUp
<1> QED
  BY <1>2, <1>3 DEF DeleteCascading

LEMMA AnswersAddUpInitially == Init => AnswersAddUp
BY DEF Init, Empty, AnswersAddUp

LEMMA AnswersAddUpPreserved == AnswersAddUp /\ [Next]_vars => AnswersAddUp'
<1> SUFFICES ASSUME AnswersAddUp, [Next]_vars
             PROVE  AnswersAddUp'
  OBVIOUS
<1>1. ASSUME rows' = rows, told' = told
      PROVE  AnswersAddUp'
  BY <1>1 DEF AnswersAddUp
<1>2. CASE BlobsNext
  BY <1>2, NewRowAddsUp, UpsertAddsUp, RemoveAddsUp
     DEF BlobsNext, createContainer, CreateBlobContainer, deleteBlob, DeleteBlob,
         putBlob, PutBlob, Exists
<1>3. CASE TablesNext
  <2>1. \A a, t : EntitiesOf(a, t) \in SUBSET DOMAIN rows
    BY DEF EntitiesOf
  <2> QED
    BY <1>3, <2>1, NewRowAddsUp, UpsertAddsUp, RemoveAddsUp, CascadeAddsUp
       DEF TablesNext, UpsertStorageAccount, DeleteStorageAccount, createTable, CreateTable,
           deleteTable, DeleteTable, upsertEntity, UpsertTableEntity,
           deleteEntity, DeleteTableEntity, Exists
<1>4. CASE ConfigNext
  BY <1>4, NewRowAddsUp, UpsertAddsUp, RemoveAddsUp
     DEF ConfigNext, createStore, CreateAppConfigStore, putValue, PutAppConfigValue,
         deleteValue, DeleteAppConfigValue, Exists
<1>5. CASE CosmosNext
  <2>1. ASSUME NEW a \in Name, createAccount(a)
        PROVE  AnswersAddUp'
    BY <2>1, NewRowAddsUp DEF createAccount, CreateCosmosAccount, Exists
  <2>2. ASSUME NEW a \in Name, NEW d \in Leaf, createDatabase(a, d)
        PROVE  AnswersAddUp'
    BY <2>2, NewRowAddsUp DEF createDatabase, CreateCosmosDatabase, Exists
  <2>3. ASSUME NEW a \in Name, NEW d \in Leaf, NEW n \in Leaf, createCosmosContainer(a, d, n)
        PROVE  AnswersAddUp'
    BY <2>3, NewRowAddsUp DEF createCosmosContainer, CreateCosmosContainer, Exists
  <2>4. ASSUME NEW a \in Name, NEW d \in Leaf, NEW n \in Leaf, NEW i \in Leaf,
               \/ deleteDocument(a, d, n, i)
               \/ \E v \in Value : upsertDocument(a, d, n, i, v)
        PROVE  AnswersAddUp'
    BY <2>4, UpsertAddsUp, RemoveAddsUp
       DEF deleteDocument, DeleteCosmosDocument, upsertDocument, UpsertCosmosDocument
  <2> QED
    BY <1>5, <2>1, <2>2, <2>3, <2>4 DEF CosmosNext
<1>6. CASE DnsNext
  <2>1. \A g, z : RecordsOf(g, z) \in SUBSET DOMAIN rows
    BY DEF RecordsOf
  <2> QED
    BY <1>6, <2>1, UpsertAddsUp, RemoveAddsUp, CascadeAddsUp
       DEF DnsNext, UpsertPrivateDNSZone, DeletePrivateDNSZone, UpsertPrivateDNSARecordSet,
           DeletePrivateDNSARecordSet
<1>7. CASE VaultsNext
  <2>1. ASSUME NEW g \in Group, NEW v \in Name, UpsertKeyVault(g, v) \/ DeleteKeyVault(g, v)
        PROVE  AnswersAddUp'
    <3>1. SecretsOf(v) \in SUBSET DOMAIN rows
      BY DEF SecretsOf
    <3> QED
      BY <2>1, <3>1, UpsertAddsUp, CascadeAddsUp DEF UpsertKeyVault, DeleteKeyVault
  <2>2. ASSUME NEW v \in Name, NEW s \in Leaf, NEW x \in Value, putSecret(v, s, x)
        PROVE  AnswersAddUp'
    BY <2>2, UpsertAddsUp DEF putSecret, PutKeyVaultSecret
  <2>3. ASSUME NEW c \in Client, deleteSecret(c)
        PROVE  AnswersAddUp'
    BY <1>1, <2>3, RemoveAddsUp DEF deleteSecret, DeleteKeyVaultSecret
  <2>4. ASSUME NEW c \in Client, NEW v \in Name, NEW s \in Leaf, deleteSecretReads(c, v, s)
        PROVE  AnswersAddUp'
    BY <1>1, <2>4 DEF deleteSecretReads
  <2>5. CASE Kill
    BY <1>1, <2>5 DEF Kill
  <2> QED
    BY <1>7, <2>1, <2>2, <2>3, <2>4, <2>5 DEF VaultsNext
<1>8. CASE UNCHANGED vars
  BY <1>1, <1>8 DEF vars
<1> QED
  BY <1>2, <1>3, <1>4, <1>5, <1>6, <1>7, <1>8 DEF Next

(***************************************************************************)
(* Whatever the number of clients and wherever deletions are cut, what     *)
(* clients were told adds up to the rows there are: no two clients are     *)
(* told that they created the same table, or deleted the same secret.      *)
(***************************************************************************)
THEOREM AnswersAlwaysAddUp == Spec => []AnswersAddUp
BY AnswersAddUpInitially, AnswersAddUpPreserved, PTL DEF Spec

-----------------------------------------------------------------------------
(***************************************************************************)
(* No loss without a cause: a property of steps, with no invariant.        *)
(***************************************************************************)
LossCaused ==
  LET Lost == DOMAIN rows \ DOMAIN rows'
  IN  Lost # {} => \E p \in Lost : \A k \in Lost \ {p} : IsParent(p, k)

LEMMA UpsertLosesNothing ==
  ASSUME NEW k, NEW v, Upsert(k, v)
  PROVE  LossCaused
BY DEF Upsert, LossCaused

LEMMA RemoveLosesOne ==
  ASSUME NEW k, Remove({k})
  PROVE  LossCaused
BY DEF Remove, LossCaused

LEMMA CascadeLosesChildren ==
  ASSUME NEW p, NEW K, DeleteCascading(p, K), \A k \in K : IsParent(p, k)
  PROVE  LossCaused
<1>1. p \in DOMAIN rows
  BY DEF DeleteCascading, Exists
<1>2. CASE Remove({p} \cup K)
  BY <1>1, <1>2 DEF Remove, LossCaused
<1>3. CASE RemoveAlone(p, K)
  BY <1>1, <1>3 DEF RemoveAlone, LossCaused
<1> QED
  BY <1>2, <1>3 DEF DeleteCascading

LEMMA StepsLoseWithCause == [Next]_vars => LossCaused
<1> SUFFICES ASSUME [Next]_vars
             PROVE  LossCaused
  OBVIOUS
<1>1. ASSUME rows' = rows
      PROVE  LossCaused
  BY <1>1 DEF LossCaused
<1>2. CASE BlobsNext
  BY <1>2, UpsertLosesNothing, RemoveLosesOne
     DEF BlobsNext, createContainer, CreateBlobContainer, deleteBlob, DeleteBlob,
         putBlob, PutBlob
<1>3. CASE TablesNext
  <2>1. \A a, t : \A k \in EntitiesOf(a, t) : IsParent(Table(a, t), k)
    BY DEF EntitiesOf, Entity, Table, IsParent
  <2> QED
    BY <1>3, <2>1, UpsertLosesNothing, RemoveLosesOne, CascadeLosesChildren
       DEF TablesNext, UpsertStorageAccount, DeleteStorageAccount, createTable, CreateTable,
           deleteTable, DeleteTable, upsertEntity, UpsertTableEntity,
           deleteEntity, DeleteTableEntity
<1>4. CASE ConfigNext
  BY <1>4, UpsertLosesNothing, RemoveLosesOne
     DEF ConfigNext, createStore, CreateAppConfigStore, putValue, PutAppConfigValue,
         deleteValue, DeleteAppConfigValue
<1>5. CASE CosmosNext
  <2>1. ASSUME NEW a \in Name, NEW d \in Leaf, NEW n \in Leaf, createCosmosContainer(a, d, n)
        PROVE  LossCaused
    BY <2>1, UpsertLosesNothing DEF createCosmosContainer, CreateCosmosContainer
  <2>2. ASSUME NEW a \in Name, NEW d \in Leaf, NEW n \in Leaf, NEW i \in Leaf,
               \/ deleteDocument(a, d, n, i)
               \/ \E v \in Value : upsertDocument(a, d, n, i, v)
        PROVE  LossCaused
    BY <2>2, UpsertLosesNothing, RemoveLosesOne
       DEF deleteDocument, DeleteCosmosDocument, upsertDocument, UpsertCosmosDocument
  <2>3. ASSUME NEW a \in Name, createAccount(a)
        PROVE  LossCaused
    BY <2>3, UpsertLosesNothing DEF createAccount, CreateCosmosAccount
  <2>4. ASSUME NEW a \in Name, NEW d \in Leaf, createDatabase(a, d)
        PROVE  LossCaused
    BY <2>4, UpsertLosesNothing DEF createDatabase, CreateCosmosDatabase
  <2> QED
    BY <1>5, <2>1, <2>2, <2>3, <2>4 DEF CosmosNext
<1>6. CASE VaultsNext
  <2>1. ASSUME NEW g \in Group, NEW v \in Name, UpsertKeyVault(g, v) \/ DeleteKeyVault(g, v)
        PROVE  LossCaused
    <3>1. \A k \in SecretsOf(v) : IsParent(Vault(g, v), k)
      BY DEF SecretsOf, Secret, Vault, IsParent
    <3> QED
      BY <2>1, <3>1, UpsertLosesNothing, CascadeLosesChildren DEF UpsertKeyVault, DeleteKeyVault
  <2>2. ASSUME NEW v \in Name, NEW s \in Leaf, NEW x \in Value, putSecret(v, s, x)
        PROVE  LossCaused
    BY <2>2, UpsertLosesNothing DEF putSecret, PutKeyVaultSecret
  <2>3. ASSUME NEW c \in Client, deleteSecret(c)
        PROVE  LossCaused
    BY <1>1, <2>3, RemoveLosesOne DEF deleteSecret, DeleteKeyVaultSecret
  <2>4. ASSUME NEW c \in Client, NEW v \in Name, NEW s \in Leaf, deleteSecretReads(c, v, s)
        PROVE  LossCaused
    BY <1>1, <2>4 DEF deleteSecretReads
  <2>5. CASE Kill
    BY <1>1, <2>5 DEF Kill
  <2> QED
    BY <1>6, <2>1, <2>2, <2>3, <2>4, <2>5 DEF VaultsNext
<1>7. CASE DnsNext
  <2>1. \A g, z : \A k \in RecordsOf(g, z) : IsParent(DnsZone(g, z), k)
    BY DEF RecordsOf, DnsRecord, DnsZone, IsParent
  <2> QED
    BY <1>7, <2>1, UpsertLosesNothing, RemoveLosesOne, CascadeLosesChildren
       DEF DnsNext, UpsertPrivateDNSZone, DeletePrivateDNSZone, UpsertPrivateDNSARecordSet,
           DeletePrivateDNSARecordSet
<1>8. CASE UNCHANGED vars
  BY <1>1, <1>8 DEF vars
<1> QED
  BY <1>2, <1>3, <1>4, <1>5, <1>6, <1>7, <1>8 DEF Next

(***************************************************************************)
(* In every plane, a row disappears by its own deletion or with its parent *)
(* only: no deletion reaches the rows of another account, of a vault of    *)
(* another name or of a zone in another group.                             *)
(***************************************************************************)
THEOREM NothingElseIsLost == Spec => LossHasCause
<1>1. [Next]_vars => [LossCaused]_vars
  BY StepsLoseWithCause
<1>2. LossHasCause <=> [][LossCaused]_vars
  BY DEF LossHasCause, LossCaused
<1> QED
  BY <1>1, <1>2, PTL DEF Spec

-----------------------------------------------------------------------------
(***************************************************************************)
(* Types.  Only children are ever left behind, so that a cascade never     *)
(* removes a row that another one has left.                                *)
(***************************************************************************)
RowsTyped ==
  /\ \A k \in DOMAIN rows : rows[k] \in Held(k)
  /\ cut \subseteq DOMAIN rows
  /\ \A k \in cut : k[1] \notin Roots

LEMMA RowsHeld ==
  /\ \A a, n : Row \in Held(BlobContainer(a, n)) /\ Row \in Held(Account(a, n))
  /\ \A a, n : Row \in Held(Table(a, n)) /\ Row \in Held(CosmosDatabase(a, n))
  /\ \A a, n : Row \in Held(Vault(a, n)) /\ Row \in Held(DnsZone(a, n))
  /\ \A a : Row \in Held(ConfigStore(a)) /\ Row \in Held(CosmosAccount(a))
  /\ \A a, d, n : Row \in Held(CosmosContainer(a, d, n))
BY DEF Held, Leaves, BlobContainer, Account, Table, CosmosDatabase, Vault, DnsZone, ConfigStore,
       CosmosAccount, CosmosContainer

LEMMA ValuesHeld ==
  /\ \A a, n, b : Held(Blob(a, n, b)) = Value /\ Held(Entity(a, n, b)) = Value
  /\ \A a, n, b : Held(ConfigValue(a, n, b)) = Value /\ Held(DnsRecord(a, n, b)) = Address
  /\ \A a, n : Held(Secret(a, n)) = Value
  /\ \A a, d, n, i : Held(CosmosDocument(a, d, n, i)) = Value
BY DEF Held, Leaves, Blob, Entity, ConfigValue, DnsRecord, Secret, CosmosDocument

LEMMA UpsertTyped ==
  ASSUME RowsTyped, NEW k, NEW v \in Held(k), Upsert(k, v)
  PROVE  RowsTyped'
<1>1. /\ DOMAIN rows' = DOMAIN rows \cup {k} /\ cut' = cut \ {k}
      /\ \A j \in DOMAIN rows' : rows'[j] = IF j = k THEN v ELSE rows[j]
  BY DEF Upsert
<1>2. \A j \in DOMAIN rows' : rows'[j] \in Held(j)
  BY <1>1 DEF RowsTyped
<1> QED
  BY <1>1, <1>2 DEF RowsTyped

LEMMA RemoveTyped ==
  ASSUME RowsTyped, NEW K, Remove(K)
  PROVE  RowsTyped'
BY DEF RowsTyped, Remove

LEMMA CascadeTyped ==
  ASSUME RowsTyped, NEW p, NEW K \in SUBSET DOMAIN rows, DeleteCascading(p, K),
         p[1] \in Roots, \A k \in K : k[1] \notin Roots
  PROVE  RowsTyped'
<1>1. CASE Remove({p} \cup K)
  BY <1>1, RemoveTyped
<1>2. CASE RemoveAlone(p, K)
  <2>1. DOMAIN rows' = DOMAIN rows \ {p} /\ cut' = cut \cup K
        /\ \A j \in DOMAIN rows' : rows'[j] = rows[j]
    BY <1>2 DEF RemoveAlone
  <2>2. p \notin cut /\ p \notin K
    BY DEF RowsTyped
  <2> QED
    BY <2>1, <2>2 DEF RowsTyped
<1> QED
  BY <1>1, <1>2 DEF DeleteCascading

LEMMA ChildrenKinds ==
  /\ \A a, t : /\ EntitiesOf(a, t) \in SUBSET DOMAIN rows /\ Table(a, t)[1] \in Roots
               /\ \A k \in EntitiesOf(a, t) : k[1] \notin Roots
  /\ \A g, v : /\ SecretsOf(v) \in SUBSET DOMAIN rows /\ Vault(g, v)[1] \in Roots
               /\ \A k \in SecretsOf(v) : k[1] \notin Roots
  /\ \A g, z : /\ RecordsOf(g, z) \in SUBSET DOMAIN rows /\ DnsZone(g, z)[1] \in Roots
               /\ \A k \in RecordsOf(g, z) : k[1] \notin Roots
BY DEF EntitiesOf, Entity, Table, SecretsOf, Secret, Vault, RecordsOf, DnsRecord, DnsZone, Roots

LEMMA RowsTypedPreserved ==
  ASSUME RowsTyped, [Next]_vars
  PROVE  RowsTyped'
<1>1. ASSUME rows' = rows, cut' = cut
      PROVE  RowsTyped'
  BY <1>1 DEF RowsTyped
<1>2. CASE BlobsNext
  BY <1>2, RowsHeld, ValuesHeld, UpsertTyped, RemoveTyped
     DEF BlobsNext, createContainer, CreateBlobContainer, deleteBlob, DeleteBlob,
         putBlob, PutBlob
<1>3. CASE TablesNext
  <2>1. ASSUME NEW g \in Group, NEW a \in Name,
               UpsertStorageAccount(g, a) \/ DeleteStorageAccount(g, a)
        PROVE  RowsTyped'
    BY <2>1, RowsHeld, UpsertTyped, RemoveTyped DEF UpsertStorageAccount, DeleteStorageAccount
  <2>2. ASSUME NEW a \in Name, NEW t \in Leaf, createTable(a, t) \/ deleteTable(a, t)
        PROVE  RowsTyped'
    BY <2>2, RowsHeld, UpsertTyped, CascadeTyped, ChildrenKinds
       DEF createTable, CreateTable, deleteTable, DeleteTable
  <2>3. ASSUME NEW a \in Name, NEW t \in Leaf, NEW e \in Leaf,
               deleteEntity(a, t, e) \/ \E v \in Value : upsertEntity(a, t, e, v)
        PROVE  RowsTyped'
    BY <2>3, ValuesHeld, UpsertTyped, RemoveTyped
       DEF upsertEntity, UpsertTableEntity, deleteEntity, DeleteTableEntity
  <2> QED
    BY <1>3, <2>1, <2>2, <2>3 DEF TablesNext
<1>4. CASE ConfigNext
  BY <1>4, RowsHeld, ValuesHeld, UpsertTyped, RemoveTyped
     DEF ConfigNext, createStore, CreateAppConfigStore, putValue, PutAppConfigValue,
         deleteValue, DeleteAppConfigValue
<1>5. CASE CosmosNext
  <2>1. ASSUME NEW a \in Name, createAccount(a)
        PROVE  RowsTyped'
    BY <2>1, RowsHeld, UpsertTyped DEF createAccount, CreateCosmosAccount
  <2>2. ASSUME NEW a \in Name, NEW d \in Leaf, createDatabase(a, d)
        PROVE  RowsTyped'
    BY <2>2, RowsHeld, UpsertTyped DEF createDatabase, CreateCosmosDatabase
  <2>3. ASSUME NEW a \in Name, NEW d \in Leaf, NEW n \in Leaf, createCosmosContainer(a, d, n)
        PROVE  RowsTyped'
    BY <2>3, RowsHeld, UpsertTyped DEF createCosmosContainer, CreateCosmosContainer
  <2>4. ASSUME NEW a \in Name, NEW d \in Leaf, NEW n \in Leaf, NEW i \in Leaf,
               \/ deleteDocument(a, d, n, i)
               \/ \E v \in Value : upsertDocument(a, d, n, i, v)
        PROVE  RowsTyped'
    BY <2>4, ValuesHeld, UpsertTyped, RemoveTyped
       DEF deleteDocument, DeleteCosmosDocument, upsertDocument, UpsertCosmosDocument
  <2> QED
    BY <1>5, <2>1, <2>2, <2>3, <2>4 DEF CosmosNext
<1>6. CASE VaultsNext
  <2>1. ASSUME NEW g \in Group, NEW v \in Name, UpsertKeyVault(g, v) \/ DeleteKeyVault(g, v)
        PROVE  RowsTyped'
    BY <2>1, RowsHeld, UpsertTyped, CascadeTyped, ChildrenKinds DEF UpsertKeyVault, DeleteKeyVault
  <2>2. ASSUME NEW v \in Name, NEW s \in Leaf, NEW x \in Value, putSecret(v, s, x)
        PROVE  RowsTyped'
    BY <2>2, ValuesHeld, UpsertTyped DEF putSecret, PutKeyVaultSecret
  <2>3. ASSUME NEW c \in Client, deleteSecret(c)
        PROVE  RowsTyped'
    BY <1>1, <2>3, RemoveTyped DEF deleteSecret, DeleteKeyVaultSecret
  <2>4. ASSUME NEW c \in Client, NEW v \in Name, NEW s \in Leaf, deleteSecretReads(c, v, s)
        PROVE  RowsTyped'
    BY <1>1, <2>4 DEF deleteSecretReads
  <2>5. CASE Kill
    BY <1>1, <2>5 DEF Kill
  <2> QED
    BY <1>6, <2>1, <2>2, <2>3, <2>4, <2>5 DEF VaultsNext
<1>7. CASE DnsNext
  <2>1. ASSUME NEW g \in Group, NEW z \in Zone,
               UpsertPrivateDNSZone(g, z) \/ DeletePrivateDNSZone(g, z)
        PROVE  RowsTyped'
    BY <2>1, RowsHeld, UpsertTyped, CascadeTyped, ChildrenKinds
       DEF UpsertPrivateDNSZone, DeletePrivateDNSZone
  <2>2. ASSUME NEW g \in Group, NEW z \in Zone, NEW r \in Relative,
               \/ DeletePrivateDNSARecordSet(g, z, r)
               \/ \E x \in Address : UpsertPrivateDNSARecordSet(g, z, r, x)
        PROVE  RowsTyped'
    BY <2>2, ValuesHeld, UpsertTyped, RemoveTyped
       DEF UpsertPrivateDNSARecordSet, DeletePrivateDNSARecordSet
  <2> QED
    BY <1>7, <2>1, <2>2 DEF DnsNext
<1>8. CASE UNCHANGED vars
  BY <1>1, <1>8 DEF vars
<1> QED
  BY <1>2, <1>3, <1>4, <1>5, <1>6, <1>7, <1>8 DEF Next

(***************************************************************************)
(* A DELETE of a secret between its two calls: what it has read is still   *)
(* what is there, unless the secret was put meanwhile, which raced says.   *)
(***************************************************************************)
Reading(r) ==
  /\ DOMAIN r = {"key", "vault", "secret", "value", "raced"}
  /\ \E v \in Name, s \in Leaf : r.key = Secret(v, s)
  /\ r.value \in Value
  /\ r.raced \/ (Exists(r.key) => rows[r.key] = r.value)

ReadInv ==
  /\ plane \in Planes
  /\ plane # "vaults" => \A c \in Client : request[c] = Idle
  /\ DOMAIN request = Client
  /\ \A c \in Client : request[c] = Idle \/ Reading(request[c])

\* Rows of secrets stay as they are or go.
LEMMA ReadingStays ==
  ASSUME NEW r, Reading(r),
         \A v \in Name, s \in Leaf : Secret(v, s) \in DOMAIN rows' =>
            Secret(v, s) \in DOMAIN rows /\ rows'[Secret(v, s)] = rows[Secret(v, s)]
  PROVE  Reading(r)'
BY DEF Reading, Exists

LEMMA PutSecretReadInv ==
  ASSUME ReadInv, RowsTyped, NEW v \in Name, NEW s \in Leaf, NEW x \in Value,
         putSecret(v, s, x), plane' = plane, plane = "vaults"
  PROVE  ReadInv'
<1>1. \A j \in DOMAIN rows' : j # Secret(v, s) => j \in DOMAIN rows /\ rows'[j] = rows[j]
  BY DEF putSecret, PutKeyVaultSecret, Upsert
<1>2. DOMAIN request' = Client
  BY DEF putSecret
<1>3. ASSUME NEW c \in Client, request[c].key = Secret(v, s)
      PROVE  Reading(request[c])'
  <2>1. Reading(request[c])
    BY <1>3 DEF ReadInv, Idle, Secret
  <2>2. /\ DOMAIN request'[c] = DOMAIN request[c] /\ request'[c].raced
        /\ request'[c].key = request[c].key /\ request'[c].value = request[c].value
    BY <1>3, <2>1 DEF putSecret, Reading
  <2> QED
    BY <2>1, <2>2 DEF Reading
<1>4. ASSUME NEW c \in Client, request[c].key # Secret(v, s)
      PROVE  request'[c] = Idle \/ Reading(request[c])'
  <2>1. request'[c] = request[c]
    BY <1>4 DEF putSecret
  <2>2. CASE Reading(request[c])
    BY <1>1, <1>4, <2>1, <2>2 DEF Reading, Exists
  <2> QED
    BY <2>1, <2>2 DEF ReadInv
<1> QED
  BY <1>2, <1>3, <1>4 DEF ReadInv

\* Steps that leave the DELETEs and the rows of secrets alone.
LEMMA FrameReadInv ==
  ASSUME ReadInv, plane' = plane,
         \/ request' = request
         \/ request' = [c \in Client |-> Idle],
         plane = "vaults" =>
           \A v \in Name, s \in Leaf : Secret(v, s) \in DOMAIN rows' =>
              Secret(v, s) \in DOMAIN rows /\ rows'[Secret(v, s)] = rows[Secret(v, s)]
  PROVE  ReadInv'
<1>1. CASE request' = [c \in Client |-> Idle]
  BY <1>1 DEF ReadInv
<1>2. CASE request' = request /\ plane # "vaults"
  BY <1>2 DEF ReadInv
<1>3. CASE request' = request /\ plane = "vaults"
  BY <1>3 DEF ReadInv, Reading, Exists
<1> QED
  BY <1>1, <1>2, <1>3

LEMMA VaultsReadInv ==
  ASSUME ReadInv, RowsTyped, VaultsNext, plane' = plane, plane = "vaults"
  PROVE  ReadInv'
<1>1. ASSUME NEW g \in Group, NEW v \in Name, UpsertKeyVault(g, v)
      PROVE  ReadInv'
  <2>1. \A w \in Name, s \in Leaf : Secret(w, s) # Vault(g, v)
    BY DEF Secret, Vault
  <2> QED
    BY <1>1, <2>1, FrameReadInv DEF UpsertKeyVault, Upsert
<1>2. ASSUME NEW g \in Group, NEW v \in Name, DeleteKeyVault(g, v)
      PROVE  ReadInv'
  BY <1>2, FrameReadInv DEF DeleteKeyVault, DeleteCascading, Remove, RemoveAlone
<1>3. ASSUME NEW c \in Client, NEW v \in Name, NEW s \in Leaf, deleteSecretReads(c, v, s)
      PROVE  ReadInv'
  <2>1. PICK x \in GetKeyVaultSecret(v, s) :
          request' = [request EXCEPT ![c] = [key |-> Secret(v, s), vault |-> v,
                                             secret |-> s, value |-> x, raced |-> FALSE]]
    BY <1>3 DEF deleteSecretReads
  <2>2. rows' = rows /\ Secret(v, s) \in DOMAIN rows /\ x = rows[Secret(v, s)] /\ x \in Value
    BY <1>3, ValuesHeld DEF deleteSecretReads, GetKeyVaultSecret, RowsTyped
  <2>3. DOMAIN request' = Client /\ \A k \in Client \ {c} : request'[k] = request[k]
    BY <2>1 DEF ReadInv
  <2>4. request'[c] = [key |-> Secret(v, s), vault |-> v, secret |-> s, value |-> x,
                       raced |-> FALSE]
    BY <2>1 DEF ReadInv
  <2>5. Reading(request[c])'
    BY <2>2, <2>4 DEF Reading, Exists
  <2>6. \A k \in Client \ {c} : request'[k] = Idle \/ Reading(request[k])'
    BY <2>2, <2>3 DEF ReadInv, Reading, Exists
  <2> QED
    BY <2>3, <2>5, <2>6 DEF ReadInv
<1>4. ASSUME NEW c \in Client, deleteSecret(c)
      PROVE  ReadInv'
  <2>1. request' = [request EXCEPT ![c] = Idle]
    BY <1>4 DEF deleteSecret
  <2>2. \A j \in DOMAIN rows' : j \in DOMAIN rows /\ rows'[j] = rows[j]
    BY <1>4 DEF deleteSecret, DeleteKeyVaultSecret, Remove
  <2>3. DOMAIN request' = Client /\ request'[c] = Idle
        /\ \A k \in Client \ {c} : request'[k] = request[k]
    BY <2>1 DEF ReadInv
  <2>4. \A k \in Client \ {c} : request'[k] = Idle \/ Reading(request[k])'
    BY <2>2, <2>3 DEF ReadInv, Reading, Exists
  <2> QED
    BY <2>3, <2>4 DEF ReadInv
<1>5. CASE Kill
  BY <1>5, FrameReadInv DEF Kill
<1> QED
  BY <1>1, <1>2, <1>3, <1>4, <1>5, PutSecretReadInv DEF VaultsNext

LEMMA ReadInvPreserved ==
  ASSUME ReadInv, RowsTyped, [Next]_vars
  PROVE  ReadInv'
<1>1. ASSUME UNCHANGED <<plane, request>>, plane # "vaults"
      PROVE  ReadInv'
  BY <1>1, FrameReadInv
<1>2. CASE plane = "blobs" /\ BlobsNext /\ plane' = plane
  BY <1>1, <1>2 DEF BlobsNext, createContainer, deleteBlob, putBlob
<1>3. CASE plane = "tables" /\ TablesNext /\ plane' = plane
  <2>1. request' = request \/ request' = [c \in Client |-> Idle]
    BY <1>3 DEF TablesNext, UpsertStorageAccount, DeleteStorageAccount, createTable, deleteTable,
       DeleteTable, DeleteCascading, upsertEntity, deleteEntity
  <2> QED
    BY <1>3, <2>1, FrameReadInv
<1>4. CASE plane = "config" /\ ConfigNext /\ plane' = plane
  BY <1>1, <1>4 DEF ConfigNext, createStore, putValue, deleteValue
<1>5. CASE plane = "cosmos" /\ CosmosNext /\ plane' = plane
  BY <1>1, <1>5 DEF CosmosNext, createAccount, createDatabase, createCosmosContainer,
     upsertDocument, deleteDocument
<1>6. CASE plane = "dns" /\ DnsNext /\ plane' = plane
  <2>1. request' = request \/ request' = [c \in Client |-> Idle]
    BY <1>6 DEF DnsNext, UpsertPrivateDNSZone, DeletePrivateDNSZone, DeleteCascading,
       UpsertPrivateDNSARecordSet, DeletePrivateDNSARecordSet
  <2> QED
    BY <1>6, <2>1, FrameReadInv
<1>7. CASE UNCHANGED vars
  BY <1>7, FrameReadInv DEF vars
<1> QED
  BY <1>2, <1>3, <1>4, <1>5, <1>6, <1>7, VaultsReadInv DEF Next

TypesInv == RowsTyped /\ ReadInv /\ AnswersAddUp

LEMMA TypesInvHolds == Spec => []TypesInv
<1>1. Init => TypesInv
  BY AnswersAddUpInitially DEF Init, Empty, TypesInv, RowsTyped, ReadInv
<1>2. TypesInv /\ [Next]_vars => TypesInv'
  BY RowsTypedPreserved, ReadInvPreserved, AnswersAddUpPreserved DEF TypesInv
<1> QED
  BY <1>1, <1>2, PTL DEF Spec

\* Every state is well typed, and what a deletion cut short has left behind
\* is still there.
THEOREM TypeCorrect == Spec => []TypeOK
<1>1. TypesInv => TypeOK
  <2> SUFFICES ASSUME TypesInv PROVE TypeOK
    OBVIOUS
  <2>1. \A k \in DOMAIN told : told[k] \in Int \ {0}
    BY DEF TypesInv, AnswersAddUp
  <2>2. \A c \in Client : request[c] = Idle \/ request[c].value \in Value
    BY DEF TypesInv, ReadInv, Reading
  <2> QED
    BY <2>1, <2>2 DEF TypesInv, RowsTyped, ReadInv, TypeOK
<1> QED
  BY <1>1, TypesInvHolds, PTL

(***************************************************************************)
(* The DELETE of a secret answers with the value that it removes, with any *)
(* number of clients that put and delete it and its vaults at once, unless *)
(* the secret was put between the two calls of that DELETE.                *)
(***************************************************************************)
THEOREM DeletesTellWhatTheyRemove == Spec => DeleteTellsWhatItRemoved
<1> DEFINE ToldTruth ==
      \A c \in Client :
        LET r == request[c]
        IN  r # Idle /\ request'[c] = Idle /\ Exists(r.key) /\ r.key \notin DOMAIN rows'
              => r.raced \/ rows[r.key] = r.value
<1>1. TypesInv => ToldTruth
  BY DEF TypesInv, ReadInv, Reading
<1>2. TypesInv /\ [Next]_vars => [ToldTruth]_vars
  BY <1>1
<1>3. DeleteTellsWhatItRemoved <=> [][ToldTruth]_vars
  BY DEF DeleteTellsWhatItRemoved
<1> QED
  BY <1>2, <1>3, TypesInvHolds, PTL DEF Spec
=============================================================================
