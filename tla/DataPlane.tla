----------------------------- MODULE DataPlane -----------------------------
(***************************************************************************)
(* The data planes that keep named things under named parents: blobs in    *)
(* containers, entities in tables, values in App Configuration stores,     *)
(* documents in Cosmos DB containers, secrets in key vaults and A records  *)
(* in private DNS zones.  (Queues, Service Bus and Event Hubs have modules *)
(* of their own.)                                                          *)
(*                                                                         *)
(* A call of the store holds its mutex throughout and most handlers make   *)
(* one call, so their requests are one step; DELETE of a secret makes two. *)
(* A deletion that cascades is two statements that commit by themselves: a *)
(* kill of the daemon or a failing statement can fall between them.        *)
(* Storage accounts, vaults, zones and records are written by the resource *)
(* manager, whose requests ArmControlPlane models step by step: here they  *)
(* are their call of the store.  Requests refused with 404 or 409 change   *)
(* nothing and are not steps.                                              *)
(*                                                                         *)
(* No two planes share a table, so that a behaviour has one of them in use.*)
(***************************************************************************)
EXTENDS Integers, Sequences

CONSTANTS
  Client,     \* concurrent clients of the key vaults
  Group,      \* resource groups
  Name,       \* names of accounts, vaults and stores
  Leaf,       \* names of what they hold
  Zone,       \* names of DNS zones: sequences of labels
  Relative,   \* names of records in a zone: sequences of labels, <<>> is "@"
  Value,      \* what a blob, an entity, a secret, ... may be set to
  Address     \* what a record may be set to

ASSUME NamesAssumption == Zone \cup Relative \subseteq Seq(STRING)

Planes == {"blobs", "tables", "config", "cosmos", "vaults", "dns"}

\* Primary keys, as the tables have them: a vault's holds its group, a
\* secret's only the vault's name.
BlobContainer(a, n) == <<"container", a, n>>
Blob(a, n, b) == <<"blob", a, n, b>>
Account(g, a) == <<"account", g, a>>
Table(a, t) == <<"table", a, t>>
Entity(a, t, e) == <<"entity", a, t, e>>
ConfigStore(s) == <<"store", s>>
ConfigValue(s, k, l) == <<"value", s, k, l>>
CosmosAccount(a) == <<"cosmos", a>>
CosmosDatabase(a, d) == <<"database", a, d>>
CosmosContainer(a, d, n) == <<"collection", a, d, n>>
CosmosDocument(a, d, n, i) == <<"document", a, d, n, i>>
Vault(g, v) == <<"vault", g, v>>
Secret(v, s) == <<"secret", v, s>>
DnsZone(g, z) == <<"zone", g, z>>
DnsRecord(g, z, r) == <<"record", g, z, r>>

\* A parent's row has nothing in it that matters here.
Row == "row"

VARIABLES
  plane,    \* the plane in use
  rows,     \* primary key |-> value, over the rows there are
  request,  \* client |-> its DELETE of a secret between its two calls, else Idle
  cut,      \* history: the rows a deletion that was cut short has left behind
  told      \* history: key |-> rows made less rows deleted, by what clients
            \* were told and what deletions took along; keys at 0 left out

vars == <<plane, rows, request, cut, told>>

Idle == [key |-> <<>>]

Empty == [k \in {} |-> Row]

Init ==
  /\ plane \in Planes
  /\ rows = Empty
  /\ request = [c \in Client |-> Idle]
  /\ cut = {}
  /\ told = [k \in {} |-> 0]

-----------------------------------------------------------------------------
(***************************************************************************)
(* Statements.                                                             *)
(***************************************************************************)
Exists(k) == k \in DOMAIN rows

\* INSERT ... ON CONFLICT DO UPDATE
Upsert(k, v) ==
  /\ rows' = [j \in DOMAIN rows \cup {k} |-> IF j = k THEN v ELSE rows[j]]
  /\ cut' = cut \ {k}

\* DELETE
Remove(K) ==
  /\ rows' = [j \in DOMAIN rows \ K |-> rows[j]]
  /\ cut' = cut \ K

\* The DELETE of parent that leaves the rows K behind.
RemoveAlone(parent, K) ==
  /\ rows' = [j \in DOMAIN rows \ {parent} |-> rows[j]]
  /\ cut' = cut \cup K

\* How often k counts after n more.
Told(K, n) ==
  LET old(k) == IF k \in DOMAIN told THEN told[k] ELSE 0
      new(k) == IF k \in K THEN old(k) + n ELSE old(k)
  IN  told' = [k \in {j \in DOMAIN told \cup K : new(j) # 0} |-> new(k)]

\* A PUT makes a row unless it was there.
ToldUpsert(k) == IF Exists(k) THEN UNCHANGED told ELSE Told({k}, 1)

\* A deletion of parent, with the children K: whole, or cut short between
\* its two statements by a failure of the second one or by a kill.
DeleteCascading(parent, K) ==
  /\ Exists(parent)
  /\ \/ Remove({parent} \cup K) /\ Told({parent} \cup K, -1)
        /\ UNCHANGED request
     \/ RemoveAlone(parent, K) /\ Told({parent}, -1)
        /\ request' \in {request, [c \in Client |-> Idle]}

-----------------------------------------------------------------------------
(***************************************************************************)
(* Blobs.  A container is not tied to a storage account and is never       *)
(* deleted.                                                                *)
(***************************************************************************)
CreateBlobContainer(a, n) ==
  /\ ~Exists(BlobContainer(a, n))
  /\ Upsert(BlobContainer(a, n), Row)

createContainer(a, n) ==
  /\ CreateBlobContainer(a, n)
  /\ Told({BlobContainer(a, n)}, 1)
  /\ UNCHANGED request

PutBlob(a, n, b, v) ==
  /\ Exists(BlobContainer(a, n))
  /\ Upsert(Blob(a, n, b), v)

putBlob(a, n, b, v) ==
  /\ PutBlob(a, n, b, v)
  /\ ToldUpsert(Blob(a, n, b))
  /\ UNCHANGED request

DeleteBlob(a, n, b) ==
  /\ Exists(Blob(a, n, b))
  /\ Remove({Blob(a, n, b)})

deleteBlob(a, n, b) ==
  /\ DeleteBlob(a, n, b)
  /\ Told({Blob(a, n, b)}, -1)
  /\ UNCHANGED request

BlobsNext ==
  \E a \in Name, n \in Leaf :
    \/ createContainer(a, n)
    \/ \E b \in Leaf :
         \/ deleteBlob(a, n, b)
         \/ \E v \in Value : putBlob(a, n, b, v)

-----------------------------------------------------------------------------
(***************************************************************************)
(* Tables.  A table needs a storage account of its name, in whatever       *)
(* group; the account's deletion leaves its tables.                        *)
(***************************************************************************)
UpsertStorageAccount(g, a) ==
  /\ Upsert(Account(g, a), Row)
  /\ ToldUpsert(Account(g, a))
  /\ UNCHANGED request

DeleteStorageAccount(g, a) ==
  /\ Exists(Account(g, a))
  /\ Remove({Account(g, a)})
  /\ Told({Account(g, a)}, -1)
  /\ UNCHANGED request

\* Faulty variant: an existing table is created once more.
CreateTableAgain(a, t) ==
  /\ \E g \in Group : Exists(Account(g, a))
  /\ Upsert(Table(a, t), Row)

CreateTable(a, t) ==
  /\ \E g \in Group : Exists(Account(g, a))
  /\ ~Exists(Table(a, t))
  /\ Upsert(Table(a, t), Row)

createTable(a, t) ==
  /\ CreateTable(a, t)
  /\ Told({Table(a, t)}, 1)
  /\ UNCHANGED request

\* Faulty variant: the account is left out of the condition.
EntitiesOfAnyAccount(a, t) ==
  {Entity(b, t, e) : b \in Name, e \in Leaf} \cap DOMAIN rows

EntitiesOf(a, t) == {Entity(a, t, e) : e \in Leaf} \cap DOMAIN rows

DeleteTable(a, t) == DeleteCascading(Table(a, t), EntitiesOf(a, t))

deleteTable(a, t) == DeleteTable(a, t)

\* Faulty variant: the account is checked instead of the table.
UpsertTableEntityUnchecked(a, t, e, v) ==
  /\ \E g \in Group : Exists(Account(g, a))
  /\ Upsert(Entity(a, t, e), v)

UpsertTableEntity(a, t, e, v) ==
  /\ Exists(Table(a, t))
  /\ Upsert(Entity(a, t, e), v)

upsertEntity(a, t, e, v) ==
  /\ UpsertTableEntity(a, t, e, v)
  /\ ToldUpsert(Entity(a, t, e))
  /\ UNCHANGED request

DeleteTableEntity(a, t, e) ==
  /\ Exists(Entity(a, t, e))
  /\ Remove({Entity(a, t, e)})

deleteEntity(a, t, e) ==
  /\ DeleteTableEntity(a, t, e)
  /\ Told({Entity(a, t, e)}, -1)
  /\ UNCHANGED request

TablesNext ==
  \/ \E g \in Group, a \in Name :
       UpsertStorageAccount(g, a) \/ DeleteStorageAccount(g, a)
  \/ \E a \in Name, t \in Leaf :
       \/ createTable(a, t)
       \/ deleteTable(a, t)
       \/ \E e \in Leaf :
            \/ deleteEntity(a, t, e)
            \/ \E v \in Value : upsertEntity(a, t, e, v)

-----------------------------------------------------------------------------
(***************************************************************************)
(* App Configuration.  A value's key is its name and its label.  Stores    *)
(* are never deleted.                                                      *)
(***************************************************************************)
CreateAppConfigStore(s) ==
  /\ ~Exists(ConfigStore(s))
  /\ Upsert(ConfigStore(s), Row)

createStore(s) ==
  /\ CreateAppConfigStore(s)
  /\ Told({ConfigStore(s)}, 1)
  /\ UNCHANGED request

PutAppConfigValue(s, k, l, v) ==
  /\ Exists(ConfigStore(s))
  /\ Upsert(ConfigValue(s, k, l), v)

putValue(s, k, l, v) ==
  /\ PutAppConfigValue(s, k, l, v)
  /\ ToldUpsert(ConfigValue(s, k, l))
  /\ UNCHANGED request

DeleteAppConfigValue(s, k, l) ==
  /\ Exists(ConfigValue(s, k, l))
  /\ Remove({ConfigValue(s, k, l)})

deleteValue(s, k, l) ==
  /\ DeleteAppConfigValue(s, k, l)
  /\ Told({ConfigValue(s, k, l)}, -1)
  /\ UNCHANGED request

ConfigNext ==
  \E s \in Name :
    \/ createStore(s)
    \/ \E k, l \in Leaf :
         \/ deleteValue(s, k, l)
         \/ \E v \in Value : putValue(s, k, l, v)

-----------------------------------------------------------------------------
(***************************************************************************)
(* Cosmos DB.  A document's key is its id, whatever its partition;         *)
(* accounts, databases and containers are never deleted.                   *)
(***************************************************************************)
CreateCosmosAccount(a) ==
  /\ ~Exists(CosmosAccount(a))
  /\ Upsert(CosmosAccount(a), Row)

createAccount(a) ==
  /\ CreateCosmosAccount(a)
  /\ Told({CosmosAccount(a)}, 1)
  /\ UNCHANGED request

CreateCosmosDatabase(a, d) ==
  /\ Exists(CosmosAccount(a))
  /\ ~Exists(CosmosDatabase(a, d))
  /\ Upsert(CosmosDatabase(a, d), Row)

createDatabase(a, d) ==
  /\ CreateCosmosDatabase(a, d)
  /\ Told({CosmosDatabase(a, d)}, 1)
  /\ UNCHANGED request

CreateCosmosContainer(a, d, n) ==
  /\ Exists(CosmosDatabase(a, d))
  /\ ~Exists(CosmosContainer(a, d, n))
  /\ Upsert(CosmosContainer(a, d, n), Row)

createCosmosContainer(a, d, n) ==
  /\ CreateCosmosContainer(a, d, n)
  /\ Told({CosmosContainer(a, d, n)}, 1)
  /\ UNCHANGED request

UpsertCosmosDocument(a, d, n, i, v) ==
  /\ Exists(CosmosContainer(a, d, n))
  /\ Upsert(CosmosDocument(a, d, n, i), v)

upsertDocument(a, d, n, i, v) ==
  /\ UpsertCosmosDocument(a, d, n, i, v)
  /\ ToldUpsert(CosmosDocument(a, d, n, i))
  /\ UNCHANGED request

DeleteCosmosDocument(a, d, n, i) ==
  /\ Exists(CosmosDocument(a, d, n, i))
  /\ Remove({CosmosDocument(a, d, n, i)})

deleteDocument(a, d, n, i) ==
  /\ DeleteCosmosDocument(a, d, n, i)
  /\ Told({CosmosDocument(a, d, n, i)}, -1)
  /\ UNCHANGED request

CosmosNext ==
  \E a \in Name :
    \/ createAccount(a)
    \/ \E d \in Leaf :
         \/ createDatabase(a, d)
         \/ \E n \in Leaf :
              \/ createCosmosContainer(a, d, n)
              \/ \E i \in Leaf :
                   \/ deleteDocument(a, d, n, i)
                   \/ \E v \in Value : upsertDocument(a, d, n, i, v)

-----------------------------------------------------------------------------
(***************************************************************************)
(* Key vaults.  Vaults of one name may exist in several groups; they share *)
(* their secrets, and the deletion of any of them deletes these.           *)
(***************************************************************************)
UpsertKeyVault(g, v) ==
  /\ Upsert(Vault(g, v), Row)
  /\ ToldUpsert(Vault(g, v))
  /\ UNCHANGED request

SecretsOf(v) == {Secret(v, s) : s \in Leaf} \cap DOMAIN rows

DeleteKeyVault(g, v) == DeleteCascading(Vault(g, v), SecretsOf(v))

PutKeyVaultSecret(v, s, x) ==
  /\ \E g \in Group : Exists(Vault(g, v))
  /\ Upsert(Secret(v, s), x)

\* raced is history: the secret was put while a DELETE of it was in progress.
putSecret(v, s, x) ==
  /\ PutKeyVaultSecret(v, s, x)
  /\ ToldUpsert(Secret(v, s))
  /\ request' = [c \in Client |->
                   IF request[c].key = Secret(v, s)
                   THEN [request[c] EXCEPT !.raced = TRUE] ELSE request[c]]

\* Faulty variant: the vault is left out of the condition.
GetKeyVaultSecretOfAnyVault(v, s) ==
  {rows[k] : k \in {Secret(w, s) : w \in Name} \cap DOMAIN rows}

\* The secret's values, none or one.
GetKeyVaultSecret(v, s) == {rows[k] : k \in {Secret(v, s)} \cap DOMAIN rows}

\* DELETE reads the secret for its answer, ...
deleteSecretReads(c, v, s) ==
  /\ request[c] = Idle
  /\ \E x \in GetKeyVaultSecret(v, s) :
       request' = [request EXCEPT ![c] = [key |-> Secret(v, s), vault |-> v,
                                          secret |-> s, value |-> x, raced |-> FALSE]]
  /\ UNCHANGED <<rows, cut, told>>

\* Faulty variant: the rows affected are not looked at.
DeleteKeyVaultSecretAnyway(v, s) == Remove({Secret(v, s)})

DeleteKeyVaultSecret(v, s) ==
  /\ Exists(Secret(v, s))
  /\ Remove({Secret(v, s)})

\* ... then deletes it; if it is gone by then the answer is 404.
deleteSecret(c) ==
  /\ request[c] # Idle
  /\ LET v == request[c].vault
         s == request[c].secret
     IN  \/ DeleteKeyVaultSecret(v, s) /\ Told({Secret(v, s)}, -1)
         \/ ~Exists(Secret(v, s)) /\ UNCHANGED <<rows, cut, told>>
  /\ request' = [request EXCEPT ![c] = Idle]

\* A kill of the daemon ends all requests.
Kill ==
  /\ request' = [c \in Client |-> Idle]
  /\ UNCHANGED <<rows, cut, told>>

VaultsNext ==
  \/ \E g \in Group, v \in Name : UpsertKeyVault(g, v) \/ DeleteKeyVault(g, v)
  \/ \E v \in Name, s \in Leaf :
       \/ \E x \in Value : putSecret(v, s, x)
       \/ \E c \in Client : deleteSecretReads(c, v, s)
  \/ \E c \in Client : deleteSecret(c)
  \/ Kill

-----------------------------------------------------------------------------
(***************************************************************************)
(* Private DNS.  Zones and records belong to a group; the resolver looks   *)
(* at the records of all groups, and never at the zones.                   *)
(***************************************************************************)
UpsertPrivateDNSZone(g, z) ==
  /\ Upsert(DnsZone(g, z), Row)
  /\ ToldUpsert(DnsZone(g, z))
  /\ UNCHANGED request

RecordsOf(g, z) == {DnsRecord(g, z, r) : r \in Relative} \cap DOMAIN rows

DeletePrivateDNSZone(g, z) == DeleteCascading(DnsZone(g, z), RecordsOf(g, z))

UpsertPrivateDNSARecordSet(g, z, r, x) ==
  /\ Exists(DnsZone(g, z))
  /\ Upsert(DnsRecord(g, z, r), x)
  /\ ToldUpsert(DnsRecord(g, z, r))
  /\ UNCHANGED request

DeletePrivateDNSARecordSet(g, z, r) ==
  /\ Exists(DnsRecord(g, z, r))
  /\ Remove({DnsRecord(g, z, r)})
  /\ Told({DnsRecord(g, z, r)}, -1)
  /\ UNCHANGED request

Records == {k \in DOMAIN rows : k[1] = "record"}

\* The full name of a record.
FullName(k) == k[4] \o k[3]

\* Faulty variant: the zones' lengths are not looked at.
ResolveInAnyZone(name) == {k \in Records : FullName(k) = name}

\* The records that may answer for a name: those in the longest zone.  The
\* query's LIMIT 1 takes any of them.
ResolvePrivateDNSARecordSet(name) ==
  LET found == {k \in Records : FullName(k) = name}
  IN  {k \in found : \A j \in found : Len(j[3]) <= Len(k[3])}

DnsNext ==
  \E g \in Group, z \in Zone :
    \/ UpsertPrivateDNSZone(g, z)
    \/ DeletePrivateDNSZone(g, z)
    \/ \E r \in Relative :
         \/ DeletePrivateDNSARecordSet(g, z, r)
         \/ \E x \in Address : UpsertPrivateDNSARecordSet(g, z, r, x)

-----------------------------------------------------------------------------
Next ==
  /\ \/ plane = "blobs" /\ BlobsNext
     \/ plane = "tables" /\ TablesNext
     \/ plane = "config" /\ ConfigNext
     \/ plane = "cosmos" /\ CosmosNext
     \/ plane = "vaults" /\ VaultsNext
     \/ plane = "dns" /\ DnsNext
  /\ UNCHANGED plane

Spec == Init /\ [][Next]_vars
-----------------------------------------------------------------------------
(***************************************************************************)
(* Properties.                                                             *)
(***************************************************************************)
IsParent(p, k) ==
  \/ k[1] = "blob" /\ p = BlobContainer(k[2], k[3])
  \/ k[1] = "entity" /\ p = Table(k[2], k[3])
  \/ k[1] = "value" /\ p = ConfigStore(k[2])
  \/ k[1] = "database" /\ p = CosmosAccount(k[2])
  \/ k[1] = "collection" /\ p = CosmosDatabase(k[2], k[3])
  \/ k[1] = "document" /\ p = CosmosContainer(k[2], k[3], k[4])
  \/ k[1] = "secret" /\ \E g \in Group : p = Vault(g, k[2])
  \/ k[1] = "record" /\ p = DnsZone(k[2], k[3])

Roots == {"container", "account", "table", "store", "cosmos", "vault", "zone"}
Leaves == {"blob", "entity", "value", "document", "secret"}

\* What a row of key k may hold.
Held(k) ==
  IF k[1] = "record" THEN Address ELSE IF k[1] \in Leaves THEN Value ELSE {Row}

\* The type invariant: leaves have values, and what a cut deletion left
\* behind is there.
TypeOK ==
  /\ plane \in Planes
  /\ \A k \in DOMAIN rows : rows[k] \in Held(k)
  /\ \A c \in Client : request[c] = Idle \/ request[c].value \in Value
  /\ cut \subseteq DOMAIN rows
  /\ \A k \in DOMAIN told : told[k] \in Int \ {0}

\* Every blob, entity, value, document, secret and record has its parent,
\* but for those that a deletion cut short has left behind: the checks of
\* the writers and the cascades of the deletions together see to it.
NoOrphans ==
  \A k \in DOMAIN rows \ cut :
    k[1] \in Roots \/ \E p \in DOMAIN rows : IsParent(p, k)

\* What clients were told adds up to what is there: of several creations of
\* a table one is answered with 201, of several deletions of a secret one
\* with 200, for each time that it was made.
AnswersAddUp == told = [k \in DOMAIN rows |-> 1]

\* A row disappears by its own deletion or with its parent: what other
\* accounts, vaults of other names and zones of other groups hold is safe.
LossHasCause ==
  [][LET Lost == DOMAIN rows \ DOMAIN rows'
     IN  Lost # {} =>
           \E p \in Lost : \A k \in Lost \ {p} : IsParent(p, k)]_vars

\* DELETE of a secret answers with the value that it removes, unless the
\* secret was put between its two calls.
DeleteTellsWhatItRemoved ==
  [][\A c \in Client :
       LET r == request[c]
       IN  r # Idle /\ request'[c] = Idle /\ Exists(r.key) /\ r.key \notin DOMAIN rows'
             => r.raced \/ rows[r.key] = r.value]_vars

\* In each group, a name has one answer at most, however zones are nested:
\* the order of the query decides between the zones.
OneAnswer ==
  \A z \in Zone, r \in Relative : \A j, k \in ResolvePrivateDNSARecordSet(r \o z) :
    j[2] = k[2] => j = k
=============================================================================
