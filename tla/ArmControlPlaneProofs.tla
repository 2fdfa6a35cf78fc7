------------------------ MODULE ArmControlPlaneProofs ------------------------
(***************************************************************************)
(* Rule priorities are unique, operation records are never overwritten and *)
(* tell the truth, and a deletion succeeds once, for any number of         *)
(* clients, resources, priorities and requests.                            *)
(***************************************************************************)
EXTENDS ArmControlPlane, FiniteSetTheorems, TLAPS

(***************************************************************************)
(* PrioritiesUnique is not inductive: a new rule differs from the others   *)
(* by its name only because every rule is named by a pair.                 *)
(***************************************************************************)
RulesInv ==
  /\ DOMAIN priority \subseteq Rules
  /\ PrioritiesUnique

\* A new operation gets a new id because those up to the last reading, and
\* no others, are taken.
IdsInv ==
  /\ reading \in Nat
  /\ DOMAIN operations = 1 .. reading

-----------------------------------------------------------------------------
\* Deletions take rules away and change none.
LEMMA DroppedKeepsRules ==
  ASSUME RulesInv, NEW t, Dropped(t)
  PROVE  RulesInv'
BY DEF RulesInv, PrioritiesUnique, Dropped

\* An upsert that its priority check let through keeps priorities apart.
LEMMA PutSecurityRuleKeepsRules ==
  ASSUME RulesInv,
         NEW c \in Client, NEW g \in SecurityGroups, NEW x \in Children, NEW p \in Priorities,
         PutSecurityRule(c, g, x, p)
  PROVE  RulesInv'
<1> DEFINE rule == <<g, x>>
<1>1. /\ DOMAIN priority' = DOMAIN priority \cup {rule}
      /\ \A r \in DOMAIN priority' : priority'[r] = IF r = rule THEN p ELSE priority[r]
  BY DEF PutSecurityRule
<1>2. ASSUME NEW r \in DOMAIN priority, r[1] = g, priority[r] = p
      PROVE  r = rule
  <2>1. r \in Rules
    BY DEF RulesInv
  <2>2. r[2] = x
    BY <1>2 DEF PutSecurityRule, Taken
  <2> QED
    BY <1>2, <2>1, <2>2 DEF Rules
<1>3. rule[1] = g /\ rule \in Rules
  BY DEF Rules
<1>4. ASSUME NEW r \in DOMAIN priority', NEW s \in DOMAIN priority',
             r[1] = s[1], priority'[r] = priority'[s]
      PROVE  r = s
  <2>1. CASE r # rule /\ s # rule
    BY <1>1, <1>4, <2>1 DEF RulesInv, PrioritiesUnique
  <2>2. CASE r = rule \/ s = rule
    BY <1>1, <1>2, <1>3, <1>4, <2>2
  <2> QED
    BY <2>1, <2>2
<1> QED
  BY <1>1, <1>3, <1>4 DEF RulesInv, PrioritiesUnique

-----------------------------------------------------------------------------
LEMMA RulesInvInitially == Init => RulesInv
BY DEF Init, RulesInv, PrioritiesUnique

LEMMA RulesInvPreserved == RulesInv /\ [Next]_vars => RulesInv'
<1> SUFFICES ASSUME RulesInv, [Next]_vars
             PROVE  RulesInv'
  OBVIOUS
<1>1. ASSUME priority' = priority
      PROVE  RulesInv'
  BY <1>1 DEF RulesInv, PrioritiesUnique
<1>2. CASE UNCHANGED vars
  BY <1>1, <1>2 DEF vars
<1>3. ASSUME NEW c \in Client,
             NEW g \in SecurityGroups, NEW x \in Children, NEW p \in Priorities,
             PutSecurityRule(c, g, x, p)
      PROVE  RulesInv'
  BY <1>3, PutSecurityRuleKeepsRules
<1>4. ASSUME NEW c \in Client,
             DeleteResourceGroup(c) \/ RemoveResource(c) \/ FailTorn(c)
      PROVE  RulesInv'
  BY <1>1, <1>4, DroppedKeepsRules DEF DeleteResourceGroup, RemoveResource, FailTorn
<1>5. ASSUME NEW c \in Client,
             \/ PutResourceGroup(c)
             \/ \E t \in Resources : CheckGroup(c, t)
             \/ WriteResource(c)
             \/ \E n \in Networks, x \in Children : PutSubnet(c, n, x)
             \/ \E t \in Resources \cup Nested : GetResource(c, t)
             \/ \E d \in Deployments, template \in Templates : PutDeployment(c, d, template)
             \/ DeployResource(c)
             \/ UpsertDeployment(c)
             \/ CreateOperation(c)
             \/ Fail(c)
      PROVE  RulesInv'
  BY <1>1, <1>5 DEF PutResourceGroup, CheckGroup, WriteResource, PutSubnet, GetResource,
                    PutDeployment, DeployResource, UpsertDeployment, CreateOperation, Fail
<1> QED
  BY <1>2, <1>3, <1>4, <1>5 DEF Next

(***************************************************************************)
(* No two rules of a security group ever have the same priority: the query *)
(* of UpsertNetworkSecurityRule is as good as a constraint of the table,   *)
(* for any number of clients and any failures.                             *)
(***************************************************************************)
THEOREM RulePrioritiesUnique == Spec => []PrioritiesUnique
<1>1. RulesInv => PrioritiesUnique
  BY DEF RulesInv
<1> QED
  BY <1>1, RulesInvInitially, RulesInvPreserved, PTL DEF Spec

-----------------------------------------------------------------------------
LEMMA IdsInvInitially == Init => IdsInv
BY DEF Init, IdsInv

\* The INSERT adds an operation under an id that no other has, or fails.
LEMMA CreateOperationAppends ==
  ASSUME IdsInv, NEW c \in Client, CreateOperation(c)
  PROVE  /\ IdsInv'
         /\ \A i \in DOMAIN operations :
              i \in DOMAIN operations' /\ operations'[i] = operations[i]
<1>1. CASE UNCHANGED <<operations, reading>>
  BY <1>1 DEF IdsInv
<1>2. CASE /\ operations' = [i \in DOMAIN operations \cup {reading + 1} |->
                               IF i = reading + 1 THEN OperationOf(request[c]) ELSE operations[i]]
           /\ reading' = reading + 1
  <2>1. DOMAIN operations' = 1 .. reading'
    BY <1>2 DEF IdsInv
  <2>2. reading + 1 \notin DOMAIN operations
    BY DEF IdsInv
  <2>3. ASSUME NEW i \in DOMAIN operations
        PROVE  i \in DOMAIN operations' /\ operations'[i] = operations[i]
    BY <1>2, <2>2, Zenon
  <2> QED
    BY <1>2, <2>1, <2>3 DEF IdsInv
<1> QED
  BY <1>1, <1>2 DEF CreateOperation

LEMMA IdsInvStep ==
  ASSUME IdsInv, [Next]_vars
  PROVE  /\ IdsInv'
         /\ \A i \in DOMAIN operations :
              i \in DOMAIN operations' /\ operations'[i] = operations[i]
<1>1. CASE UNCHANGED <<operations, reading>>
  BY <1>1 DEF IdsInv
<1>2. ASSUME NEW c \in Client, CreateOperation(c)
      PROVE  /\ IdsInv'
             /\ \A i \in DOMAIN operations :
                  i \in DOMAIN operations' /\ operations'[i] = operations[i]
  BY <1>2, CreateOperationAppends
<1>3. Next => \/ \E c \in Client : CreateOperation(c)
              \/ UNCHANGED <<operations, reading>>
  BY DEF Next, PutResourceGroup, DeleteResourceGroup, CheckGroup, WriteResource, PutSubnet,
         PutSecurityRule, GetResource, RemoveResource, PutDeployment, DeployResource,
         UpsertDeployment, Fail, FailTorn
<1> QED
  BY <1>1, <1>2, <1>3 DEF vars

(***************************************************************************)
(* An operation that a client polls keeps telling it the same: the primary *)
(* key of the operations table refuses ids that collide.                   *)
(***************************************************************************)
THEOREM OperationsAreKept == Spec => OperationsKept
<1>1. IdsInv /\ [Next]_vars => IdsInv'
  BY IdsInvStep
<1>2. IdsInv /\ [Next]_vars =>
        [\A i \in DOMAIN operations :
           i \in DOMAIN operations' /\ operations'[i] = operations[i]]_vars
  BY IdsInvStep
<1> QED
  BY <1>1, <1>2, IdsInvInitially, PTL DEF Spec, OperationsKept

-----------------------------------------------------------------------------
(***************************************************************************)
(* OperationsTruthful speaks of records; what a record will say is in the  *)
(* request behind it, and of a deployment in progress that it has written  *)
(* the resources before the next one and no others.  A template that names *)
(* a resource twice would blur this: what is written for its first mention *)
(* counts for the second, too.                                             *)
(***************************************************************************)
NamedOnce ==
  \A t \in Templates : \A i, j \in DOMAIN t : t[i] = t[j] => i = j

Begun(r) ==
  /\ DOMAIN r = {"step", "target", "template", "next", "did"}
  /\ r.template \in Templates
  /\ r.next \in 1 .. Len(r.template) + 1
  /\ r.did = {r.template[i] : i \in 1 .. r.next - 1}

Sincere(r) ==
  /\ r.step = "record" => Truthful(r.asked, r.did, r.status)
  /\ r.step = "deploy" => Begun(r)

TruthInv ==
  /\ OperationsTruthful
  /\ DOMAIN request = Client
  /\ \A c \in Client : Sincere(request[c])

-----------------------------------------------------------------------------
\* What is done by one store call is done.
LEMMA OneIsAll ==
  ASSUME NEW verb, NEW t
  PROVE  Sincere(Recording(verb, t, <<t>>, {t}, "Succeeded"))
<1> DEFINE done == {i \in DOMAIN <<t>> : <<t>>[i] \in {t}}
<1>1. DOMAIN <<t>> = {1} /\ <<t>>[1] = t
  OBVIOUS
<1>2. done = {1} /\ 1 .. 1 = {1}
  BY <1>1
<1>3. Truthful(<<t>>, {t}, "Succeeded")
  BY <1>1, <1>2 DEF Truthful
<1> QED
  BY <1>3 DEF Sincere, Recording

\* One request changes, and records stay.
LEMMA Becoming ==
  ASSUME TruthInv, NEW c \in Client, NEW r, Becomes(c, r), Sincere(r),
         UNCHANGED <<operations, deployment>>
  PROVE  TruthInv'
BY DEF TruthInv, Becomes, OperationsTruthful

LEMMA Truth ==
  ASSUME NamedOnce, NEW r, Begun(r)
  PROVE  Truthful(r.template, r.did, Outcome(r))
<1> DEFINE t == r.template
           done == {i \in DOMAIN t : t[i] \in r.did}
<1>1. DOMAIN t = 1 .. Len(t) /\ Len(t) \in Nat /\ r.next \in 1 .. Len(t) + 1
  BY ArmAssumption DEF NamedOnce, Begun
<1>2. \A i, j \in DOMAIN t : t[i] = t[j] => i = j
  BY ArmAssumption DEF NamedOnce, Begun
<1>3. done = 1 .. r.next - 1
  <2>1. ASSUME NEW i \in done
        PROVE  i \in 1 .. r.next - 1
    <3>1. PICK j \in 1 .. r.next - 1 : t[i] = t[j]
      BY DEF Begun
    <3>2. i \in DOMAIN t /\ j \in DOMAIN t
      BY <1>1
    <3> QED
      BY <1>2, <3>1, <3>2
  <2>2. ASSUME NEW i \in 1 .. r.next - 1
        PROVE  i \in done
    BY <1>1 DEF Begun
  <2> QED
    BY <2>1, <2>2
<1>4. Outcome(r) = "Succeeded" <=> r.next > Len(t)
  BY DEF Outcome
<1>5. done = DOMAIN t <=> r.next > Len(t)
  BY <1>1, <1>3
<1>6. \A i \in done : 1 .. i \subseteq done
  BY <1>1, <1>3
<1> QED
  BY <1>4, <1>5, <1>6 DEF Truthful

LEMMA TruthInvInitially == Init => TruthInv
<1>1. Sincere(Idle)
  BY DEF Sincere, Idle
<1> QED
  BY <1>1 DEF Init, TruthInv, OperationsTruthful

LEMMA DeployingStaysSincere ==
  ASSUME TruthInv, NamedOnce, NEW c \in Client, DeployResource(c)
  PROVE  TruthInv'
<1> DEFINE r == request[c]
           t == r.template[r.next]
           s == [r EXCEPT !.next = @ + 1, !.did = @ \cup {t}]
<1>1. Begun(r) /\ r.next <= Len(r.template)
  BY DEF TruthInv, Sincere, DeployResource
<1>2. /\ DOMAIN s = DOMAIN r /\ s.step = r.step /\ s.template = r.template
      /\ s.next = r.next + 1 /\ s.did = r.did \cup {t}
  BY <1>1 DEF Begun
<1>3. r.next \in Nat \ {0} /\ Len(r.template) \in Nat
  BY <1>1, ArmAssumption DEF Begun
<1>4. {r.template[i] : i \in 1 .. r.next} = {r.template[i] : i \in 1 .. r.next - 1} \cup {t}
  <2>1. 1 .. r.next = (1 .. r.next - 1) \cup {r.next}
    BY <1>3
  <2> QED
    BY <2>1
<1>5. Begun(s)
  <2>1. s.next - 1 = r.next /\ s.next \in 1 .. Len(s.template) + 1
    BY <1>1, <1>2, <1>3
  <2>2. s.did = {s.template[i] : i \in 1 .. s.next - 1}
    BY <1>1, <1>2, <1>4, <2>1 DEF Begun
  <2>3. s.template \in Templates
    BY <1>1, <1>2 DEF Begun
  <2>4. DOMAIN s = {"step", "target", "template", "next", "did"}
    BY <1>1, <1>2 DEF Begun
  <2> HIDE DEF s
  <2> QED
    BY <2>1, <2>2, <2>3, <2>4 DEF Begun
<1>6. Sincere(s)
  <2>1. s.step = "deploy"
    BY <1>2 DEF DeployResource
  <2> HIDE DEF s
  <2> QED
    BY <1>5, <2>1 DEF Sincere
<1> QED
  BY <1>6, Becoming DEF DeployResource

LEMMA DeploymentTellsTruth ==
  ASSUME TruthInv, NamedOnce, NEW c \in Client, UpsertDeployment(c)
  PROVE  TruthInv'
<1> DEFINE r == request[c]
           s == Recording("write", r.target, r.template, r.did, Outcome(r))
<1>1. Truthful(r.template, r.did, Outcome(r))
  BY Truth DEF TruthInv, Sincere, UpsertDeployment
<1>2. Sincere(s)
  BY <1>1 DEF Sincere, Recording
<1>3. \A d \in DOMAIN deployment' :
        Truthful(deployment'[d].template, deployment'[d].did, deployment'[d].state)
  BY <1>1 DEF UpsertDeployment, TruthInv, OperationsTruthful
<1>4. Becomes(c, s) /\ operations' = operations
  BY DEF UpsertDeployment
<1>5. DOMAIN request' = Client /\ \A k \in Client : Sincere(request'[k])
  BY <1>2, <1>4 DEF Becomes, TruthInv
<1> QED
  BY <1>3, <1>4, <1>5 DEF TruthInv, OperationsTruthful

LEMMA RecordTellsTruth ==
  ASSUME TruthInv, NEW c \in Client, CreateOperation(c)
  PROVE  TruthInv'
<1> DEFINE o == OperationOf(request[c])
<1>1. Truthful(o.asked, o.did, o.status)
  BY DEF TruthInv, Sincere, CreateOperation, OperationOf
<1>2. \A i \in DOMAIN operations' :
        Truthful(operations'[i].asked, operations'[i].did, operations'[i].status)
  BY <1>1 DEF CreateOperation, TruthInv, OperationsTruthful
<1>3. DOMAIN request' = Client /\ \A k \in Client : Sincere(request'[k])
  BY DEF CreateOperation, Becomes, Idle, Sincere, TruthInv
<1> QED
  BY <1>2, <1>3 DEF TruthInv, OperationsTruthful, CreateOperation

LEMMA TruthInvStep ==
  ASSUME TruthInv, NamedOnce, [Next]_vars
  PROVE  TruthInv'
<1>1. ASSUME UNCHANGED <<operations, deployment, request>>
      PROVE  TruthInv'
  BY <1>1 DEF TruthInv, OperationsTruthful
<1>2. CASE UNCHANGED vars
  BY <1>1, <1>2 DEF vars
<1>3. ASSUME NEW c \in Client, Fail(c) \/ FailTorn(c)
      PROVE  TruthInv'
  <2>1. Sincere(Idle)
    BY DEF Sincere, Idle
  <2> QED
    BY <1>3, <2>1, Becoming DEF Fail, FailTorn
<1>4. ASSUME NEW c \in Client, DeleteResourceGroup(c)
      PROVE  TruthInv'
  BY <1>4, OneIsAll, Becoming DEF DeleteResourceGroup
<1>5. ASSUME NEW c \in Client, NEW t, CheckGroup(c, t) \/ GetResource(c, t)
      PROVE  TruthInv'
  <2>1. PICK r : Becomes(c, r) /\ r.step \in {"write", "remove"}
    BY <1>5 DEF CheckGroup, GetResource
  <2>2. Sincere(r)
    BY <2>1 DEF Sincere
  <2> QED
    BY <1>5, <2>1, <2>2, Becoming DEF CheckGroup, GetResource
<1>6. ASSUME NEW c \in Client, WriteResource(c)
      PROVE  TruthInv'
  BY <1>6, OneIsAll, Becoming DEF WriteResource
<1>7. ASSUME NEW c \in Client, NEW n, NEW x, PutSubnet(c, n, x)
      PROVE  TruthInv'
  BY <1>7, OneIsAll, Becoming DEF PutSubnet
<1>8. ASSUME NEW c \in Client, NEW g, NEW x, NEW p, PutSecurityRule(c, g, x, p)
      PROVE  TruthInv'
  BY <1>8, OneIsAll, Becoming DEF PutSecurityRule
<1>9. ASSUME NEW c \in Client, RemoveResource(c)
      PROVE  TruthInv'
  <2>1. Sincere(Idle)
    BY DEF Sincere, Idle
  <2> QED
    BY <1>9, <2>1, OneIsAll, Becoming DEF RemoveResource
<1>10. ASSUME NEW c \in Client, NEW d, NEW template \in Templates,
              PutDeployment(c, d, template)
       PROVE  TruthInv'
  <2> DEFINE r == [step |-> "deploy", target |-> d, template |-> template,
                   next |-> 1, did |-> {}]
  <2>1. Len(template) \in Nat
    BY ArmAssumption
  <2>2. {template[i] : i \in 1 .. 1 - 1} = {}
    OBVIOUS
  <2>3. Begun(r)
    BY <2>1, <2>2 DEF Begun
  <2>4. Sincere(r)
    BY <2>3 DEF Sincere
  <2>5. Becomes(c, r) /\ UNCHANGED <<operations, deployment>>
    BY <1>10 DEF PutDeployment
  <2> QED
    BY <2>4, <2>5, Becoming
<1> QED
  BY <1>1, <1>2, <1>3, <1>4, <1>5, <1>6, <1>7, <1>8, <1>9, <1>10,
     DeployingStaysSincere, DeploymentTellsTruth, RecordTellsTruth
  DEF Next, PutResourceGroup

(***************************************************************************)
(* An operation, and a deployment, says Succeeded just if all was done,    *)
(* and Failed of a deployment if a proper prefix was: the order of the     *)
(* store calls in the handlers and the status that they pass on, for any   *)
(* number of clients and for templates that name a resource once.          *)
(***************************************************************************)
THEOREM OperationsTellTruth ==
  ASSUME NamedOnce
  PROVE  Spec => []OperationsTruthful
<1>1. TruthInv /\ [Next]_vars => TruthInv'
  BY TruthInvStep
<1>2. TruthInv => OperationsTruthful
  BY DEF TruthInv
<1> QED
  BY <1>1, <1>2, TruthInvInitially, PTL DEF Spec

-----------------------------------------------------------------------------
(***************************************************************************)
(* DeletedOnce counts rows and claims.  Every step keeps the books: it     *)
(* turns a row into a claim, a claim in progress into one on record, or    *)
(* drops either; a row comes only with a creation.                         *)
(***************************************************************************)
Claiming(r, t) == r.step = "record" /\ r.verb = "delete" /\ r.target = t

Recorded(t) ==
  {i \in DOMAIN operations : operations[i].verb = "delete" /\ operations[i].target = t}

Deleting(t) == {c \in Client : Claiming(request[c], t)}

Held(t) == IF t \in rows THEN 1 ELSE 0

Balanced(t) ==
  /\ IsFiniteSet(Recorded(t)) /\ IsFiniteSet(Deleting(t)) /\ created[t] \in Nat
  /\ Cardinality(Recorded(t)) + Cardinality(Deleting(t)) + Held(t) <= created[t]

ClaimsInv ==
  /\ IdsInv
  /\ DOMAIN created = Target /\ DOMAIN request = Client
  /\ \A t \in Target : Balanced(t)

-----------------------------------------------------------------------------
LEMMA ClaimsInvGives == ClaimsInv => DeletedOnce
<1> SUFFICES ASSUME ClaimsInv, NEW t \in Target
             PROVE  Claims(t) + Cardinality(rows \cap {t}) <= created[t]
  BY DEF DeletedOnce
<1>1. Cardinality(rows \cap {t}) = Held(t)
  <2>1. rows \cap {t} = IF t \in rows THEN {t} ELSE {}
    OBVIOUS
  <2> QED
    BY <2>1, FS_Singleton, FS_EmptySet DEF Held
<1>2. Claims(t) = Cardinality(Recorded(t)) + Cardinality(Deleting(t))
  BY DEF Claims, Recorded, Deleting, Claiming
<1> QED
  BY <1>1, <1>2 DEF ClaimsInv, Balanced

LEMMA ClaimsInvInitially == Init => ClaimsInv
<1> SUFFICES ASSUME Init
             PROVE  ClaimsInv
  OBVIOUS
<1>1. ASSUME NEW t \in Target
      PROVE  Balanced(t)
  <2>1. Recorded(t) = {}
    BY DEF Init, Recorded
  <2>2. Deleting(t) = {}
    BY DEF Init, Deleting, Claiming, Idle
  <2>3. Held(t) = 0 /\ created[t] = 0
    BY DEF Init, Held
  <2> QED
    BY <2>1, <2>2, <2>3, FS_EmptySet DEF Balanced
<1>2. DOMAIN created = Target /\ DOMAIN request = Client
  BY DEF Init
<1> QED
  BY <1>1, <1>2, IdsInvInitially DEF ClaimsInv

\* Claims that do not grow, with rows that do not either.
LEMMA FewerClaims ==
  ASSUME ClaimsInv, NEW t \in Target,
         Recorded(t)' = Recorded(t), Deleting(t)' \subseteq Deleting(t),
         t \in rows' => t \in rows, created' = created
  PROVE  Balanced(t)'
<1>1. /\ IsFiniteSet(Deleting(t)') /\ Cardinality(Deleting(t)') <= Cardinality(Deleting(t))
      /\ Cardinality(Deleting(t)) \in Nat /\ Cardinality(Deleting(t)') \in Nat
      /\ Cardinality(Recorded(t)) \in Nat
  BY FS_Subset, FS_CardinalityType DEF ClaimsInv, Balanced
<1>2. Held(t)' <= Held(t) /\ Held(t) \in 0 .. 1 /\ Held(t)' \in 0 .. 1
  BY DEF Held
<1> QED
  BY <1>1, <1>2 DEF ClaimsInv, Balanced

\* A row turns into a claim.
LEMMA RowToClaim ==
  ASSUME ClaimsInv, NEW t \in Target, NEW c \in Client,
         Recorded(t)' = Recorded(t), c \notin Deleting(t),
         Deleting(t)' = Deleting(t) \cup {c},
         t \in rows, t \notin rows', created' = created
  PROVE  Balanced(t)'
<1>1. /\ IsFiniteSet(Deleting(t)') /\ Cardinality(Deleting(t)') = Cardinality(Deleting(t)) + 1
      /\ Cardinality(Deleting(t)) \in Nat /\ Cardinality(Recorded(t)) \in Nat
  BY FS_AddElement, FS_CardinalityType DEF ClaimsInv, Balanced
<1>2. Held(t)' = 0 /\ Held(t) = 1
  BY DEF Held
<1> QED
  BY <1>1, <1>2 DEF ClaimsInv, Balanced

\* A row comes with its creation.
LEMMA Creation ==
  ASSUME ClaimsInv, NEW t \in Target, NEW u, Upserted(u),
         Recorded(t)' = Recorded(t), Deleting(t)' = Deleting(t)
  PROVE  Balanced(t)'
<1>1. /\ Cardinality(Deleting(t)) \in Nat /\ Cardinality(Recorded(t)) \in Nat
      /\ created[t] \in Nat
      /\ Cardinality(Recorded(t)) + Cardinality(Deleting(t)) + Held(t) <= created[t]
  BY FS_CardinalityType DEF ClaimsInv, Balanced
<1>2. \/ created'[t] = created[t] /\ Held(t)' = Held(t)
      \/ created'[t] = created[t] + 1 /\ Held(t)' = 1 /\ Held(t) = 0
  BY DEF Upserted, Held, ClaimsInv
<1>3. Held(t) \in 0 .. 1
  BY DEF Held
<1>4. /\ created'[t] \in Nat
      /\ Cardinality(Recorded(t)) + Cardinality(Deleting(t)) + Held(t)' <= created'[t]
  BY <1>1, <1>2, <1>3
<1> QED
  BY <1>4 DEF ClaimsInv, Balanced

\* A claim in progress is recorded.
LEMMA ClaimToRecord ==
  ASSUME ClaimsInv, NEW t \in Target, NEW c \in Client, NEW id, id \notin Recorded(t),
         c \in Deleting(t), Recorded(t)' = Recorded(t) \cup {id},
         Deleting(t)' = Deleting(t) \ {c}, rows' = rows, created' = created
  PROVE  Balanced(t)'
<1>1. /\ IsFiniteSet(Deleting(t)') /\ Cardinality(Deleting(t)') = Cardinality(Deleting(t)) - 1
      /\ IsFiniteSet(Recorded(t)') /\ Cardinality(Recorded(t)') = Cardinality(Recorded(t)) + 1
      /\ Cardinality(Deleting(t)) \in Nat /\ Cardinality(Recorded(t)) \in Nat
  BY FS_AddElement, FS_RemoveElement, FS_CardinalityType DEF ClaimsInv, Balanced
<1>2. Held(t)' = Held(t) /\ Held(t) \in 0 .. 1
  BY DEF Held
<1> QED
  BY <1>1, <1>2 DEF ClaimsInv, Balanced

-----------------------------------------------------------------------------
\* How a change of one request changes the claims in progress.
LEMMA Claimants ==
  ASSUME ClaimsInv, NEW c \in Client, NEW r, Becomes(c, r), NEW t
  PROVE  /\ DOMAIN request' = Client
         /\ Claiming(r, t) => Deleting(t)' = Deleting(t) \cup {c}
         /\ ~Claiming(r, t) => Deleting(t)' = Deleting(t) \ {c}
<1>1. /\ DOMAIN request' = Client
      /\ \A k \in Client : request'[k] = IF k = c THEN r ELSE request[k]
  BY DEF Becomes, ClaimsInv
<1>2. Deleting(t)' = {k \in Client : Claiming(request'[k], t)}
  BY DEF Deleting, Claiming
<1> QED
  BY <1>1, <1>2 DEF Deleting

\* A request that neither was a claim nor is one.
LEMMA OtherRequests ==
  ASSUME ClaimsInv, NEW c \in Client, NEW r, Becomes(c, r), NEW t,
         ~Claiming(request[c], t), ~Claiming(r, t)
  PROVE  Deleting(t)' = Deleting(t)
BY Claimants DEF Deleting

LEMMA SameRecords ==
  ASSUME operations' = operations, NEW t
  PROVE  Recorded(t)' = Recorded(t)
BY DEF Recorded

\* PUTs.
LEMMA UpsertBalances ==
  ASSUME ClaimsInv, NEW u, Upserted(u), UNCHANGED <<operations, reading>>,
         \/ request' = request
         \/ \E c \in Client : \E r :
              /\ Becomes(c, r)
              /\ request[c].step # "record"
              /\ r.step # "record" \/ r.verb # "delete"
  PROVE  ClaimsInv'
<1>1. \A t \in Target : Deleting(t)' = Deleting(t)
  <2>1. CASE request' = request
    BY <2>1 DEF Deleting, Claiming
  <2>2. ASSUME NEW c \in Client, NEW r, Becomes(c, r), request[c].step # "record",
               r.step # "record" \/ r.verb # "delete"
        PROVE  \A t \in Target : Deleting(t)' = Deleting(t)
    <3>1. \A t \in Target : ~Claiming(request[c], t) /\ ~Claiming(r, t)
      BY <2>2 DEF Claiming
    <3> QED
      BY <2>2, <3>1, OtherRequests
  <2> QED
    BY <2>1, <2>2
<1>2. \A t \in Target : Balanced(t)'
  BY <1>1, Creation, SameRecords
<1>3. DOMAIN request' = Client
  BY DEF Becomes, ClaimsInv
<1>4. DOMAIN created' = Target
  BY DEF Upserted, ClaimsInv
<1> QED
  BY <1>2, <1>3, <1>4 DEF ClaimsInv, IdsInv

\* Steps that create nothing and claim nothing.
LEMMA OtherwiseBalanced ==
  ASSUME ClaimsInv, UNCHANGED <<operations, reading, created>>, rows' \subseteq rows,
         NEW c \in Client, NEW r, Becomes(c, r), r.step # "record"
  PROVE  ClaimsInv'
<1>1. ASSUME NEW t \in Target
      PROVE  Balanced(t)'
  <2>1. ~Claiming(r, t)
    BY DEF Claiming
  <2>2. Deleting(t)' \subseteq Deleting(t)
    BY <2>1, Claimants
  <2> QED
    BY <2>2, FewerClaims, SameRecords
<1>2. DOMAIN request' = Client
  BY DEF Becomes, ClaimsInv
<1> QED
  BY <1>1, <1>2 DEF ClaimsInv, IdsInv

\* DELETEs.
LEMMA RemovalBalances ==
  ASSUME ClaimsInv, NEW c \in Client, NEW u, NEW gone, u \in rows, u \in gone,
         Dropped(gone), request[c].step # "record",
         Becomes(c, Recording("delete", u, <<u>>, {u}, "Succeeded")),
         UNCHANGED <<operations, reading>>
  PROVE  ClaimsInv'
<1> DEFINE r == Recording("delete", u, <<u>>, {u}, "Succeeded")
<1>1. r.step = "record" /\ r.verb = "delete" /\ r.target = u
  BY DEF Recording
<1>2. created' = created /\ rows' = rows \ gone
  BY DEF Dropped
<1>3. ASSUME NEW t \in Target
      PROVE  Balanced(t)'
  <2>1. ~Claiming(request[c], t) /\ (Claiming(r, t) <=> t = u)
    BY <1>1 DEF Claiming
  <2>2. c \notin Deleting(t)
    BY <2>1 DEF Deleting
  <2> HIDE DEF r
  <2>3. CASE t = u
    <3>1. Deleting(t)' = Deleting(t) \cup {c}
      BY <2>1, <2>3, Claimants DEF r
    <3>2. t \in rows /\ t \notin rows'
      BY <1>2, <2>3
    <3> QED
      BY <1>2, <2>2, <3>1, <3>2, RowToClaim, SameRecords
  <2>4. CASE t # u
    <3>1. Deleting(t)' = Deleting(t)
      BY <2>1, <2>4, OtherRequests DEF r
    <3> QED
      BY <1>2, <3>1, FewerClaims, SameRecords
  <2> QED
    BY <2>3, <2>4
<1>4. DOMAIN request' = Client
  BY DEF Becomes, ClaimsInv
<1> QED
  BY <1>2, <1>3, <1>4 DEF ClaimsInv, IdsInv

LEMMA RecordBalances ==
  ASSUME ClaimsInv, NEW c \in Client, CreateOperation(c)
  PROVE  ClaimsInv'
<1> DEFINE id == reading + 1
           r == request[c]
<1>1. IdsInv' /\ DOMAIN request' = Client /\ rows' = rows /\ created' = created
  BY CreateOperationAppends DEF ClaimsInv, CreateOperation, Becomes
<1>2. ASSUME NEW t \in Target
      PROVE  Balanced(t)'
  <2>1. ~Claiming(Idle, t)
    BY DEF Claiming, Idle
  <2>2. Deleting(t)' = Deleting(t) \ {c}
    BY <2>1, Claimants DEF CreateOperation
  <2>3. CASE UNCHANGED <<operations, reading>>
    BY <1>1, <2>2, <2>3, FewerClaims, SameRecords
  <2>4. CASE operations' = [i \in DOMAIN operations \cup {id} |->
                              IF i = id THEN OperationOf(r) ELSE operations[i]]
    <3>1. id \notin DOMAIN operations
      BY DEF ClaimsInv, IdsInv
    <3>2. Claiming(r, t) <=> OperationOf(r).verb = "delete" /\ OperationOf(r).target = t
      BY DEF Claiming, OperationOf, CreateOperation
    <3>3. Recorded(t)' = {i \in DOMAIN operations' :
                            operations'[i].verb = "delete" /\ operations'[i].target = t}
      BY DEF Recorded
    <3> HIDE DEF id, r
    <3>4. /\ DOMAIN operations' = DOMAIN operations \cup {id}
          /\ operations'[id] = OperationOf(r)
          /\ \A i \in DOMAIN operations : operations'[i] = operations[i]
      BY <2>4, <3>1
    <3>5. CASE Claiming(r, t)
      <4>1. Recorded(t)' = Recorded(t) \cup {id} /\ id \notin Recorded(t)
        BY <3>1, <3>2, <3>3, <3>4, <3>5 DEF Recorded
      <4>2. c \in Deleting(t)
        BY <3>5 DEF r, Deleting
      <4> QED
        BY <1>1, <2>2, <4>1, <4>2, ClaimToRecord
    <3>6. CASE ~Claiming(r, t)
      <4>1. Recorded(t)' = Recorded(t)
        BY <3>2, <3>3, <3>4, <3>6 DEF Recorded
      <4> QED
        BY <1>1, <2>2, <4>1, FewerClaims
    <3> QED
      BY <3>5, <3>6
  <2> QED
    BY <2>3, <2>4 DEF CreateOperation
<1> QED
  BY <1>1, <1>2 DEF ClaimsInv

\* A request always says at which step it is.
StepsInv ==
  /\ DOMAIN request = Client
  /\ \A c \in Client : "step" \in DOMAIN request[c]

LEMMA StepsInvHolds == (Init => StepsInv) /\ (StepsInv /\ [Next]_vars => StepsInv')
<1>1. Init => StepsInv
  BY DEF Init, StepsInv, Idle
<1>2. ASSUME StepsInv, NEW c \in Client, NEW r, Becomes(c, r), "step" \in DOMAIN r
      PROVE  StepsInv'
  BY <1>2 DEF StepsInv, Becomes
<1>3. ASSUME NEW verb, NEW t, NEW asked, NEW did, NEW status
      PROVE  "step" \in DOMAIN Recording(verb, t, asked, did, status)
  BY DEF Recording
<1>4. ASSUME StepsInv, request' = request
      PROVE  StepsInv'
  BY <1>4 DEF StepsInv
<1>5. ASSUME StepsInv, NEW c \in Client, DeployResource(c)
      PROVE  StepsInv'
  <2> DEFINE t == request[c].template[request[c].next]
             r == [request[c] EXCEPT !.next = @ + 1, !.did = @ \cup {t}]
  <2>1. DOMAIN r = DOMAIN request[c]
    OBVIOUS
  <2>2. Becomes(c, r)
    BY <1>5 DEF DeployResource
  <2>3. "step" \in DOMAIN r
    BY <1>5, <2>1 DEF StepsInv
  <2> HIDE DEF r
  <2> QED
    BY <1>2, <1>5, <2>2, <2>3
<1>6. StepsInv /\ Next => StepsInv'
  BY <1>2, <1>3, <1>4, <1>5
  DEF Next, PutResourceGroup, DeleteResourceGroup, CheckGroup, WriteResource, PutSubnet,
      PutSecurityRule, GetResource, RemoveResource, PutDeployment, UpsertDeployment,
      CreateOperation, Fail, FailTorn, Idle
<1> QED
  BY <1>1, <1>4, <1>6 DEF vars

LEMMA ClaimsInvStep ==
  ASSUME ClaimsInv, StepsInv, [Next]_vars
  PROVE  ClaimsInv'
<1>1. CASE UNCHANGED vars
  BY <1>1 DEF vars, ClaimsInv, IdsInv, Balanced, Recorded, Deleting, Claiming, Held
<1>2. ASSUME NEW c \in Client, PutResourceGroup(c)
      PROVE  ClaimsInv'
  BY <1>2, UpsertBalances DEF PutResourceGroup
<1>3. ASSUME NEW c \in Client, DeleteResourceGroup(c)
      PROVE  ClaimsInv'
  <2>1. request[c].step # "record"
    BY <1>3 DEF DeleteResourceGroup, Arrives, Idle
  <2> QED
    BY <1>3, <2>1, RemovalBalances DEF DeleteResourceGroup
<1>4. ASSUME NEW c \in Client, NEW t, CheckGroup(c, t) \/ GetResource(c, t)
      PROVE  ClaimsInv'
  <2>1. PICK r : Becomes(c, r) /\ r.step # "record"
    BY <1>4 DEF CheckGroup, GetResource
  <2> QED
    BY <1>4, <2>1, OtherwiseBalanced DEF CheckGroup, GetResource
<1>5. ASSUME NEW c \in Client, NEW d, NEW template, PutDeployment(c, d, template)
      PROVE  ClaimsInv'
  <2>1. PICK r : Becomes(c, r) /\ r.step # "record"
    BY <1>5 DEF PutDeployment
  <2> QED
    BY <1>5, <2>1, OtherwiseBalanced DEF PutDeployment
<1>6. ASSUME NEW c \in Client, Fail(c) \/ FailTorn(c)
      PROVE  ClaimsInv'
  <2>1. Idle.step # "record"
    BY DEF Idle
  <2> QED
    BY <1>6, <2>1, OtherwiseBalanced DEF Fail, FailTorn, Dropped
<1>7. ASSUME NEW c \in Client, NEW t, NEW r,
             Upserted(t), Becomes(c, r), request[c].step # "record",
             r.step # "record" \/ r.verb # "delete", UNCHANGED <<operations, reading>>
      PROVE  ClaimsInv'
  BY <1>7, UpsertBalances
<1>8. ASSUME NEW t, NEW asked, NEW did, NEW status
      PROVE  Recording("write", t, asked, did, status).verb # "delete"
  BY DEF Recording
<1>9. ASSUME NEW c \in Client, WriteResource(c) \/ UpsertDeployment(c)
      PROVE  ClaimsInv'
  BY <1>7, <1>8, <1>9 DEF WriteResource, UpsertDeployment
<1>10. ASSUME NEW c \in Client, NEW n, NEW x, NEW p,
              PutSubnet(c, n, x) \/ PutSecurityRule(c, n, x, p)
       PROVE  ClaimsInv'
  <2>1. request[c].step # "record"
    BY <1>10 DEF PutSubnet, PutSecurityRule, Arrives, Idle
  <2> QED
    BY <1>7, <1>8, <1>10, <2>1 DEF PutSubnet, PutSecurityRule
<1>11. ASSUME NEW c \in Client, DeployResource(c)
       PROVE  ClaimsInv'
  <2>1. PICK r : /\ Becomes(c, r)
                  /\ "step" \in DOMAIN request[c] => r.step = request[c].step
    BY <1>11 DEF DeployResource
  <2> QED
    BY <1>7, <1>11, <2>1 DEF DeployResource, StepsInv
<1>12. ASSUME NEW c \in Client, RemoveResource(c)
       PROVE  ClaimsInv'
  <2>1. CASE request[c].target \in rows
    <3>1. request[c].target \in Gone(request[c].target)
      BY DEF Gone
    <3> QED
      BY <1>12, <2>1, <3>1, RemovalBalances DEF RemoveResource
  <2>2. CASE request[c].target \notin rows
    <3>1. Idle.step # "record"
      BY DEF Idle
    <3> QED
      BY <1>12, <2>2, <3>1, OtherwiseBalanced DEF RemoveResource
  <2> QED
    BY <2>1, <2>2
<1> QED
  BY <1>1, <1>2, <1>3, <1>4, <1>5, <1>6, <1>9, <1>10, <1>11, <1>12, RecordBalances DEF Next

(***************************************************************************)
(* Of concurrent deletions of a resource one succeeds: the count of        *)
(* deleted rows that the handlers take from the store is enough, for any   *)
(* number of clients and any failures.                                     *)
(***************************************************************************)
THEOREM DeletionsSucceedOnce == Spec => []DeletedOnce
<1>1. ClaimsInv /\ StepsInv /\ [Next]_vars => ClaimsInv'
  BY ClaimsInvStep
<1> QED
  BY <1>1, StepsInvHolds, ClaimsInvInitially, ClaimsInvGives, PTL DEF Spec


-----------------------------------------------------------------------------
(***************************************************************************)
(* Types.  That priorities belong to rules and outcomes to deployments is  *)
(* due to names of different tables being different.                       *)
(***************************************************************************)
RulesTyped ==
  /\ DOMAIN priority = rows \cap Rules
  /\ \A r \in DOMAIN priority : priority[r] \in 100 .. 4096

DeploymentsTyped ==
  /\ DOMAIN deployment = rows \cap Deployments
  /\ \A d \in DOMAIN deployment :
       deployment[d] \in [template : Templates, did : SUBSET Target, state : Outcomes]

OperationsTyped ==
  /\ reading \in Nat /\ DOMAIN operations = 1 .. reading
  /\ \A i \in DOMAIN operations : operations[i] \in Operation

RequestsTyped ==
  /\ DOMAIN request = Client
  /\ \A c \in Client : request[c] \in Request

TypesInv ==
  /\ rows \subseteq Target /\ created \in [Target -> Nat] /\ made \in 0 .. MaxRequest
  /\ RulesTyped /\ DeploymentsTyped /\ OperationsTyped /\ RequestsTyped

\* What a request will be is of a request's form.
LEMMA RecordingTyped ==
  ASSUME NEW verb \in {"write", "delete"}, NEW t \in Target, NEW asked \in Asked,
         NEW did \in SUBSET Target, NEW status \in Outcomes
  PROVE  Recording(verb, t, asked, did, status) \in Request
BY DEF Recording, Request

LEMMA OneAsked ==
  ASSUME NEW t \in Target
  PROVE  <<t>> \in Asked
BY DEF Asked

LEMMA TemplateAsked ==
  ASSUME NEW template \in Templates
  PROVE  template \in Asked
<1> DEFINE S == {template[i] : i \in DOMAIN template}
           T == Target \cup UNION {{t[i] : i \in DOMAIN t} : t \in Templates}
<1>1. template \in Seq(S)
  BY ArmAssumption
<1>2. S \subseteq T
  OBVIOUS
<1> HIDE DEF S, T
<1>3. template \in Seq(T)
  BY <1>1, <1>2
<1> QED
  BY <1>3 DEF Asked, T

\* The fields of a request, by its step.
LEMMA Fields ==
  ASSUME NEW r \in Request
  PROVE  /\ r.step = "write" => r.target \in Resources
         /\ r.step = "remove" => r.target \in Resources \cup Nested
         /\ r.step = "deploy" => r \in [step : {"deploy"}, target : Deployments,
                template : Templates, next : Nat \ {0}, did : SUBSET Target]
         /\ r.step = "record" => r \in [step : {"record"}, verb : {"write", "delete"},
                target : Target, asked : Asked, did : SUBSET Target, status : Outcomes]
BY DEF Request, Idle

\* What is not touched stays typed.
LEMMA Frames ==
  ASSUME TypesInv
  PROVE  /\ UNCHANGED priority /\ rows' \cap Rules = rows \cap Rules => RulesTyped'
         /\ UNCHANGED deployment /\ rows' \cap Deployments = rows \cap Deployments
              => DeploymentsTyped'
         /\ UNCHANGED <<operations, reading>> => OperationsTyped'
         /\ UNCHANGED request => RequestsTyped'
<1>1. UNCHANGED priority /\ rows' \cap Rules = rows \cap Rules => RulesTyped'
  BY DEF TypesInv, RulesTyped
<1>2. UNCHANGED deployment /\ rows' \cap Deployments = rows \cap Deployments
        => DeploymentsTyped'
  BY DEF TypesInv, DeploymentsTyped
<1>3. UNCHANGED <<operations, reading>> => OperationsTyped'
  BY DEF TypesInv, OperationsTyped
<1>4. UNCHANGED request => RequestsTyped'
  BY DEF TypesInv, RequestsTyped
<1> QED
  BY <1>1, <1>2, <1>3, <1>4

\* A row more, of no rule and no deployment.
LEMMA UpsertTyped ==
  ASSUME TypesInv, NEW t \in Target, Upserted(t)
  PROVE  /\ rows' \subseteq Target
         /\ created' \in [Target -> Nat]
         /\ t \notin Rules => rows' \cap Rules = rows \cap Rules
         /\ t \notin Deployments => rows' \cap Deployments = rows \cap Deployments
BY DEF TypesInv, Upserted

LEMMA RequestTyped ==
  ASSUME TypesInv, NEW c \in Client, NEW r \in Request, Becomes(c, r)
  PROVE  RequestsTyped'
BY DEF TypesInv, RequestsTyped, Becomes

LEMMA MadeTyped ==
  ASSUME TypesInv, NEW c \in Client, Arrives(c)
  PROVE  made' \in 0 .. MaxRequest
BY ArmAssumption DEF TypesInv, Arrives

LEMMA NamesApart ==
  /\ Group \notin Rules /\ Group \notin Deployments
  /\ Resources \cap Rules = {} /\ Resources \cap Deployments = {}
  /\ Rules \subseteq Nested /\ Nested \cap Deployments = {}
  /\ (Networks \X Children) \cap Rules = {}
  /\ Rules \cap Deployments = {}
BY ArmAssumption DEF Rules, Nested, Parents

\* Deletions.
LEMMA DroppedTyped ==
  ASSUME TypesInv, NEW t, t \cap Deployments = {}, Dropped(t)
  PROVE  /\ rows' \subseteq Target
         /\ created' \in [Target -> Nat]
         /\ RulesTyped'
         /\ rows' \cap Deployments = rows \cap Deployments
<1>1. DOMAIN priority' = rows' \cap Rules
  BY DEF TypesInv, RulesTyped, Dropped
<1>2. \A r \in DOMAIN priority' : priority'[r] = priority[r] /\ r \in DOMAIN priority
  BY DEF Dropped
<1>3. RulesTyped'
  BY <1>1, <1>2 DEF TypesInv, RulesTyped
<1> QED
  BY <1>3 DEF TypesInv, Dropped

LEMMA WritingTyped ==
  ASSUME TypesInv, NEW c \in Client,
         PutResourceGroup(c) \/ WriteResource(c)
           \/ \E n \in Networks, x \in Children : PutSubnet(c, n, x)
  PROVE  TypesInv'
<1>1. PICK t \in Target : Upserted(t) /\ t \notin Rules /\ t \notin Deployments
                          /\ made' \in 0 .. MaxRequest
                          /\ UNCHANGED <<priority, deployment, operations, reading>>
                          /\ \/ UNCHANGED request
                             \/ Becomes(c, Recording("write", t, <<t>>, {t}, "Succeeded"))
  <2>1. CASE PutResourceGroup(c)
    BY <2>1, NamesApart DEF PutResourceGroup, TypesInv, Target
  <2>2. CASE WriteResource(c)
    <3>1. request[c].target \in Resources
      BY <2>2, Fields DEF WriteResource, TypesInv, RequestsTyped
    <3> QED
      BY <2>2, <3>1, NamesApart DEF WriteResource, TypesInv, Target
  <2>3. ASSUME NEW n \in Networks, NEW x \in Children, PutSubnet(c, n, x)
        PROVE  /\ <<n, x>> \in Target /\ <<n, x>> \notin Rules /\ <<n, x>> \notin Deployments
               /\ made' \in 0 .. MaxRequest
    <3>1. <<n, x>> \in Networks \X Children /\ <<n, x>> \in Nested
      BY DEF Nested, Parents
    <3>2. made' \in 0 .. MaxRequest
      BY <2>3, MadeTyped DEF PutSubnet
    <3> QED
      BY <3>1, <3>2, NamesApart DEF Target
  <2> QED
    BY <2>1, <2>2, <2>3 DEF PutSubnet
<1>2. RequestsTyped'
  BY <1>1, RecordingTyped, OneAsked, RequestTyped, Frames DEF Outcomes
<1>3. rows' \subseteq Target /\ created' \in [Target -> Nat]
      /\ rows' \cap Rules = rows \cap Rules /\ rows' \cap Deployments = rows \cap Deployments
  BY <1>1, UpsertTyped
<1> QED
  BY <1>1, <1>2, <1>3, Frames DEF TypesInv

LEMMA RuleTyped ==
  ASSUME TypesInv, NEW c \in Client, NEW g \in SecurityGroups, NEW x \in Children,
         NEW p \in Priorities, PutSecurityRule(c, g, x, p)
  PROVE  TypesInv'
<1> DEFINE t == <<g, x>>
<1>1. t \in Rules /\ t \in Target /\ t \notin Deployments
  BY NamesApart DEF Rules, Target
<1>2. /\ Upserted(t) /\ p \in 100 .. 4096
      /\ priority' = [r \in DOMAIN priority \cup {t} |-> IF r = t THEN p ELSE priority[r]]
      /\ Becomes(c, Recording("write", t, <<t>>, {t}, "Succeeded"))
      /\ UNCHANGED <<deployment, operations, reading>>
  BY DEF PutSecurityRule, ValidPriority
<1>3. made' \in 0 .. MaxRequest
  BY MadeTyped DEF PutSecurityRule
<1>4. RequestsTyped'
  BY <1>1, <1>2, RecordingTyped, OneAsked, RequestTyped DEF Outcomes
<1>5. rows' \subseteq Target /\ created' \in [Target -> Nat]
      /\ rows' \cap Deployments = rows \cap Deployments
  BY <1>1, <1>2, UpsertTyped
<1>6. rows' = rows \cup {t}
  BY <1>2 DEF Upserted
<1>7. DOMAIN priority' = rows' \cap Rules
  BY <1>1, <1>2, <1>6 DEF TypesInv, RulesTyped
<1> HIDE DEF t
<1>8. \A r \in DOMAIN priority' : priority'[r] \in 100 .. 4096
  <2>1. \A r \in DOMAIN priority : priority[r] \in 100 .. 4096
    BY DEF TypesInv, RulesTyped
  <2>2. \A r \in DOMAIN priority' : priority'[r] = p \/
           (r \in DOMAIN priority /\ priority'[r] = priority[r])
    BY <1>2
  <2>3. p \in 100 .. 4096
    BY <1>2
  <2> SUFFICES ASSUME NEW r \in DOMAIN priority'
               PROVE  priority'[r] \in 100 .. 4096
    OBVIOUS
  <2>4. CASE priority'[r] = p
    BY <2>3, <2>4
  <2>5. CASE r \in DOMAIN priority /\ priority'[r] = priority[r]
    BY <2>1, <2>5
  <2> QED
    BY <2>2, <2>4, <2>5
<1>9. RulesTyped'
  BY <1>7, <1>8, Zenon DEF RulesTyped
<1>10. DeploymentsTyped' /\ OperationsTyped'
  BY <1>2, <1>5, Frames
<1> QED
  BY <1>3, <1>4, <1>5, <1>9, <1>10 DEF TypesInv

LEMMA DeletingTyped ==
  ASSUME TypesInv, NEW c \in Client,
         DeleteResourceGroup(c) \/ RemoveResource(c) \/ FailTorn(c)
  PROVE  TypesInv'
<1>1. Idle \in Request
  BY DEF Request
<1>2. ASSUME NEW S, S \cap Deployments = {}, Dropped(S), NEW r \in Request, Becomes(c, r),
             made' \in 0 .. MaxRequest, UNCHANGED <<deployment, operations, reading>>
      PROVE  TypesInv'
  <2>1. RequestsTyped'
    BY <1>2, RequestTyped
  <2> QED
    BY <1>2, <2>1, DroppedTyped, Frames DEF TypesInv
<1>3. CASE DeleteResourceGroup(c)
  <2>1. Group \in Target /\ {Group} \cap Deployments = {}
    BY NamesApart DEF Target
  <2>2. Recording("delete", Group, <<Group>>, {Group}, "Succeeded") \in Request
    BY <2>1, RecordingTyped, OneAsked DEF Outcomes
  <2>3. made' \in 0 .. MaxRequest
    BY <1>3, MadeTyped DEF DeleteResourceGroup
  <2> QED
    BY <1>2, <1>3, <2>1, <2>2, <2>3 DEF DeleteResourceGroup
<1>4. CASE RemoveResource(c)
  <2> DEFINE t == request[c].target
  <2>1. t \in Resources \cup Nested /\ t \in Target
    BY <1>4, Fields DEF RemoveResource, TypesInv, RequestsTyped, Target
  <2>2. Gone(t) \cap Deployments = {}
    BY <2>1, NamesApart DEF Gone, ChildrenOf, Nested
  <2>3. Recording("delete", t, <<t>>, {t}, "Succeeded") \in Request
    BY <2>1, RecordingTyped, OneAsked DEF Outcomes
  <2>4. made' \in 0 .. MaxRequest
    BY <1>4 DEF RemoveResource, TypesInv
  <2>5. CASE t \in rows
    BY <1>2, <1>4, <2>2, <2>3, <2>4, <2>5 DEF RemoveResource
  <2>6. CASE t \notin rows
    <3>1. RequestsTyped'
      BY <1>1, <1>4, <2>6, RequestTyped DEF RemoveResource
    <3> QED
      BY <1>4, <2>4, <2>6, <3>1, Frames DEF RemoveResource, TypesInv
  <2> QED
    BY <2>5, <2>6
<1>5. CASE FailTorn(c)
  <2>1. {request[c].target} \cap Deployments = {}
    BY <1>5, NamesApart DEF FailTorn, Resources
  <2>2. made' \in 0 .. MaxRequest
    BY <1>5 DEF FailTorn, TypesInv
  <2> QED
    BY <1>1, <1>2, <1>5, <2>1, <2>2 DEF FailTorn
<1> QED
  BY <1>3, <1>4, <1>5

LEMMA DeployingTyped ==
  ASSUME TypesInv, NEW c \in Client, DeployResource(c)
  PROVE  TypesInv'
<1> DEFINE r == request[c]
           t == r.template[r.next]
           s == [r EXCEPT !.next = @ + 1, !.did = @ \cup {t}]
<1>1. r \in [step : {"deploy"}, target : Deployments, template : Templates,
             next : Nat \ {0}, did : SUBSET Target]
  BY Fields DEF DeployResource, TypesInv, RequestsTyped
<1>2. t \in Resources /\ t \in Target
  BY DEF DeployResource, Resources, Target
<1>3. s \in [step : {"deploy"}, target : Deployments, template : Templates,
             next : Nat \ {0}, did : SUBSET Target]
  <2>1. r.next + 1 \in Nat \ {0} /\ r.did \cup {t} \in SUBSET Target
    BY <1>1, <1>2
  <2> HIDE DEF r, t
  <2> QED
    BY <1>1, <2>1
<1>4. s \in Request
  BY <1>3 DEF Request
<1>5. Becomes(c, s) /\ Upserted(t) /\ UNCHANGED <<priority, deployment, operations, reading, made>>
  BY DEF DeployResource
<1> HIDE DEF r, s, t
<1>6. RequestsTyped'
  BY <1>4, <1>5, RequestTyped
<1>7. rows' \subseteq Target /\ created' \in [Target -> Nat]
      /\ rows' \cap Rules = rows \cap Rules /\ rows' \cap Deployments = rows \cap Deployments
  BY <1>2, <1>5, UpsertTyped, NamesApart
<1> QED
  BY <1>5, <1>6, <1>7, Frames DEF TypesInv

LEMMA DeploymentTyped ==
  ASSUME TypesInv, NEW c \in Client, UpsertDeployment(c)
  PROVE  TypesInv'
<1> DEFINE r == request[c]
           s == Recording("write", r.target, r.template, r.did, Outcome(r))
           o == [template |-> r.template, did |-> r.did, state |-> Outcome(r)]
<1>1. r \in [step : {"deploy"}, target : Deployments, template : Templates,
             next : Nat \ {0}, did : SUBSET Target]
  BY Fields DEF UpsertDeployment, TypesInv, RequestsTyped
<1>2. Outcome(r) \in Outcomes
  BY DEF Outcome, Outcomes
<1>3. r.target \in Deployments /\ r.target \in Target /\ r.target \notin Rules
  BY <1>1, NamesApart DEF Target
<1>4. s \in Request
  BY <1>1, <1>2, <1>3, TemplateAsked, RecordingTyped
<1>5. o \in [template : Templates, did : SUBSET Target, state : Outcomes]
  BY <1>1, <1>2
<1>6. /\ Becomes(c, s) /\ Upserted(r.target)
      /\ deployment' = [d \in DOMAIN deployment \cup {r.target} |->
                          IF d = r.target THEN o ELSE deployment[d]]
      /\ UNCHANGED <<priority, operations, reading, made>>
  BY DEF UpsertDeployment
<1> DEFINE target == r.target
<1>7. target = r.target
  OBVIOUS
<1> HIDE DEF r, s, o, target
<1>8. RequestsTyped'
  BY <1>4, <1>6, RequestTyped
<1>9. rows' \subseteq Target /\ created' \in [Target -> Nat]
      /\ rows' \cap Rules = rows \cap Rules
  BY <1>3, <1>6, UpsertTyped
<1>10. rows' = rows \cup {r.target}
  BY <1>6 DEF Upserted
<1>11. DOMAIN deployment' = rows' \cap Deployments
  BY <1>3, <1>6, <1>10 DEF TypesInv, DeploymentsTyped
<1>12. \A d \in DOMAIN deployment' :
         deployment'[d] \in [template : Templates, did : SUBSET Target, state : Outcomes]
  BY <1>5, <1>6 DEF TypesInv, DeploymentsTyped
<1>13. RulesTyped' /\ DeploymentsTyped' /\ OperationsTyped'
  BY <1>6, <1>9, <1>11, <1>12, Frames DEF DeploymentsTyped
<1> QED
  BY <1>6, <1>8, <1>9, <1>13 DEF TypesInv

LEMMA OperationTyped ==
  ASSUME TypesInv, NEW c \in Client, CreateOperation(c)
  PROVE  TypesInv'
<1> DEFINE o == OperationOf(request[c])
<1>1. o \in Operation
  BY Fields DEF CreateOperation, TypesInv, RequestsTyped, OperationOf, Operation
<1>2. RequestsTyped'
  BY RequestTyped DEF CreateOperation, Request
<1> HIDE DEF o
<1>3. ASSUME operations' = [i \in DOMAIN operations \cup {reading + 1} |->
                             IF i = reading + 1 THEN o ELSE operations[i]],
             reading' = reading + 1
      PROVE  OperationsTyped'
  <2>1. reading + 1 \in Nat /\ 1 .. reading + 1 = (1 .. reading) \cup {reading + 1}
    BY DEF TypesInv, OperationsTyped
  <2> QED
    BY <1>1, <1>3, <2>1 DEF TypesInv, OperationsTyped
<1>4. OperationsTyped'
  BY <1>3, Frames DEF CreateOperation, o
<1>5. UNCHANGED <<rows, priority, deployment, made, created>>
  BY DEF CreateOperation
<1> QED
  BY <1>2, <1>4, <1>5, Frames DEF TypesInv

\* Requests begin or end, and the tables stay.
LEMMA RequestsMoveTyped ==
  ASSUME TypesInv, NEW c \in Client,
         \/ \E t \in Resources : CheckGroup(c, t)
         \/ \E t \in Resources \cup Nested : GetResource(c, t)
         \/ \E d \in Deployments, template \in Templates : PutDeployment(c, d, template)
         \/ Fail(c)
  PROVE  TypesInv'
<1>1. PICK r \in Request :
        /\ Becomes(c, r) /\ made' \in 0 .. MaxRequest
        /\ UNCHANGED <<rows, priority, deployment, operations, reading, created>>
  <2>1. ASSUME NEW t \in Resources, CheckGroup(c, t)
        PROVE  [step |-> "write", target |-> t] \in Request /\ made' \in 0 .. MaxRequest
    BY <2>1, MadeTyped DEF CheckGroup, Request
  <2>2. ASSUME NEW t \in Resources \cup Nested, GetResource(c, t)
        PROVE  [step |-> "remove", target |-> t] \in Request /\ made' \in 0 .. MaxRequest
    BY <2>2, MadeTyped DEF GetResource, Request
  <2>3. ASSUME NEW d \in Deployments, NEW template \in Templates, PutDeployment(c, d, template)
        PROVE  /\ [step |-> "deploy", target |-> d, template |-> template,
                   next |-> 1, did |-> {}] \in Request
               /\ made' \in 0 .. MaxRequest
    BY <2>3, MadeTyped DEF PutDeployment, Request
  <2>4. ASSUME Fail(c)
        PROVE  Idle \in Request /\ made' \in 0 .. MaxRequest
    BY <2>4 DEF Fail, Request, TypesInv
  <2> QED
    BY <2>1, <2>2, <2>3, <2>4 DEF CheckGroup, GetResource, PutDeployment, Fail
<1>2. RequestsTyped'
  BY <1>1, RequestTyped
<1> QED
  BY <1>1, <1>2, Frames DEF TypesInv

\* Every state of the resource group is well typed: priorities belong to
\* the rules there are, outcomes to the deployments, operations are
\* numbered by readings.
THEOREM TypeCorrect == Spec => []TypeOK
<1>1. Init => TypesInv
  <2>1. 0 \in 0 .. MaxRequest
    BY ArmAssumption
  <2> QED
    BY <2>1 DEF Init, TypesInv, RulesTyped, DeploymentsTyped, OperationsTyped, RequestsTyped, Request
<1>2. TypesInv /\ [Next]_vars => TypesInv'
  <2>1. CASE UNCHANGED vars
    BY <2>1, Frames DEF vars, TypesInv
  <2>2. ASSUME TypesInv, Next
        PROVE  TypesInv'
    BY <2>2, WritingTyped, RuleTyped, DeletingTyped, DeployingTyped, DeploymentTyped,
       OperationTyped, RequestsMoveTyped DEF Next
  <2> QED
    BY <2>1, <2>2
<1>3. TypesInv => TypeOK
  BY DEF TypesInv, RulesTyped, DeploymentsTyped, OperationsTyped, RequestsTyped, TypeOK
<1> QED
  BY <1>1, <1>2, <1>3, PTL DEF Spec
=============================================================================
