--------------------------- MODULE ArmControlPlane ---------------------------
(***************************************************************************)
(* The resource manager: PUT and DELETE of resources, and deployments, in  *)
(* one resource group, by several clients at a time.                       *)
(*                                                                         *)
(* A handler makes several calls of the store: a check, the write, the     *)
(* record of the operation that the client will poll.  The store's mutex   *)
(* is free in between, so the calls of concurrent requests interleave; a   *)
(* step here is one call of the store.  A failing statement ends a request *)
(* where it stands, a kill of the daemon all of them, and either can fall  *)
(* between the two statements of a cascading delete.                       *)
(*                                                                         *)
(* Plain resources stand for storage accounts (key vaults differ by their  *)
(* secrets); networks for virtual networks and private DNS zones, with     *)
(* their subnets and records; security groups have rules of unique         *)
(* priorities.  What GETs return is not modelled.                          *)
(***************************************************************************)
EXTENDS Naturals, Sequences, FiniteSets

CONSTANTS
  Client,          \* concurrent clients
  Group,           \* the resource group
  Plain,           \* names of plain resources
  Networks,        \* names of networks
  SecurityGroups,  \* names of network security groups
  Children,        \* names of the children of a network or security group
  Priorities,      \* priorities clients give to rules
  Deployments,     \* names of deployments
  Templates,       \* what deployments ask for: sequences of resources, of
                   \* which those outside Plain are not supported
  MaxRequest       \* bound on the number of requests ever made

Parents == Networks \cup SecurityGroups
Nested == Parents \X Children
Resources == Plain \cup Parents
Rules == SecurityGroups \X Children
Target == {Group} \cup Resources \cup Nested \cup Deployments

\* Rows of different tables have different names.
ASSUME ArmAssumption ==
  /\ Priorities \subseteq Nat
  /\ MaxRequest \in Nat
  /\ \A t \in Templates : t \in Seq({t[i] : i \in DOMAIN t})
  /\ Deployments \cap ({Group} \cup Resources \cup Nested) = {}
  /\ Rules \cap ({Group} \cup Resources) = {}
  /\ Networks \cap SecurityGroups = {}

VARIABLES
  rows,        \* the targets that have a row
  priority,    \* security rule |-> its priority
  deployment,  \* deployment |-> its template and its state
  operations,  \* id |-> what the operation reports
  reading,     \* the last UnixNano reading used for the id of an operation
  request,     \* client |-> its request in progress, else Idle
  made,        \* number of requests made
  created      \* history: target |-> the number of times its row was created

vars == <<rows, priority, deployment, operations, reading, request, made, created>>

Idle == [step |-> "idle"]

Init ==
  /\ rows = {}
  /\ priority = [r \in {} |-> 0]
  /\ deployment = [d \in {} |-> 0]
  /\ operations = [i \in {} |-> 0]
  /\ reading = 0
  /\ request = [c \in Client |-> Idle]
  /\ made = 0
  /\ created = [t \in Target |-> 0]

-----------------------------------------------------------------------------
(***************************************************************************)
(* Steps.  Becomes(c, r): c's request is r now.                            *)
(***************************************************************************)
Becomes(c, r) == request' = [request EXCEPT ![c] = r]

Arrives(c) ==
  /\ request[c] = Idle
  /\ made < MaxRequest
  /\ made' = made + 1

\* What is left to do once the rows are written: the operation record.
\* asked and did are history: the targets that the request was to write or
\* delete, and those it has written or deleted.
Recording(verb, target, asked, did, status) ==
  [step |-> "record", verb |-> verb, target |-> target,
   asked |-> asked, did |-> did, status |-> status]

\* The upsert of t's row.
Upserted(t) ==
  /\ rows' = rows \cup {t}
  /\ created' = IF t \in rows THEN created ELSE [created EXCEPT ![t] = @ + 1]

ChildrenOf(p) == rows \cap ({p} \X Children)

\* The rows t are gone.
Dropped(t) ==
  /\ rows' = rows \ t
  /\ priority' = [r \in DOMAIN priority \ t |-> priority[r]]
  /\ UNCHANGED created

-----------------------------------------------------------------------------
(***************************************************************************)
(* The resource group.  Its PUT records no operation (and so is not        *)
(* counted); its deletion leaves its resources alone.                      *)
(***************************************************************************)
PutResourceGroup(c) ==
  /\ request[c] = Idle
  /\ Upserted(Group)
  /\ UNCHANGED <<priority, deployment, operations, reading, request, made>>

DeleteResourceGroup(c) ==
  /\ Group \in rows
  /\ Arrives(c)
  /\ Dropped({Group})
  /\ Becomes(c, Recording("delete", Group, <<Group>>, {Group}, "Succeeded"))
  /\ UNCHANGED <<deployment, operations, reading>>

(***************************************************************************)
(* PUT of a resource: the group must exist (404), then the upsert.         *)
(***************************************************************************)
CheckGroup(c, t) ==
  /\ Group \in rows
  /\ Arrives(c)
  /\ Becomes(c, [step |-> "write", target |-> t])
  /\ UNCHANGED <<rows, priority, deployment, operations, reading, created>>

WriteResource(c) ==
  /\ request[c].step = "write"
  /\ LET t == request[c].target
     IN  /\ Upserted(t)
         /\ Becomes(c, Recording("write", t, <<t>>, {t}, "Succeeded"))
  /\ UNCHANGED <<priority, deployment, operations, reading, made>>

(***************************************************************************)
(* PUT of a child: one call checks the parent (404) and writes.            *)
(***************************************************************************)
PutSubnet(c, n, x) ==
  /\ n \in rows
  /\ Arrives(c)
  /\ Upserted(<<n, x>>)
  /\ Becomes(c, Recording("write", <<n, x>>, <<<<n, x>>>>, {<<n, x>>}, "Succeeded"))
  /\ UNCHANGED <<priority, deployment, operations, reading>>

ValidPriority(p) == p \in 100 .. 4096

\* Faulty variant: only the priority of a new rule is checked.
TakenByNew(g, x, p) ==
  /\ <<g, x>> \notin rows
  /\ \E r \in DOMAIN priority : r[1] = g /\ priority[r] = p

\* Another rule of the group has the priority (400).
Taken(g, x, p) ==
  \E r \in DOMAIN priority : r[1] = g /\ r[2] # x /\ priority[r] = p

PutSecurityRule(c, g, x, p) ==
  /\ g \in rows
  /\ ValidPriority(p)
  /\ ~Taken(g, x, p)
  /\ Arrives(c)
  /\ Upserted(<<g, x>>)
  /\ priority' = [r \in DOMAIN priority \cup {<<g, x>>} |-> IF r = <<g, x>> THEN p ELSE priority[r]]
  /\ Becomes(c, Recording("write", <<g, x>>, <<<<g, x>>>>, {<<g, x>>}, "Succeeded"))
  /\ UNCHANGED <<deployment, operations, reading>>

(***************************************************************************)
(* DELETE: the handler reads the resource (404), then deletes it; the      *)
(* second call answers 404 if somebody else has deleted it meanwhile.  The *)
(* children of a parent go in a second statement of that call.             *)
(***************************************************************************)
GetResource(c, t) ==
  /\ t \in rows
  /\ Arrives(c)
  /\ Becomes(c, [step |-> "remove", target |-> t])
  /\ UNCHANGED <<rows, priority, deployment, operations, reading, created>>

Gone(t) == {t} \cup (IF t \in Parents THEN ChildrenOf(t) ELSE {})

\* Faulty variant: the number of rows affected is ignored.
RemoveUnchecked(c) ==
  /\ request[c].step = "remove"
  /\ LET t == request[c].target
     IN  /\ Dropped(Gone(t))
         /\ Becomes(c, Recording("delete", t, <<t>>, rows \cap {t}, "Succeeded"))
  /\ UNCHANGED <<deployment, operations, reading, made>>

RemoveResource(c) ==
  /\ request[c].step = "remove"
  /\ LET t == request[c].target
     IN  IF t \in rows
         THEN /\ Dropped(Gone(t))
              /\ Becomes(c, Recording("delete", t, <<t>>, {t}, "Succeeded"))
         ELSE /\ Becomes(c, Idle)
              /\ UNCHANGED <<rows, priority, created>>
  /\ UNCHANGED <<deployment, operations, reading, made>>

-----------------------------------------------------------------------------
(***************************************************************************)
(* A deployment writes the resources of its template one by one, in calls  *)
(* of their own, and stops at the first that is not supported or fails;    *)
(* what it wrote until then stays.  The empty sequence is a deployment     *)
(* without a template; a template without resources, or parameters, are    *)
(* refused as one whose first resource is not supported.                   *)
(***************************************************************************)
PutDeployment(c, d, template) ==
  /\ Group \in rows
  /\ Arrives(c)
  /\ Becomes(c, [step |-> "deploy", target |-> d, template |-> template,
                 next |-> 1, did |-> {}])
  /\ UNCHANGED <<rows, priority, deployment, operations, reading, created>>

DeployResource(c) ==
  /\ request[c].step = "deploy"
  /\ request[c].next <= Len(request[c].template)
  /\ request[c].template[request[c].next] \in Plain
  /\ LET t == request[c].template[request[c].next]
     IN  /\ Upserted(t)
         /\ Becomes(c, [request[c] EXCEPT !.next = @ + 1, !.did = @ \cup {t}])
  /\ UNCHANGED <<priority, deployment, operations, reading, made>>

\* Faulty variant: having written something counts as success.
OutcomePartial(r) == IF r.next > 1 THEN "Succeeded" ELSE "Failed"

Outcome(r) == IF r.next > Len(r.template) THEN "Succeeded" ELSE "Failed"

UpsertDeployment(c) ==
  /\ request[c].step = "deploy"
  /\ LET r == request[c]
     IN  /\ Upserted(r.target)
         /\ deployment' = [d \in DOMAIN deployment \cup {r.target} |->
                             IF d = r.target
                             THEN [template |-> r.template, did |-> r.did, state |-> Outcome(r)]
                             ELSE deployment[d]]
         /\ Becomes(c, Recording("write", r.target, r.template, r.did, Outcome(r)))
  /\ UNCHANGED <<priority, operations, reading, made>>

-----------------------------------------------------------------------------
OperationOf(r) ==
  [verb |-> r.verb, target |-> r.target, asked |-> r.asked, did |-> r.did, status |-> r.status]

\* Faulty variant: INSERT OR REPLACE.
CreateOperationReplacing(c) ==
  /\ request[c].step = "record"
  /\ \E id \in {reading, reading + 1} \ {0} :
       /\ operations' = [i \in DOMAIN operations \cup {id} |->
                           IF i = id THEN OperationOf(request[c]) ELSE operations[i]]
       /\ reading' = id
  /\ Becomes(c, Idle)
  /\ UNCHANGED <<rows, priority, deployment, made, created>>

(***************************************************************************)
(* CreateOperation.  Its id is a UnixNano reading: the last one again on a *)
(* coarse clock, and then the INSERT fails and the request with it (500),  *)
(* although its effect stands; or a later one.                             *)
(***************************************************************************)
CreateOperation(c) ==
  /\ request[c].step = "record"
  /\ \/ /\ operations' = [i \in DOMAIN operations \cup {reading + 1} |->
                            IF i = reading + 1 THEN OperationOf(request[c]) ELSE operations[i]]
        /\ reading' = reading + 1
     \/ /\ reading \in DOMAIN operations
        /\ UNCHANGED <<operations, reading>>
  /\ Becomes(c, Idle)
  /\ UNCHANGED <<rows, priority, deployment, made, created>>

(***************************************************************************)
(* A statement fails, or the daemon is killed (then every request ends,    *)
(* one after the other here), perhaps (torn) after the first statement of  *)
(* the deletion of a parent.                                               *)
(***************************************************************************)
Fail(c) ==
  /\ request[c] # Idle
  /\ Becomes(c, Idle)
  /\ UNCHANGED <<rows, priority, deployment, operations, reading, made, created>>

FailTorn(c) ==
  /\ request[c].step = "remove"
  /\ request[c].target \in rows \cap Parents
  /\ Dropped({request[c].target})
  /\ Becomes(c, Idle)
  /\ UNCHANGED <<deployment, operations, reading, made>>

Next ==
  \E c \in Client :
    \/ PutResourceGroup(c)
    \/ DeleteResourceGroup(c)
    \/ \E t \in Resources : CheckGroup(c, t)
    \/ WriteResource(c)
    \/ \E n \in Networks, x \in Children : PutSubnet(c, n, x)
    \/ \E g \in SecurityGroups, x \in Children, p \in Priorities : PutSecurityRule(c, g, x, p)
    \/ \E t \in Resources \cup Nested : GetResource(c, t)
    \/ RemoveResource(c)
    \/ \E d \in Deployments, template \in Templates : PutDeployment(c, d, template)
    \/ DeployResource(c)
    \/ UpsertDeployment(c)
    \/ CreateOperation(c)
    \/ Fail(c)
    \/ FailTorn(c)

Spec == Init /\ [][Next]_vars

-----------------------------------------------------------------------------
Asked == Seq(Target \cup UNION {{t[i] : i \in DOMAIN t} : t \in Templates})

Outcomes == {"Succeeded", "Failed"}

Operation == [verb : {"write", "delete"}, target : Target, asked : Asked,
              did : SUBSET Target, status : Outcomes]

Request ==
  {Idle}
  \cup [step : {"write"}, target : Resources]
  \cup [step : {"remove"}, target : Resources \cup Nested]
  \cup [step : {"deploy"}, target : Deployments, template : Templates,
        next : Nat \ {0}, did : SUBSET Target]
  \cup [step : {"record"}, verb : {"write", "delete"}, target : Target, asked : Asked,
        did : SUBSET Target, status : Outcomes]

TypeOK ==
  /\ rows \subseteq Target
  /\ DOMAIN priority = rows \cap Rules
  /\ \A r \in DOMAIN priority : priority[r] \in 100 .. 4096
  /\ DOMAIN deployment = rows \cap Deployments
  /\ \A d \in DOMAIN deployment :
       deployment[d] \in [template : Templates, did : SUBSET Target, state : Outcomes]
  /\ reading \in Nat /\ DOMAIN operations = 1 .. reading
  /\ \A i \in DOMAIN operations : operations[i] \in Operation
  /\ \A c \in Client : request[c] \in Request
  /\ made \in 0 .. MaxRequest
  /\ created \in [Target -> Nat]

(***************************************************************************)
(* No two rules of a security group ever have the same priority, also when *)
(* concurrent clients move rules about and a deletion of the group that    *)
(* was cut short has left rules behind for a later group of its name.      *)
(* Code: the priority query of UpsertNetworkSecurityRule; the table has no *)
(* such constraint.                                                        *)
(***************************************************************************)
PrioritiesUnique ==
  \A r, s \in DOMAIN priority :
    r[1] = s[1] /\ priority[r] = priority[s] => r = s

\* The deletions of t that clients are told of.
Claims(t) ==
  LET recorded  == {i \in DOMAIN operations : operations[i].verb = "delete" /\ operations[i].target = t}
      recording == {c \in Client : /\ request[c].step = "record"
                                   /\ request[c].verb = "delete" /\ request[c].target = t}
  IN  Cardinality(recorded) + Cardinality(recording)

(***************************************************************************)
(* Of concurrent deletions of a resource one succeeds: the deletions that  *)
(* clients are told of, and the row if there is one, are never more than   *)
(* the times it was created.  Code: the handlers read the resource before  *)
(* they delete it, and rely on the store to count the rows it deleted.     *)
(***************************************************************************)
DeletedOnce ==
  \A t \in Target : Claims(t) + Cardinality(rows \cap {t}) <= created[t]

\* A request that says so did all of it; one that failed, only the beginning.
Truthful(asked, did, status) ==
  LET done == {i \in DOMAIN asked : asked[i] \in did}
  IN  /\ status = "Succeeded" <=> done = DOMAIN asked
      /\ \A i \in done : 1 .. i \subseteq done

(***************************************************************************)
(* An operation, and a deployment, is Succeeded just if the request behind *)
(* it has written or deleted everything it was asked to, and a deployment  *)
(* that Failed has written a proper prefix of its template: whatever other *)
(* requests did meanwhile, and whoever's deployment of the same name came  *)
(* in between.  Code: the order of the store calls in the handlers, and    *)
(* the status they pass to CreateOperationResult.                          *)
(***************************************************************************)
OperationsTruthful ==
  /\ \A i \in DOMAIN operations :
       LET o == operations[i] IN Truthful(o.asked, o.did, o.status)
  /\ \A d \in DOMAIN deployment :
       LET r == deployment[d] IN Truthful(r.template, r.did, r.state)

(***************************************************************************)
(* An operation that a client polls keeps telling it the same, whatever    *)
(* other requests are recorded: ids that collide do not mix two up.        *)
(***************************************************************************)
OperationsKept ==
  [][\A i \in DOMAIN operations :
       i \in DOMAIN operations' /\ operations'[i] = operations[i]]_vars

=============================================================================
