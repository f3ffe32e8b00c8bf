------------------------------- MODULE Identity ------------------------------
(***************************************************************************)
(* InfisicalIdentityReconciler: creates or adopts a machine identity of a  *)
(* project or of an organization, keeps its fields as declared, grants it  *)
(* the declared roles in its own project (Project scope) or in the bound   *)
(* projects of its organization (Organization scope), and deletes it with  *)
(* the resource if asked to.                                               *)
(* Source: infisicalidentity_controller.go, with the calls it makes in     *)
(* internal/infisicalclient/identities.go.                                 *)
(*                                                                         *)
(* As in UniversalAuth, one resource is followed through one lifetime and  *)
(* a reconciliation is a sequence of steps, one per call to Infisical.     *)
(***************************************************************************)
EXTENDS Controller, FiniteSets

CONSTANTS
  IdentityIDs,        \* ids of identities; once all are taken, creation is refused
  InitiallyPresent,   \* identities that exist before the operator acts
  Projects,           \* external ids of projects
  Organizations,      \* external ids of organizations
  OrganizationOf,     \* project -> the organization it belongs to
  ProjectRefs,        \* names of InfisicalProject resources
  HomeRef,            \* the one that projectRef names
  Targets,            \* dependency -> the ids that its status may show
  Scopes,             \* values of spec.scope
  Names,              \* values of spec.identityName
  Configs,            \* values of the other declared fields
  ProtectedConfigs,   \* those with delete protection
  RoleSets,           \* declared sets of project roles
  OtherRoles,         \* roles that no spec declares, a temporary one for instance
  CreationChoices,    \* creation policies considered
  DeletionChoices     \* deletion policies considered

Connection      == "connection"
OrganizationRef == "organization"
Dependencies    == ProjectRefs \cup {OrganizationRef, Connection}

ASSUME ConstantsAssumption ==
  /\ None \notin IdentityIDs \cup Projects \cup Organizations \cup RoleSets
  /\ OtherRoles \notin RoleSets \cup {None} /\ Projects \cap Organizations = {}
  /\ InitiallyPresent \subseteq IdentityIDs
  /\ OrganizationOf \in [Projects -> Organizations]
  /\ HomeRef \in ProjectRefs
  /\ DOMAIN Targets = Dependencies
  /\ \A ref \in ProjectRefs : Targets[ref] \subseteq Projects
  /\ Targets[OrganizationRef] \subseteq Organizations
  /\ \A d \in Dependencies : Targets[d] # {} /\ None \notin Targets[d]
  /\ Scopes \subseteq {"Project", "Organization"}
  /\ ProtectedConfigs \subseteq Configs
  /\ CreationChoices \subseteq CreationPolicies
  /\ DeletionChoices \subseteq DeletionPolicies

\* `roles` is roleSlugs of the home project or projectRoleBindings; None where
\* nothing is declared.  The order of the bindings is left open.
Specs ==
  {s \in [scope: Scopes, name: Names, config: Configs, roles: [ProjectRefs -> RoleSets \cup {None}],
          creation: CreationChoices, deletion: DeletionChoices] :
     s.scope = "Project" => \A ref \in ProjectRefs \ {HomeRef} : s.roles[ref] = None}
Managed(spec) == {ref \in ProjectRefs : spec.roles[ref] # None}

\* The Ready condition carries the generation it was computed for; that of a
\* failure plays no part here.
Reasons == {"", "ProjectNotReady", "OrganizationNotReady", "ConfigurationInvalid",
            "ConnectionNotReady", "ExternalReadFailed", "CreationNotAllowed",
            "ExternalCreateFailed", "RemoteIdentityMissing", "ExternalIdentityMismatch",
            "ExternalUpdateFailed", "RoleMembershipReconcileFailed"}
Generations == 0..MaxDisturbances
NotReady(reason)     == [reason |-> reason, generation |-> None]
ReadyFor(generation) == [reason |-> "Ready", generation |-> generation]
Conditions == {NotReady(reason) : reason \in Reasons} \cup {ReadyFor(g) : g \in Generations}

\* `home` is ProjectID or OrganizationID, `memberships` the projects reported.
Homes    == Projects \cup Organizations
Statuses == [identity: IdentityIDs \cup {None}, home: Homes \cup {None},
             memberships: SUBSET Projects, reason: Conditions]
NoStatus == [identity |-> None, home |-> None, memberships |-> {}, reason |-> NotReady("")]

Resources == [exists: BOOLEAN, deleting: BOOLEAN, finalizer: BOOLEAN,
              generation: Generations, spec: Specs, status: Statuses]

\* An identity in Infisical; `creator` is history.
Memberships     == [Projects -> RoleSets \cup {OtherRoles, None}]
NoMembership    == [p \in Projects |-> None]
IdentityRecords ==
  [state: {"Unused", "Present", "Deleted"}, creator: {"Nobody", "Operator", "Other"},
   home: Homes \cup {None}, name: Names \cup {None}, config: Configs \cup {None},
   membership: Memberships]
Unused == [state |-> "Unused", creator |-> "Nobody", home |-> None, name |-> None,
           config |-> None, membership |-> NoMembership]

VARIABLES
  remote,      \* identity id -> IdentityRecords
  resolved     \* dependency -> the id its status shows, or None while it is not ready

envVars == <<resolved, disturbances>>
vars    == <<crVars, remote, envVars, pc, mem, faults>>

Steps == {"adopt", "create", "read", "update", "readMembership", "createMembership",
          "readCreated", "updateMembership", "readUpdated", "persist",
          "deleteIdentity", "deleteFinalizer"}

\* As in UniversalAuth; `anchor` is the home that was resolved at the start,
\* `todo` the bindings to come, `project` and `roles` those of the present one.
Memories == [generation: Generations, spec: Specs, status: Statuses, before: Statuses,
             current: BOOLEAN, anchor: Homes \cup {None}, todo: SUBSET ProjectRefs,
             project: Projects \cup {None}, roles: RoleSets \cup {None}]

TypeOK ==
  /\ api \in Resources /\ cache \in Resources /\ undelivered \in Seq(Resources)
  /\ remote \in [IdentityIDs -> IdentityRecords]
  /\ \/ pc = Idle /\ mem = None
     \/ pc \in Steps /\ mem \in Memories
  /\ \A d \in Dependencies : resolved[d] \in Targets[d] \cup {None}
  /\ faults \in Nat /\ disturbances \in Nat

Present(i) == remote[i].state = "Present"

Init ==
  /\ \E s \in Specs :
       api = [exists |-> TRUE, deleting |-> FALSE, finalizer |-> FALSE,
              generation |-> 0, spec |-> s, status |-> NoStatus]
  /\ cache = api /\ undelivered = <<>>
  /\ \E h \in [InitiallyPresent -> Homes], n \in [InitiallyPresent -> Names],
        g \in [InitiallyPresent -> Configs] :
       remote = [i \in IdentityIDs |->
         IF i \in InitiallyPresent
         THEN [Unused EXCEPT !.state = "Present", !.creator = "Other", !.home = h[i],
                             !.name = n[i], !.config = g[i]]
         ELSE Unused]
  /\ resolved \in {r \in [Dependencies -> UNION {Targets[d] : d \in Dependencies}] :
                     \A d \in Dependencies : r[d] \in Targets[d]}
  /\ pc = Idle /\ mem = None
  /\ faults = 0 /\ disturbances = 0

-----------------------------------------------------------------------------
(* Reconcile, up to its first call *)

ReadCache ==
  /\ pc = Idle /\ cache.exists
  /\ IF CR!Current THEN NoFault ELSE Fault("stale")

EnsureFinalizer ==
  /\ ReadCache
  /\ ~cache.deleting /\ cache.spec.deletion = "Delete" /\ ~cache.finalizer
  /\ CR!Current
  /\ CR!Put([api EXCEPT !.finalizer = TRUE])
  /\ EndReconcile
  /\ UNCHANGED <<remote, envVars>>

AnchorRef(spec)  == IF spec.scope = "Project" THEN HomeRef ELSE OrganizationRef
\* identityAnchor: every dependency but the connection must show an id.
Required(spec)   == {AnchorRef(spec)} \cup Managed(spec)
NotReadyReason(spec) ==
  IF spec.scope = "Project" THEN "ProjectNotReady" ELSE "OrganizationNotReady"

\* Mutant: the organization of the bound projects is not compared.
AnyProject(spec) == TRUE
\* identityAnchor: every bound project is in the organization.
BoundInside(spec) ==
  spec.scope = "Organization" =>
    \A ref \in Managed(spec) :
      resolved[ref] # None => OrganizationOf[resolved[ref]] = resolved[OrganizationRef]

Loaded == [generation |-> cache.generation, spec |-> cache.spec,
           status |-> cache.status, before |-> cache.status, current |-> CR!Current,
           anchor |-> resolved[AnchorRef(cache.spec)], todo |-> {}, project |-> None, roles |-> None]

FirstStep(resource) ==
  IF resource.status.identity # None THEN "read"
  ELSE IF CanAdopt(resource.spec.creation) THEN "adopt" ELSE "create"

\* The bindings are checked in the order of the list, so an unready one hides
\* an outsider that follows it and the other way round.
Anchored(spec) ==
  /\ \A ref \in Required(spec) : resolved[ref] # None
  /\ BoundInside(spec)

BeginReconcile ==
  /\ ReadCache
  /\ ~cache.deleting /\ (cache.spec.deletion = "Delete" => cache.finalizer)
  /\ \/ /\ Anchored(cache.spec) /\ resolved[Connection] # None
        /\ Continue(FirstStep(cache), Loaded)
        /\ UNCHANGED crVars
     \/ /\ \E ref \in Required(cache.spec) : resolved[ref] = None
        /\ ReturnError(cache.status, NotReady(NotReadyReason(cache.spec)))
     \/ /\ resolved[AnchorRef(cache.spec)] # None /\ ~BoundInside(cache.spec)
        /\ ReturnError(cache.status, NotReady("ConfigurationInvalid"))
     \/ /\ Anchored(cache.spec) /\ resolved[Connection] = None
        /\ ReturnError(cache.status, NotReady("ConnectionNotReady"))
  /\ UNCHANGED <<remote, envVars>>

NothingToDelete(resource) ==
  resource.spec.deletion = "Orphan" \/ resource.status.identity = None

BeginDeletion ==
  /\ ReadCache
  /\ cache.deleting
  /\ \/ /\ NothingToDelete(cache)
        /\ RemoveFinalizer(CR!Current)
        /\ EndReconcile
     \/ /\ ~NothingToDelete(cache) /\ resolved[Connection] # None
        /\ Continue("deleteIdentity", Loaded)
        /\ UNCHANGED crVars
  /\ UNCHANGED <<remote, envVars>>

-----------------------------------------------------------------------------
(* Reconcile: adopt or create *)

\* A call to Infisical that failed without effect.
CallFails(reason) ==
  /\ Fault("rejected")
  /\ ReturnError(mem.status, NotReady(reason))
  /\ UNCHANGED remote

\* A failure that the state of Infisical or the code itself decides.
Refused(reason) ==
  /\ ReturnError(mem.status, NotReady(reason))
  /\ NoFault

\* Mutant: setIdentityObservedState forgets the owner.
ObservedIdentity(i) == [mem.status EXCEPT !.identity = i]
\* setIdentityObservedState
Observed(i) == [mem.status EXCEPT !.identity = i, !.home = mem.anchor]

\* FindIdentity and FindOrganizationIdentity: by name among those of the owner;
\* the list has no promised order.
Found(spec, anchor) ==
  {i \in IdentityIDs : Present(i) /\ remote[i].home = anchor /\ remote[i].name = spec.name}

Adopt ==
  /\ pc = "adopt"
  /\ \/ \E i \in Found(mem.spec, mem.anchor) :
          /\ Continue("read", [mem EXCEPT !.status = Observed(i)])
          /\ NoFault /\ UNCHANGED crVars
     \/ /\ Found(mem.spec, mem.anchor) = {}
        /\ IF CanCreate(mem.spec.creation)
           THEN Continue("create", mem) /\ NoFault /\ UNCHANGED crVars
           ELSE Refused("CreationNotAllowed")
     \/ CallFails("ExternalReadFailed")
  /\ UNCHANGED <<remote, envVars>>

\* Infisical may make a project identity a member of its project at once.
Created(roles) ==
  [state |-> "Present", creator |-> "Operator", home |-> mem.anchor,
   name |-> mem.spec.name, config |-> mem.spec.config,
   membership |-> IF mem.anchor \in Projects THEN [NoMembership EXCEPT ![mem.anchor] = roles]
                  ELSE NoMembership]
FirstRoles == IF mem.anchor \in Projects THEN {None, OtherRoles} ELSE {None}

CreateIdentity ==
  /\ pc = "create"
  /\ \/ \E i \in IdentityIDs, roles \in FirstRoles :
          /\ remote[i].state = "Unused"
          /\ remote' = [remote EXCEPT ![i] = Created(roles)]
          /\ \/ /\ Continue("read", [mem EXCEPT !.status = Observed(i)])
                /\ NoFault /\ UNCHANGED crVars
             \/ AnswerLost(NotReady("ExternalCreateFailed"))
     \/ /\ \A i \in IdentityIDs : remote[i].state # "Unused"
        /\ Refused("ExternalCreateFailed")
        /\ UNCHANGED remote
     \/ CallFails("ExternalCreateFailed")
  /\ UNCHANGED envVars

-----------------------------------------------------------------------------
(* Reconcile: the identity itself *)

\* A project identity is read and written under its project, an organization
\* identity by its id alone.
Reachable(i) == Present(i) /\ (mem.spec.scope = "Project" => remote[i].home = mem.anchor)

\* validateObservedIdentity
OwnerMatches(i) == remote[i].home = mem.anchor

\* identityNeedsUpdate
NeedsUpdate(i, spec) == remote[i].name # spec.name \/ remote[i].config # spec.config

\* The memberships are reconciled one after the other.  The bound projects of
\* an organization identity are resolved again, each when its turn comes; that
\* of a project identity is the anchor.
ProjectFor(m, ref) == IF m.spec.scope = "Project" THEN m.anchor ELSE resolved[ref]
NextBinding(m) ==
  \/ /\ m.todo = {}
     /\ Continue("persist", [m EXCEPT !.project = None, !.roles = None])
     /\ UNCHANGED crVars
  \/ \E ref \in m.todo :
       \/ /\ ProjectFor(m, ref) # None
          /\ Continue("readMembership", [m EXCEPT !.todo = @ \ {ref}, !.roles = m.spec.roles[ref],
                                                  !.project = ProjectFor(m, ref)])
          /\ UNCHANGED crVars
       \/ /\ ProjectFor(m, ref) = None
          /\ ReturnError(m.status, NotReady("RoleMembershipReconcileFailed"))

BeginMemberships ==
  NextBinding([mem EXCEPT !.status = [Observed(mem.status.identity) EXCEPT !.memberships = {}],
                          !.todo = Managed(mem.spec)])

\* Mutant: the external ids are not reset.
ClearedCondition == [mem.status EXCEPT !.reason = NotReady("RemoteIdentityMissing")]
ClearedStatus == [NoStatus EXCEPT !.reason = NotReady("RemoteIdentityMissing")]

ReadIdentity ==
  /\ pc = "read"
  /\ \/ /\ Reachable(mem.status.identity) /\ OwnerMatches(mem.status.identity)
        /\ IF NeedsUpdate(mem.status.identity, mem.spec)
           THEN Continue("update", mem) /\ UNCHANGED crVars
           ELSE BeginMemberships
        /\ NoFault
     \/ /\ Reachable(mem.status.identity) /\ ~OwnerMatches(mem.status.identity)
        /\ Refused("ExternalIdentityMismatch")
     \/ /\ ~Reachable(mem.status.identity)
        /\ PatchStatus(mem.status, ClearedStatus)
        /\ EndReconcile /\ NoFault
     \/ CallFails("ExternalReadFailed")
  /\ UNCHANGED <<remote, envVars>>

UpdateIdentity ==
  /\ pc = "update"
  /\ \/ /\ Reachable(mem.status.identity)
        /\ remote' = [remote EXCEPT ![mem.status.identity].name = mem.spec.name,
                                    ![mem.status.identity].config = mem.spec.config]
        /\ \/ BeginMemberships /\ NoFault
           \/ AnswerLost(NotReady("ExternalUpdateFailed"))
     \/ ~Reachable(mem.status.identity) /\ Refused("ExternalUpdateFailed")
        /\ UNCHANGED remote
     \/ CallFails("ExternalUpdateFailed")
  /\ UNCHANGED envVars

-----------------------------------------------------------------------------
(* Reconcile: one membership *)

\* What a membership call finds; "not found" is answered for a missing
\* identity too.
Held == IF Present(mem.status.identity)
        THEN remote[mem.status.identity].membership[mem.project] ELSE None

\* Mutant: a membership that exists is as wanted.
RolesMissing(have, want) == have = None
\* identityRoleSlugsEqual
RolesDiffer(have, want) == have # want

\* The membership read is reported, and the next binding begins.
Report == NextBinding([mem EXCEPT !.status.memberships = @ \cup {mem.project}])
Compare ==
  IF RolesDiffer(Held, mem.roles)
  THEN Continue("updateMembership", mem) /\ UNCHANGED crVars
  ELSE Report

MembershipFails   == CallFails("RoleMembershipReconcileFailed")
MembershipRefused == Refused("RoleMembershipReconcileFailed") /\ UNCHANGED remote

ReadMembership ==
  /\ pc = "readMembership"
  /\ \/ /\ IF Held = None THEN Continue("createMembership", mem) /\ UNCHANGED crVars
           ELSE Compare
        /\ NoFault /\ UNCHANGED remote
     \/ MembershipFails
  /\ UNCHANGED envVars

\* A write of the roles; `accepted` is Infisical's answer, `step` what follows.
WriteMembership(accepted, step) ==
  /\ \/ /\ accepted
        /\ remote' = [remote EXCEPT ![mem.status.identity].membership[mem.project] = mem.roles]
        /\ \/ Continue(step, mem) /\ NoFault /\ UNCHANGED crVars
           \/ AnswerLost(NotReady("RoleMembershipReconcileFailed"))
     \/ ~accepted /\ MembershipRefused
     \/ MembershipFails
  /\ UNCHANGED envVars

CreateMembership ==
  /\ pc = "createMembership"
  /\ WriteMembership(Present(mem.status.identity) /\ Held = None, "readCreated")

UpdateMembership ==
  /\ pc = "updateMembership"
  /\ WriteMembership(Held # None, "readUpdated")

ReadCreated ==
  /\ pc = "readCreated"
  /\ \/ Held # None /\ Compare /\ NoFault /\ UNCHANGED remote
     \/ Held = None /\ MembershipRefused
     \/ MembershipFails
  /\ UNCHANGED envVars

\* What was written is read back and reported, not compared again.
ReadUpdated ==
  /\ pc = "readUpdated"
  /\ \/ Held # None /\ Report /\ NoFault /\ UNCHANGED remote
     \/ Held = None /\ MembershipRefused
     \/ MembershipFails
  /\ UNCHANGED envVars

PersistReady ==
  /\ pc = "persist"
  /\ \/ /\ PatchStatus(mem.before, [mem.status EXCEPT !.reason = ReadyFor(mem.generation)])
        /\ NoFault
     \/ Fault("rejected") /\ UNCHANGED crVars
  /\ EndReconcile
  /\ UNCHANGED <<remote, envVars>>

-----------------------------------------------------------------------------
(* Deletion *)

\* With an identity go its memberships.
Delete(i) == remote' = [remote EXCEPT ![i].state = "Deleted", ![i].membership = NoMembership]

\* Mutant: the project that the reference shows now.
DeletionHomeNow(status) == mem.anchor
\* A project identity is deleted under the project recorded with it.
DeletionHome(status) == status.home
Addressed(i) ==
  Present(i) /\ (mem.spec.scope = "Project" => remote[i].home = DeletionHome(mem.status))

Protected(i) == remote[i].config \in ProtectedConfigs

\* Mutant: an identity that is not found is an error.
DeleteAcceptedPresent(i) == Addressed(i) /\ ~Protected(i)
\* Infisical refuses to delete a protected identity; a missing one counts as
\* deleted.
DeleteAccepted(i) == Addressed(i) => ~Protected(i)

\* Errors are returned and no condition records them.
DeleteIdentity ==
  /\ pc = "deleteIdentity"
  /\ \/ /\ DeleteAccepted(mem.status.identity)
        /\ IF Addressed(mem.status.identity) THEN Delete(mem.status.identity)
           ELSE UNCHANGED remote
        /\ \/ Continue("deleteFinalizer", mem) /\ NoFault
           \/ EndReconcile /\ Fault("lost")
     \/ /\ ~DeleteAccepted(mem.status.identity)
        /\ EndReconcile /\ NoFault /\ UNCHANGED remote
     \/ /\ EndReconcile /\ Fault("rejected") /\ UNCHANGED remote
  /\ UNCHANGED <<crVars, envVars>>

DeleteFinalizer ==
  /\ pc = "deleteFinalizer"
  /\ RemoveFinalizer(mem.current)
  /\ EndReconcile
  /\ UNCHANGED <<remote, envVars, faults>>

-----------------------------------------------------------------------------
(* Everybody else *)

Crash ==
  /\ pc # Idle
  /\ Fault("crash") /\ EndReconcile
  /\ UNCHANGED <<crVars, remote, envVars>>

DeliverResource ==
  /\ CR!Deliver
  /\ UNCHANGED <<remote, envVars, pc, mem, faults>>

\* The CRD keeps the scope, projectRef and organizationRef as they are.
EditSpec ==
  /\ Disturb("spec") /\ api.exists
  /\ \E s \in Specs \ {api.spec} :
       /\ s.scope = api.spec.scope
       /\ CR!Put([api EXCEPT !.spec = s, !.generation = @ + 1])
  /\ OutdateCopy
  /\ UNCHANGED <<remote, resolved>>

DeleteResource ==
  /\ Disturb("delete") /\ api.exists /\ ~api.deleting
  /\ CR!Put([api EXCEPT !.deleting = api.finalizer, !.exists = api.finalizer])
  /\ OutdateCopy
  /\ UNCHANGED <<remote, resolved>>

\* An Infisical administrator deletes an identity or changes its configuration
\* or one of its memberships.
RemoveOutside ==
  /\ Disturb("remove")
  /\ \E i \in IdentityIDs : Present(i) /\ Delete(i)
  /\ UNCHANGED <<crVars, resolved, mem>>
ConfigureOutside ==
  /\ Disturb("configure")
  /\ \E i \in IdentityIDs, g \in Configs :
       Present(i) /\ remote[i].config # g /\ remote' = [remote EXCEPT ![i].config = g]
  /\ UNCHANGED <<crVars, resolved, mem>>
GrantOutside ==
  /\ Disturb("grant")
  /\ \E i \in IdentityIDs, p \in Projects, roles \in {None, OtherRoles} :
       /\ Present(i) /\ remote[i].membership[p] # roles
       /\ remote' = [remote EXCEPT ![i].membership[p] = roles]
  /\ UNCHANGED <<crVars, resolved, mem>>

\* A dependency loses its id, or shows another one: its resource was deleted
\* and made again, or its external object was.
ChangeDependency ==
  /\ Disturb("dependency")
  /\ \E d \in Dependencies : \E id \in (Targets[d] \cup {None}) \ {resolved[d]} :
       resolved' = [resolved EXCEPT ![d] = id]
  /\ UNCHANGED <<crVars, remote, mem>>
RestoreDependency ==
  /\ \E d \in Dependencies : \E id \in Targets[d] :
       resolved[d] = None /\ resolved' = [resolved EXCEPT ![d] = id]
  /\ UNCHANGED <<crVars, remote, disturbances, pc, mem, faults>>

-----------------------------------------------------------------------------
ReconcileMembership ==
  \/ ReadMembership \/ CreateMembership \/ ReadCreated \/ UpdateMembership \/ ReadUpdated
Reconcile ==
  \/ EnsureFinalizer \/ BeginReconcile \/ BeginDeletion
  \/ Adopt \/ CreateIdentity \/ ReadIdentity \/ UpdateIdentity
  \/ ReconcileMembership \/ PersistReady
  \/ DeleteIdentity \/ DeleteFinalizer

Outside ==
  \/ EditSpec \/ DeleteResource \/ RemoveOutside \/ ConfigureOutside \/ GrantOutside
  \/ ChangeDependency \/ RestoreDependency

Next == Reconcile \/ Crash \/ DeliverResource \/ Outside

Spec == Init /\ [][Next]_vars

\* As in UniversalAuth: weak fairness of the controller, of its cache and of
\* the return of dependencies; nothing is assumed of users and faults.
FairSpec == Spec /\ WF_vars(Reconcile) /\ WF_vars(DeliverResource) /\ WF_vars(RestoreDependency)

-----------------------------------------------------------------------------
(* Safety *)

Operators == {i \in IdentityIDs : Present(i) /\ remote[i].creator = "Operator"}

\* The operator never has two identities of one owner for one resource, although
\* a crash, a lost answer or a stale cache makes it forget the id of one it
\* created (Create after FindIdentity, infisicalidentity_controller.go:104-150).
OneIdentity == \A i, j \in Operators : remote[i].home = remote[j].home => i = j

\* The two ids in the status belong together: the recorded project or
\* organization owns the recorded identity, although merge patches of different
\* reconciliations write them.  Deletion depends on it (reconcileIdentityDeletion).
RecordedAtHome ==
  api.status.identity # None => remote[api.status.identity].home = api.status.home

AsDeclared(identity, spec) ==
  identity.state = "Present" /\ identity.name = spec.name /\ identity.config = spec.config

\* Who waits for Ready with the observed generation (persistStatus at the end of
\* reconcileIdentity) finds the identity, unless it was removed since, as the
\* spec declares it, with every declared binding granted in a project that its
\* reference has shown.
ReadyMeansDeclared ==
  LET i == api.status.identity
  IN  api.status.reason = ReadyFor(api.generation) /\ i # None /\ Present(i) =>
        /\ AsDeclared(remote[i], api.spec)
        /\ \A ref \in Managed(api.spec) : \E p \in Targets[ref] :
             remote[i].membership[p] = api.spec.roles[ref]

\* The stored status no longer has the identity that the reconciliation started
\* from.
Overtaken == mem.before.identity # api.status.identity

\* Neither an edit while a reconciliation runs, nor one of several bindings that
\* fails, nor a stale cache makes Ready promise more than there is; but for one
\* case: the last patch of a reconciliation that started from a stale copy sends
\* Ready, and not the identity where that copy had it already, so that Ready may
\* come to stand beside an identity recorded meanwhile.
ReadyHonest ==
  [][ ReadyMeansDeclared /\ ~ReadyMeansDeclared' => pc = "persist" /\ Overtaken ]_vars

\* The operator grants roles only in the project or the organization that owns
\* the identity (identityAnchor, "every bound project must report the same
\* organization").
Inside(i, p) == remote[i].home \in {p, OrganizationOf[p]}
OperatorStep == pc' # pc
GrantsInside ==
  [][ OperatorStep /\ pc # "create" =>
        (\A i \in IdentityIDs, p \in Projects :
           remote'[i].membership[p] \notin {remote[i].membership[p], None} => Inside(i, p)) ]_vars

\* deletionPolicy Delete: the recorded identity is gone when the resource is,
\* also when the project reference has come to show another project.
DeletionDeletesRecorded ==
  [][ /\ api.exists /\ ~api'.exists
      /\ api.finalizer /\ api.spec.deletion = "Delete" /\ api.status.identity # None
      => remote'[api.status.identity].state # "Present" ]_vars

-----------------------------------------------------------------------------
(* Liveness *)

\* A vanished identity is replaced, drift is undone, and every declared binding
\* is granted in the project that its reference shows in the end.
EventuallyAsDeclared ==
  <>[](api.exists /\ ~api.deleting =>
         /\ api.status.reason = ReadyFor(api.generation)
         /\ api.status.identity # None
         /\ AsDeclared(remote[api.status.identity], api.spec)
         /\ \A ref \in Managed(api.spec) :
              /\ resolved[ref] # None
              /\ remote[api.status.identity].membership[resolved[ref]] = api.spec.roles[ref])

\* Only Infisical's delete protection holds a deletion up.
HeldByProtection ==
  LET i == api.status.identity IN i # None /\ Present(i) /\ Protected(i)
DeletionCompletes == <>[](api.exists /\ api.deleting => HeldByProtection)
=============================================================================
