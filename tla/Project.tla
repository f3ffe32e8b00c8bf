------------------------------- MODULE Project ------------------------------
(***************************************************************************)
(* InfisicalProjectReconciler: creates or adopts an Infisical project,     *)
(* keeps its mutable fields as declared, gives the creating identity       *)
(* admin access when the resource is bound to an organization, and         *)
(* deletes the project with the resource if asked to.                      *)
(* Source: infisicalproject_controller.go, with the calls it makes in      *)
(* internal/infisicalclient/projects.go and identities.go.                 *)
(*                                                                         *)
(* As in UniversalAuth, one resource is followed through one lifetime and  *)
(* a reconciliation is a sequence of steps, one per call to Infisical.     *)
(***************************************************************************)
EXTENDS Controller, FiniteSets

CONSTANTS
  ProjectIDs,         \* ids of projects; once all are taken, creation is refused
  InitiallyPresent,   \* projects that exist before the operator acts
  Organizations,      \* external ids of organizations
  TokenOrganization,  \* the one in which the connection's token creates projects
  TokenNamesIdentity, \* whether the token's claims name the creating identity
  Bindings,           \* whether spec.organizationRef is set: the choices considered
  Names,              \* values of spec.projectName
  Slugs,              \* values of spec.slug: project slugs, or None
  Descriptions,       \* values of spec.description
  NoDescription,      \* the empty description ""
  Protections,        \* values of spec.hasDeleteProtection
  CreationChoices,    \* creation policies considered
  DeletionChoices     \* deletion policies considered

ASSUME ConstantsAssumption ==
  /\ None \notin ProjectIDs \cup Organizations \cup Names
  /\ InitiallyPresent \subseteq ProjectIDs
  /\ TokenOrganization \in Organizations /\ TokenNamesIdentity \in BOOLEAN
  /\ Bindings \subseteq BOOLEAN
  /\ Protections \subseteq BOOLEAN
  /\ CreationChoices \subseteq CreationPolicies
  /\ DeletionChoices \subseteq DeletionPolicies

\* A bound resource names an InfisicalOrganization; which organization that is
\* is not part of the spec.
Specs == [bound: Bindings, name: Names, slug: Slugs, description: Descriptions,
          protected: Protections, creation: CreationChoices, deletion: DeletionChoices]

Reasons == {"", "Ready", "OrganizationNotReady", "ConnectionNotReady", "ExternalReadFailed",
            "ExternalProjectMismatch", "RemoteProjectMissing", "ExternalCreateFailed",
            "ExternalMembershipFailed", "ExternalUpdateFailed"}
Statuses == [project: ProjectIDs \cup {None}, reason: Reasons]
NoStatus == [project |-> None, reason |-> ""]

Resources == [exists: BOOLEAN, deleting: BOOLEAN, finalizer: BOOLEAN,
              spec: Specs, status: Statuses]

\* A project in Infisical.  A slug of None is one that Infisical generated.
\* `membership` is the role of the creating identity; `creator` is history.
Memberships == {"None", "Member", "Admin"}
ProjectRecords ==
  [state: {"Unused", "Present", "Deleted"}, creator: {"Nobody", "Operator", "Other"},
   organization: Organizations \cup {None}, name: Names \cup {None},
   slug: Slugs \cup {None}, description: Descriptions \cup {NoDescription},
   protected: BOOLEAN, membership: Memberships]
Unused == [state |-> "Unused", creator |-> "Nobody", organization |-> None, name |-> None,
           slug |-> None, description |-> NoDescription, protected |-> FALSE,
           membership |-> "None"]

VARIABLES
  remote,        \* project id -> ProjectRecords
  organization,  \* status.organizationID of the InfisicalOrganization, or None
  connected      \* whether the InfisicalConnection is present and ready

envVars == <<organization, connected, disturbances>>
vars    == <<crVars, remote, envVars, pc, mem, faults>>

Steps == {"adopt", "create", "readMembership", "writeMembership", "read", "update", "persist",
          "deleteProject", "deleteFinalizer"}

\* As in UniversalAuth; `expected` is the organization that organizationRef
\* resolved to, `membership` the role that was read.
Memories == [spec: Specs, status: Statuses, before: Statuses,
             expected: Organizations \cup {None}, membership: Memberships, current: BOOLEAN]

TypeOK ==
  /\ api \in Resources /\ cache \in Resources /\ undelivered \in Seq(Resources)
  /\ remote \in [ProjectIDs -> ProjectRecords]
  /\ \/ pc = Idle /\ mem = None
     \/ pc \in Steps /\ mem \in Memories
  /\ organization \in Organizations \cup {None} /\ connected \in BOOLEAN
  /\ faults \in Nat /\ disturbances \in Nat

Present(p) == remote[p].state = "Present"

Init ==
  /\ \E s \in Specs :
       api = [exists |-> TRUE, deleting |-> FALSE, finalizer |-> FALSE,
              spec |-> s, status |-> NoStatus]
  /\ cache = api /\ undelivered = <<>>
  /\ \E o \in [InitiallyPresent -> Organizations], n \in [InitiallyPresent -> Names] :
       remote = [p \in ProjectIDs |->
         IF p \in InitiallyPresent
         THEN [Unused EXCEPT !.state = "Present", !.creator = "Other",
                             !.organization = o[p], !.name = n[p], !.membership = "Member"]
         ELSE Unused]
  /\ organization \in Organizations /\ connected = TRUE
  /\ pc = Idle /\ mem = None
  /\ faults = 0 /\ disturbances = 0

-----------------------------------------------------------------------------
(* Reconcile, up to its first call *)

ReadCache ==
  /\ pc = Idle /\ cache.exists
  /\ IF CR!Current THEN NoFault ELSE Fault("stale")

EnsureFinalizer ==
  /\ ReadCache
  /\ ~cache.deleting /\ cache.spec.deletion = "Delete" /\ ~cache.finalizer
  /\ CR!Current
  /\ CR!Put([api EXCEPT !.finalizer = TRUE])
  /\ EndReconcile
  /\ UNCHANGED <<remote, envVars>>

Loaded(expected) ==
  [spec |-> cache.spec, status |-> cache.status, before |-> cache.status,
   expected |-> expected, membership |-> "None", current |-> CR!Current]

\* Mutant: the creating identity is left without access.
AfterAcquireRead(spec) == "read"
\* ensureProjectCreatorMembership does nothing for an unbound project, or when
\* the creating identity is not known.
AfterAcquire(spec) ==
  IF spec.bound /\ TokenNamesIdentity THEN "readMembership" ELSE "read"

FirstStep(resource) ==
  IF resource.status.project # None THEN AfterAcquire(resource.spec)
  ELSE IF CanAdopt(resource.spec.creation) THEN "adopt" ELSE "create"

\* expectedOrganizationID: resolved anew by every reconciliation.
ExpectedOrganization(spec) == IF spec.bound THEN organization ELSE None
OrganizationReady(spec)    == spec.bound => organization # None

BeginReconcile ==
  /\ ReadCache
  /\ ~cache.deleting /\ (cache.spec.deletion = "Delete" => cache.finalizer)
  /\ \/ /\ OrganizationReady(cache.spec) /\ connected
        /\ Continue(FirstStep(cache), Loaded(ExpectedOrganization(cache.spec)))
        /\ UNCHANGED crVars
     \/ /\ ~OrganizationReady(cache.spec)
        /\ ReturnError(cache.status, "OrganizationNotReady")
     \/ /\ OrganizationReady(cache.spec) /\ ~connected
        /\ ReturnError(cache.status, "ConnectionNotReady")
  /\ UNCHANGED <<remote, envVars>>

NothingToDelete(resource) ==
  resource.spec.deletion = "Orphan" \/ resource.status.project = None

\* A deletion does not ask which organization the project is expected in.
BeginDeletion ==
  /\ ReadCache
  /\ cache.deleting
  /\ \/ /\ NothingToDelete(cache)
        /\ RemoveFinalizer(CR!Current)
        /\ EndReconcile
     \/ /\ ~NothingToDelete(cache) /\ connected
        /\ Continue("deleteProject", Loaded(None))
        /\ UNCHANGED crVars
  /\ UNCHANGED <<remote, envVars>>

-----------------------------------------------------------------------------
(* Reconcile: adopt or create *)

\* A call to Infisical that failed without effect.
CallFails(reason) ==
  /\ Fault("rejected")
  /\ ReturnError(mem.status, reason)
  /\ UNCHANGED remote

\* A failure that the state of Infisical or the code itself decides.
Refused(reason) ==
  /\ ReturnError(mem.status, reason)
  /\ NoFault

WithSlug(slug) == {p \in ProjectIDs : Present(p) /\ slug # None /\ remote[p].slug = slug}
WithName(name) == {p \in ProjectIDs : Present(p) /\ remote[p].name = name}

\* Mutant: a requested slug is the only key.
FoundBySlugOnly(spec) == IF spec.slug # None THEN WithSlug(spec.slug) ELSE WithName(spec.name)
\* FindProject: by slug first, then by name.  Several projects may have the
\* name; the list has no promised order.  The two reads are taken as one.
Found(spec) == IF WithSlug(spec.slug) # {} THEN WithSlug(spec.slug) ELSE WithName(spec.name)

\* validateProjectOrganization
\* Mutant: a project of any organization will do.
AnyOrganization(p, expected) == TRUE
OrganizationMatches(p, expected) == expected # None => remote[p].organization = expected

Adopt ==
  /\ pc = "adopt"
  /\ \/ \E p \in Found(mem.spec) :
          \/ /\ OrganizationMatches(p, mem.expected)
             /\ Continue(AfterAcquire(mem.spec), [mem EXCEPT !.status.project = p])
             /\ NoFault /\ UNCHANGED crVars
          \/ ~OrganizationMatches(p, mem.expected) /\ Refused("ExternalProjectMismatch")
     \/ /\ Found(mem.spec) = {}
        /\ IF CanCreate(mem.spec.creation)
           THEN Continue("create", mem) /\ NoFault /\ UNCHANGED crVars
           ELSE Refused("RemoteProjectMissing")
     \/ CallFails("ExternalReadFailed")
  /\ UNCHANGED <<remote, envVars>>

SlugTaken(slug, p) == WithSlug(slug) \ {p} # {}

Created(spec) ==
  [state |-> "Present", creator |-> "Operator", organization |-> TokenOrganization,
   name |-> spec.name, slug |-> spec.slug, description |-> spec.description,
   protected |-> spec.protected, membership |-> "None"]

\* The error patch carries the condition only: the id of a project created in
\* the wrong organization is set in memory first, and so is not stored.
CreateProject ==
  /\ pc = "create"
  /\ \/ \E p \in ProjectIDs :
          /\ remote[p].state = "Unused" /\ ~SlugTaken(mem.spec.slug, p)
          /\ remote' = [remote EXCEPT ![p] = Created(mem.spec)]
          /\ \/ /\ mem.expected \in {None, TokenOrganization}
                /\ Continue(AfterAcquire(mem.spec), [mem EXCEPT !.status.project = p])
                /\ NoFault /\ UNCHANGED crVars
             \/ /\ mem.expected \notin {None, TokenOrganization}
                /\ ReturnError([mem.status EXCEPT !.project = p], "ExternalProjectMismatch")
                /\ NoFault
             \/ AnswerLost("ExternalCreateFailed")
     \/ /\ \A p \in ProjectIDs : remote[p].state # "Unused" \/ SlugTaken(mem.spec.slug, p)
        /\ Refused("ExternalCreateFailed")
        /\ UNCHANGED remote
     \/ CallFails("ExternalCreateFailed")
  /\ UNCHANGED envVars

-----------------------------------------------------------------------------
(* Reconcile: the creating identity's membership, and the project itself *)

\* identityMembershipRolesEqual
IsAdministered(p) == remote[p].membership = "Admin"

ReadMembership ==
  /\ pc = "readMembership"
  /\ \/ /\ Present(mem.status.project)
        /\ IF IsAdministered(mem.status.project)
           THEN Continue("read", mem)
           ELSE Continue("writeMembership",
                         [mem EXCEPT !.membership = remote[mem.status.project].membership])
        /\ NoFault /\ UNCHANGED crVars
     \* "Not found" is answered for a missing project too.
     \/ /\ ~Present(mem.status.project)
        /\ Continue("writeMembership", [mem EXCEPT !.membership = "None"])
        /\ NoFault /\ UNCHANGED crVars
     \/ CallFails("ExternalMembershipFailed")
  /\ UNCHANGED <<remote, envVars>>

\* Update what was read, create what was not; the one is refused when there is
\* no membership by now, the other when there is one.
WriteAccepted(p) ==
  Present(p) /\ (mem.membership = "None" <=> remote[p].membership = "None")

WriteMembership ==
  /\ pc = "writeMembership"
  /\ \/ /\ WriteAccepted(mem.status.project)
        /\ remote' = [remote EXCEPT ![mem.status.project].membership = "Admin"]
        /\ \/ Continue("read", mem) /\ NoFault /\ UNCHANGED crVars
           \/ AnswerLost("ExternalMembershipFailed")
     \/ ~WriteAccepted(mem.status.project) /\ Refused("ExternalMembershipFailed")
        /\ UNCHANGED remote
     \/ CallFails("ExternalMembershipFailed")
  /\ UNCHANGED envVars

\* projectNeedsUpdate
NeedsUpdate(p, spec) ==
  \/ remote[p].name # spec.name \/ remote[p].description # spec.description
  \/ spec.slug # None /\ remote[p].slug # spec.slug
  \/ remote[p].protected # spec.protected

\* ProjectPatch: empty strings are left out of the request.
Patched(p, spec) ==
  [remote[p] EXCEPT
     !.name        = spec.name,
     !.description = IF spec.description = NoDescription THEN @ ELSE spec.description,
     !.slug        = IF spec.slug = None THEN @ ELSE spec.slug,
     !.protected   = spec.protected]

\* Mutant: the external id is not reset.
ClearedCondition == [mem.status EXCEPT !.reason = "RemoteProjectMissing"]
ClearedStatus == [NoStatus EXCEPT !.reason = "RemoteProjectMissing"]

ReadProject ==
  /\ pc = "read"
  /\ \/ /\ Present(mem.status.project)
        /\ IF OrganizationMatches(mem.status.project, mem.expected)
           THEN /\ Continue(IF NeedsUpdate(mem.status.project, mem.spec) THEN "update"
                            ELSE "persist", mem)
                /\ NoFault /\ UNCHANGED crVars
           ELSE Refused("ExternalProjectMismatch")
     \/ /\ ~Present(mem.status.project)
        /\ PatchStatus(mem.status, ClearedStatus)
        /\ EndReconcile /\ NoFault
     \/ CallFails("ExternalReadFailed")
  /\ UNCHANGED <<remote, envVars>>

UpdateAccepted(p, spec) == Present(p) /\ ~SlugTaken(spec.slug, p)

UpdateProject ==
  /\ pc = "update"
  /\ \/ /\ UpdateAccepted(mem.status.project, mem.spec)
        /\ remote' = [remote EXCEPT ![mem.status.project] = Patched(mem.status.project, mem.spec)]
        /\ \/ Continue("persist", mem) /\ NoFault /\ UNCHANGED crVars
           \/ AnswerLost("ExternalUpdateFailed")
     \/ ~UpdateAccepted(mem.status.project, mem.spec) /\ Refused("ExternalUpdateFailed")
        /\ UNCHANGED remote
     \/ CallFails("ExternalUpdateFailed")
  /\ UNCHANGED envVars

PersistReady ==
  /\ pc = "persist"
  /\ \/ /\ PatchStatus(mem.before, [mem.status EXCEPT !.reason = "Ready"])
        /\ NoFault
     \/ Fault("rejected") /\ UNCHANGED crVars
  /\ EndReconcile
  /\ UNCHANGED <<remote, envVars>>

-----------------------------------------------------------------------------
(* Deletion *)

Delete(p) == remote' = [remote EXCEPT ![p].state = IF Present(p) THEN "Deleted" ELSE @]

\* Mutant: a project that is not found is an error.
DeleteAcceptedPresent(p) == Present(p) /\ ~remote[p].protected
\* Infisical refuses to delete a protected project; a missing one counts as
\* deleted.
DeleteAccepted(p) == Present(p) => ~remote[p].protected

\* Errors are returned and no condition records them.
DeleteProject ==
  /\ pc = "deleteProject"
  /\ \/ /\ DeleteAccepted(mem.status.project)
        /\ Delete(mem.status.project)
        /\ \/ Continue("deleteFinalizer", mem) /\ NoFault
           \/ EndReconcile /\ Fault("lost")
     \/ /\ ~DeleteAccepted(mem.status.project)
        /\ EndReconcile /\ NoFault /\ UNCHANGED remote
     \/ /\ EndReconcile /\ Fault("rejected") /\ UNCHANGED remote
  /\ UNCHANGED <<crVars, envVars>>

DeleteFinalizer ==
  /\ pc = "deleteFinalizer"
  /\ RemoveFinalizer(mem.current)
  /\ EndReconcile
  /\ UNCHANGED <<remote, envVars, faults>>

-----------------------------------------------------------------------------
(* Everybody else *)

Crash ==
  /\ pc # Idle
  /\ Fault("crash") /\ EndReconcile
  /\ UNCHANGED <<crVars, remote, envVars>>

DeliverResource ==
  /\ CR!Deliver
  /\ UNCHANGED <<remote, envVars, pc, mem, faults>>

\* The CRD lets organizationRef be set once and never be changed or removed.
AdmittedEdit(old, new) == new # old /\ (old.bound => new.bound)

EditSpec ==
  /\ Disturb("spec") /\ api.exists
  /\ \E s \in Specs : AdmittedEdit(api.spec, s) /\ CR!Put([api EXCEPT !.spec = s])
  /\ OutdateCopy
  /\ UNCHANGED <<remote, organization, connected>>

DeleteResource ==
  /\ Disturb("delete") /\ api.exists /\ ~api.deleting
  /\ CR!Put([api EXCEPT !.deleting = api.finalizer, !.exists = api.finalizer])
  /\ OutdateCopy
  /\ UNCHANGED <<remote, organization, connected>>

\* An Infisical administrator deletes a project or changes one field of it.
RemoveOutside ==
  /\ Disturb("remove")
  /\ \E p \in ProjectIDs : Present(p) /\ Delete(p)
  /\ UNCHANGED <<crVars, organization, connected, mem>>
ChangedOutside(project) ==
  {[project EXCEPT !.description = d] : d \in Descriptions \cup {NoDescription}}
  \cup {[project EXCEPT !.protected = ~@], [project EXCEPT !.membership = "None"],
        [project EXCEPT !.membership = "Member"]}
ConfigureOutside ==
  /\ Disturb("configure")
  /\ \E p \in ProjectIDs :
       /\ Present(p)
       /\ \E changed \in ChangedOutside(remote[p]) \ {remote[p]} :
            remote' = [remote EXCEPT ![p] = changed]
  /\ UNCHANGED <<crVars, organization, connected, mem>>

\* The controller of organizations clears an id that its credential does not see
\* and acquires one again, perhaps another; the resource may also be replaced.
ChangeOrganization ==
  /\ Disturb("organization")
  /\ organization' \in (Organizations \cup {None}) \ {organization}
  /\ UNCHANGED <<crVars, remote, connected, mem>>
LoseConnection ==
  /\ Disturb("connection")
  /\ connected /\ connected' = FALSE
  /\ UNCHANGED <<crVars, remote, organization, mem>>
RestoreDependency ==
  /\ \/ ~connected /\ connected' = TRUE /\ UNCHANGED organization
     \/ organization = None /\ organization' \in Organizations /\ UNCHANGED connected
  /\ UNCHANGED <<crVars, remote, disturbances, pc, mem, faults>>

-----------------------------------------------------------------------------
Reconcile ==
  \/ EnsureFinalizer \/ BeginReconcile \/ BeginDeletion
  \/ Adopt \/ CreateProject \/ ReadMembership \/ WriteMembership
  \/ ReadProject \/ UpdateProject \/ PersistReady
  \/ DeleteProject \/ DeleteFinalizer

Outside ==
  \/ EditSpec \/ DeleteResource \/ RemoveOutside \/ ConfigureOutside
  \/ ChangeOrganization \/ LoseConnection \/ RestoreDependency

Next == Reconcile \/ Crash \/ DeliverResource \/ Outside

Spec == Init /\ [][Next]_vars

\* As in UniversalAuth: weak fairness of the controller, of its cache and of
\* the return of dependencies; nothing is assumed of users and faults.
FairSpec == Spec /\ WF_vars(Reconcile) /\ WF_vars(DeliverResource) /\ WF_vars(RestoreDependency)

-----------------------------------------------------------------------------
(* Safety *)

Operators == {p \in ProjectIDs : Present(p) /\ remote[p].creator = "Operator"}

\* One resource stands for one project: the operator never has two projects of
\* its own, although a crash, a lost answer or a stale cache makes it forget the
\* id of one it created (Create after FindProject, infisicalproject_controller.go:77-114).
\* A project made in another organization than the expected one is found again too.
OneProject == Cardinality(Operators) <= 1

InBoundary(p, expected) == expected \in {None, remote[p].organization}

\* The stored status no longer records what the reconciliation started from.
Overtaken == mem.before.project # api.status.project

\* What organizationRef resolves to may change at any time, so a project that is
\* recorded may lie outside by now.  But the controller records a project, and
\* says that the one recorded is Ready, only inside the organization that this
\* reconciliation resolved (validateProjectOrganization, lines 83, 107 and 133).
RecordedInsideBoundary ==
  [][ \/ api'.status.project \notin {None, api.status.project}
      \/ api'.status.reason = "Ready" /\ api.status.reason # "Ready" /\ ~Overtaken
      => InBoundary(api'.status.project, mem.expected) ]_vars

OperatorStep == pc' # pc

\* Nothing outside the resolved organization is changed, except for the project
\* that was recorded before: that one is given its administrator before it is
\* checked (lines 115 and 133), and it is deleted without a check.
OutsideIsUntouched ==
  [][ OperatorStep /\ pc # "create" =>
        \A p \in ProjectIDs : remote'[p] # remote[p] =>
          IF pc = "deleteProject" THEN p = mem.before.project
          ELSE \/ InBoundary(p, mem.expected)
               \/ /\ p = mem.before.project
                  /\ remote'[p] = [remote[p] EXCEPT !.membership = "Admin"] ]_vars

\* deletionPolicy Delete: the recorded project is gone when the resource is.
DeletionDeletesRecorded ==
  [][ /\ api.exists /\ ~api'.exists
      /\ api.finalizer /\ api.spec.deletion = "Delete" /\ api.status.project # None
      => remote'[api.status.project].state # "Present" ]_vars

-----------------------------------------------------------------------------
(* Liveness *)

\* An emptied description is left out of the patch, so it is not declared here
\* (ProjectPatch, projects.go:63).
AsDeclared(project, spec) ==
  /\ project.state = "Present" /\ project.name = spec.name
  /\ spec.description # NoDescription => project.description = spec.description
  /\ spec.slug # None => project.slug = spec.slug
  /\ project.protected = spec.protected
  /\ spec.bound /\ TokenNamesIdentity => project.membership = "Admin"

\* A bound project that is gone is never cleared (VanishedIsReplaced).
Vanished ==
  api.spec.bound /\ api.status.project # None /\ ~Present(api.status.project)

\* The project that the resource has, or would find or make, is not in the
\* organization that the resource is bound to.
Foreign ==
  /\ api.spec.bound
  /\ IF api.status.project # None THEN ~InBoundary(api.status.project, organization)
     ELSE IF Found(api.spec) # {} THEN \A p \in Found(api.spec) : ~InBoundary(p, organization)
     ELSE organization # TokenOrganization

\* "Patch mutable fields when they drift", and a project that disappears is
\* replaced: in the end the recorded project is as the spec declares it, and the
\* identity that reconciles a bound one administers it, also when the binding is
\* set late or its role is taken away (ensureProjectCreatorMembership).  A project
\* of another organization, which a change of the InfisicalOrganization can make
\* of a recorded one, ends as a mismatch.
EventuallyAsDeclared ==
  <>[](api.exists /\ ~api.deleting /\ ~Vanished =>
         IF Foreign THEN api.status.reason = "ExternalProjectMismatch"
         ELSE /\ api.status.reason = "Ready"
              /\ api.status.project # None /\ AsDeclared(remote[api.status.project], api.spec))

\* "When an external object disappears, the controller clears the ID"
\* (docs/architecture.md:24), whether or not the project is bound.
VanishedIsReplaced ==
  <>[](api.exists /\ ~api.deleting /\ api.status.project # None => Present(api.status.project))

\* Only Infisical's delete protection, which may be lifted, holds a deletion up.
HeldByProtection ==
  /\ api.status.project # None
  /\ Present(api.status.project) /\ remote[api.status.project].protected
DeletionCompletes == <>[](api.exists /\ api.deleting => HeldByProtection)
=============================================================================
