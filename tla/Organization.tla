---------------------------- MODULE Organization ----------------------------
(***************************************************************************)
(* InfisicalOrganizationReconciler: adopts an organization by its id or by *)
(* its name, or creates one, watches that the credential still sees it and *)
(* deletes it with the resource if asked to.                               *)
(* Source: infisicalorganization_controller.go, with the calls it makes in *)
(* internal/infisicalclient/organizations.go.                              *)
(*                                                                         *)
(* What Infisical answers depends on the credential of the connection: a   *)
(* user token looks organizations up, creates and deletes them; a machine  *)
(* token can only be seen to have access to one.  Name and slug in the     *)
(* status are display only and left out.                                   *)
(***************************************************************************)
EXTENDS Controller

CONSTANTS
  OrganizationIDs,    \* ids of organizations; once all are taken, creation is refused
  InitiallyPresent,   \* organizations that exist before the operator acts
  CreationChoices,    \* creation policies considered
  DeletionChoices     \* deletion policies considered

ASSUME ConstantsAssumption ==
  /\ None \notin OrganizationIDs
  /\ InitiallyPresent \subseteq OrganizationIDs
  /\ CreationChoices \subseteq CreationPolicies
  /\ DeletionChoices \subseteq DeletionPolicies

\* `requested` is spec.organizationID; with it the API server refuses the policy
\* Create.
Specs == {s \in [requested: InitiallyPresent \cup {None},
                 creation: CreationChoices, deletion: DeletionChoices] :
            s.requested # None => s.creation # "Create"}

Reasons == {"", "Ready", "ConnectionNotReady", "ExternalReadFailed",
            "RemoteOrganizationMissing", "CreationNotAllowed", "ExternalCreateFailed",
            "ExternalOrganizationMismatch"}
Statuses == [organization: OrganizationIDs \cup {None}, reason: Reasons]
NoStatus == [organization |-> None, reason |-> ""]

Resources == [exists: BOOLEAN, deleting: BOOLEAN, finalizer: BOOLEAN,
              spec: Specs, status: Statuses]

\* An organization; `named` says that it has the declared name.
OrganizationRecords == [state: {"Unused", "Present", "Gone"}, named: BOOLEAN]

VARIABLES
  remote,       \* organization id -> OrganizationRecords
  user,         \* the credential is a user token, not one of a machine identity
  access,       \* the organizations that the credential gives access to
  goneAnswer,   \* how Infisical answers a user who asks for a deleted organization
  connected     \* whether the connection is ready

credentialVars == <<user, access>>
envVars == <<credentialVars, goneAnswer, connected, disturbances>>
vars    == <<crVars, remote, envVars, pc, mem, faults>>

Steps == {"adopt", "create", "read", "persist", "deleteOrganization", "deleteFinalizer"}
Memories == [spec: Specs, status: Statuses, before: Statuses, current: BOOLEAN]

TypeOK ==
  /\ api \in Resources /\ cache \in Resources /\ undelivered \in Seq(Resources)
  /\ remote \in [OrganizationIDs -> OrganizationRecords]
  /\ user \in BOOLEAN /\ access \subseteq OrganizationIDs /\ connected \in BOOLEAN
  /\ goneAnswer \in {"not found", "unauthorized"}
  /\ \/ pc = Idle /\ mem = None
     \/ pc \in Steps /\ mem \in Memories
  /\ faults \in Nat /\ disturbances \in Nat

Present(o) == remote[o].state = "Present"
Visible(o) == Present(o) /\ o \in access

\* A machine identity belongs to one organization.
Credentials == [user: BOOLEAN, access: SUBSET {o \in OrganizationIDs : Present(o)}]
Possible(c) == ~c.user => \A o, p \in c.access : o = p

Init ==
  /\ \E s \in Specs :
       api = [exists |-> TRUE, deleting |-> FALSE, finalizer |-> FALSE,
              spec |-> s, status |-> NoStatus]
  /\ cache = api /\ undelivered = <<>>
  /\ \E n \in [InitiallyPresent -> BOOLEAN] :
       remote = [o \in OrganizationIDs |->
         IF o \in InitiallyPresent THEN [state |-> "Present", named |-> n[o]]
         ELSE [state |-> "Unused", named |-> FALSE]]
  /\ \E c \in Credentials : Possible(c) /\ user = c.user /\ access = c.access
  /\ goneAnswer \in {"not found", "unauthorized"} /\ connected = TRUE
  /\ pc = Idle /\ mem = None
  /\ faults = 0 /\ disturbances = 0

-----------------------------------------------------------------------------
(* Reconcile, up to its first call *)

ReadCache ==
  /\ pc = Idle /\ cache.exists
  /\ IF CR!Current THEN NoFault ELSE Fault("stale")

EnsureFinalizer ==
  /\ ReadCache
  /\ ~cache.deleting /\ cache.spec.deletion = "Delete" /\ ~cache.finalizer
  /\ CR!Current
  /\ CR!Put([api EXCEPT !.finalizer = TRUE])
  /\ EndReconcile
  /\ UNCHANGED <<remote, envVars>>

Loaded == [spec |-> cache.spec, status |-> cache.status, before |-> cache.status,
           current |-> CR!Current]

FirstStep(resource) ==
  IF resource.status.organization # None THEN "read"
  ELSE IF CanAdopt(resource.spec.creation) THEN "adopt" ELSE "create"

BeginReconcile ==
  /\ ReadCache
  /\ ~cache.deleting /\ (cache.spec.deletion = "Delete" => cache.finalizer)
  /\ \/ connected /\ Continue(FirstStep(cache), Loaded) /\ UNCHANGED crVars
     \/ ~connected /\ ReturnError(cache.status, "ConnectionNotReady")
  /\ UNCHANGED <<remote, envVars>>

NothingToDelete(resource) ==
  resource.spec.deletion = "Orphan" \/ resource.status.organization = None

BeginDeletion ==
  /\ ReadCache
  /\ cache.deleting
  /\ \/ /\ NothingToDelete(cache)
        /\ RemoveFinalizer(CR!Current)
        /\ EndReconcile
     \/ /\ ~NothingToDelete(cache) /\ connected
        /\ Continue("deleteOrganization", Loaded)
        /\ UNCHANGED crVars
  /\ UNCHANGED <<remote, envVars>>

-----------------------------------------------------------------------------
(* FindOrganization *)

\* A call to Infisical that failed without effect.
CallFails(reason) ==
  /\ Fault("rejected")
  /\ ReturnError(mem.status, reason)
  /\ UNCHANGED remote

\* A failure that the state of Infisical or the code itself decides.
Refused(reason) ==
  /\ ReturnError(mem.status, reason)
  /\ NoFault

\* Mutant: without the endpoints that a machine token may use.
FindAsUser(o) ==
  IF user /\ Visible(o) THEN "found"
  ELSE IF user /\ ~Present(o) THEN goneAnswer ELSE "unauthorized"
\* By id: the organization, the error "not found", or nothing at all once the
\* lookup and every weaker check were refused.
Find(o) ==
  IF Visible(o) THEN "found"
  ELSE IF user /\ ~Present(o) THEN goneAnswer ELSE "unauthorized"

\* For a machine token any failure of the membership check is taken for a
\* refusal; workspaces and projects, asked next, may be none.
CheckFailsSilently == ~user /\ Fault("rejected")

\* setOrganizationObservedState
Observed(o) == [mem.status EXCEPT !.organization = o]

Acquire(o) == Continue("read", [mem EXCEPT !.status = Observed(o)]) /\ UNCHANGED crVars
NotFound ==
  IF CanCreate(mem.spec.creation)
  THEN Continue("create", mem) /\ UNCHANGED crVars
  ELSE ReturnError(mem.status, "RemoteOrganizationMissing")

AdoptByID ==
  LET o == mem.spec.requested
  IN  /\ o # None
      /\ \/ Find(o) = "found" /\ Acquire(o) /\ NoFault
         \/ Find(o) = "unauthorized" /\ NotFound /\ NoFault
         \/ Find(o) = "not found" /\ Refused("ExternalReadFailed")
         \/ Find(o) = "found" /\ NotFound /\ CheckFailsSilently

\* Names are not unique: any of that name may come first in the list.
OfName == {o \in OrganizationIDs : Visible(o) /\ remote[o].named}
AdoptByName ==
  /\ mem.spec.requested = None
  /\ \/ user /\ \E o \in OfName : Acquire(o) /\ NoFault
     \/ user /\ OfName = {} /\ NotFound /\ NoFault
     \/ ~user /\ Refused("ExternalReadFailed")

Adopt ==
  /\ pc = "adopt"
  /\ \/ (AdoptByID \/ AdoptByName) /\ UNCHANGED remote
     \/ CallFails("ExternalReadFailed")
  /\ UNCHANGED envVars

\* Only users create; the creator becomes a member.  What was created is
\* reported ready without being read.
CreateOrganization ==
  /\ pc = "create"
  /\ \/ /\ user
        /\ \E o \in OrganizationIDs :
             /\ remote[o].state = "Unused"
             /\ remote' = [remote EXCEPT ![o] = [state |-> "Present", named |-> TRUE]]
             /\ access' = access \cup {o}
             /\ \/ /\ Continue("persist", [mem EXCEPT !.status = Observed(o)])
                   /\ NoFault /\ UNCHANGED crVars
                \/ AnswerLost("ExternalCreateFailed")
     \/ /\ ~user \/ \A o \in OrganizationIDs : remote[o].state # "Unused"
        /\ Refused("ExternalCreateFailed")
        /\ UNCHANGED <<remote, access>>
     \/ CallFails("ExternalCreateFailed") /\ UNCHANGED access
  /\ UNCHANGED <<user, goneAnswer, connected, disturbances>>

-----------------------------------------------------------------------------
(* Reconcile: the organization itself *)

ForgetOrganization ==
  /\ PatchStatus(mem.status, [mem.status EXCEPT !.organization = None,
                                                !.reason = "RemoteOrganizationMissing"])
  /\ EndReconcile

\* organizationID may be set later, once an organization of another id is recorded.
Mismatch == mem.spec.requested \notin {None, mem.status.organization}

ReadOrganization ==
  /\ pc = "read"
  /\ LET o == mem.status.organization
     IN  \/ /\ Find(o) = "found"
            /\ IF Mismatch
               THEN ReturnError(mem.status, "ExternalOrganizationMismatch")
               ELSE Continue("persist", mem) /\ UNCHANGED crVars
            /\ NoFault
         \/ Find(o) = "unauthorized" /\ ForgetOrganization /\ NoFault
         \/ Find(o) = "not found" /\ Refused("ExternalReadFailed")
         \/ Find(o) = "found" /\ ForgetOrganization /\ CheckFailsSilently
         \/ CallFails("ExternalReadFailed")
  /\ UNCHANGED <<remote, envVars>>

PersistReady ==
  /\ pc = "persist"
  /\ \/ /\ PatchStatus(mem.before, [mem.status EXCEPT !.reason = "Ready"])
        /\ NoFault
     \/ Fault("rejected") /\ UNCHANGED crVars
  /\ EndReconcile
  /\ UNCHANGED <<remote, envVars>>

-----------------------------------------------------------------------------
(* Deletion *)

\* Only users delete.
DeleteAnswer(o) ==
  IF user /\ Visible(o) THEN "ok"
  ELSE IF user /\ ~Present(o) THEN goneAnswer ELSE "unauthorized"

\* Mutant: a refused deletion counts too.
RefusedCounts(answer) == answer \in {"ok", "not found", "unauthorized"}
\* Mutant: an organization that is not found is an error.
DeletedOnly(answer) == answer = "ok"
CountsAsDeleted(answer) == answer \in {"ok", "not found"}

\* Errors are returned and no condition records them.
DeleteOrganization ==
  /\ pc = "deleteOrganization"
  /\ LET o == mem.status.organization
     IN  \/ /\ remote' = IF DeleteAnswer(o) = "ok"
                         THEN [remote EXCEPT ![o].state = "Gone"] ELSE remote
            /\ \/ /\ IF CountsAsDeleted(DeleteAnswer(o))
                     THEN Continue("deleteFinalizer", mem) ELSE EndReconcile
                  /\ NoFault
               \/ EndReconcile /\ Fault("lost")
         \/ EndReconcile /\ Fault("rejected") /\ UNCHANGED remote
  /\ UNCHANGED <<crVars, envVars>>

DeleteFinalizer ==
  /\ pc = "deleteFinalizer"
  /\ RemoveFinalizer(mem.current)
  /\ EndReconcile
  /\ UNCHANGED <<remote, envVars, faults>>

-----------------------------------------------------------------------------
(* Everybody else *)

Crash ==
  /\ pc # Idle
  /\ Fault("crash") /\ EndReconcile
  /\ UNCHANGED <<crVars, remote, envVars>>

DeliverResource ==
  /\ CR!Deliver
  /\ UNCHANGED <<remote, envVars, pc, mem, faults>>

\* The policies may change; a requested id may be added, not changed.
EditSpec ==
  /\ Disturb("spec") /\ api.exists
  /\ \E s \in Specs \ {api.spec} :
       /\ api.spec.requested \in {None, s.requested}
       /\ CR!Put([api EXCEPT !.spec = s])
  /\ OutdateCopy
  /\ UNCHANGED <<remote, credentialVars, goneAnswer, connected>>

DeleteResource ==
  /\ Disturb("delete") /\ api.exists /\ ~api.deleting
  /\ CR!Put([api EXCEPT !.deleting = api.finalizer, !.exists = api.finalizer])
  /\ OutdateCopy
  /\ UNCHANGED <<remote, credentialVars, goneAnswer, connected>>

\* A user of Infisical deletes or renames an organization.
RemoveOutside ==
  /\ Disturb("remove")
  /\ \E o \in OrganizationIDs : Present(o) /\ remote' = [remote EXCEPT ![o].state = "Gone"]
  /\ UNCHANGED <<crVars, credentialVars, goneAnswer, connected, mem>>
RenameOutside ==
  /\ Disturb("rename")
  /\ \E o \in OrganizationIDs : Present(o) /\ remote' = [remote EXCEPT ![o].named = ~@]
  /\ UNCHANGED <<crVars, credentialVars, goneAnswer, connected, mem>>

\* The Secret of the connection gets another credential, or the one it has is
\* given or refused access.
ChangeCredential ==
  /\ Disturb("credential")
  /\ \E c \in Credentials :
       /\ Possible(c) /\ c # [user |-> user, access |-> access]
       /\ user' = c.user /\ access' = c.access
  /\ UNCHANGED <<crVars, remote, goneAnswer, connected, mem>>
LoseConnection ==
  /\ Disturb("connection")
  /\ connected /\ connected' = FALSE
  /\ UNCHANGED <<crVars, remote, credentialVars, goneAnswer, mem>>
RestoreConnection ==
  /\ ~connected /\ connected' = TRUE
  /\ UNCHANGED <<crVars, remote, credentialVars, goneAnswer, disturbances, pc, mem, faults>>

-----------------------------------------------------------------------------
Reconcile ==
  \/ EnsureFinalizer \/ BeginReconcile \/ BeginDeletion
  \/ Adopt \/ CreateOrganization \/ ReadOrganization \/ PersistReady
  \/ DeleteOrganization \/ DeleteFinalizer

Outside ==
  \/ EditSpec \/ DeleteResource \/ RemoveOutside \/ RenameOutside
  \/ ChangeCredential \/ LoseConnection \/ RestoreConnection

Next == Reconcile \/ Crash \/ DeliverResource \/ Outside

Spec == Init /\ [][Next]_vars

\* As in UniversalAuth: weak fairness of the controller, of its cache and of
\* the return of the connection; nothing is assumed of users and faults.
FairSpec == Spec /\ WF_vars(Reconcile) /\ WF_vars(DeliverResource) /\ WF_vars(RestoreConnection)

-----------------------------------------------------------------------------
(* Safety *)

\* While nobody interferes, CreateOrAdopt makes at most one organization,
\* whatever is lost, stale or cut short: what an earlier try left behind is found
\* by its name (Reconcile, infisicalorganization_controller.go:79-102).
Made == {o \in OrganizationIDs \ InitiallyPresent : remote[o].state # "Unused"}
OneOrganization ==
  disturbances = 0 /\ api.spec.creation = "CreateOrAdopt" /\ api.spec.requested = None
  => \A o, p \in Made : o = p

\* deletionPolicy Delete: the recorded organization is deleted when the resource
\* is gone, although the credential may change to one that may not delete it
\* (reconcileOrganizationDeletion).
DeletionDeletesRecorded ==
  [][ /\ api.exists /\ ~api'.exists
      /\ api.finalizer /\ api.spec.deletion = "Delete" /\ api.status.organization # None
      => remote'[api.status.organization].state # "Present" ]_vars

-----------------------------------------------------------------------------
(* Liveness *)

AsDeclared ==
  LET o == api.status.organization
  IN  /\ api.status.reason = "Ready" /\ o # None
      /\ Visible(o) /\ api.spec.requested \in {None, o}

\* What the credential and the policies allow: the requested organization is
\* accessible and no other one that is accessible is recorded, or a user may
\* adopt one by name or create one.
Attainable ==
  LET o == api.status.organization
      r == api.spec.requested
  IN  IF r # None
      THEN Visible(r) /\ (o \in {None, r} \/ ~Visible(o))
      ELSE /\ user
           /\ \/ CanAdopt(api.spec.creation) /\ OfName # {}
              \/ /\ CanCreate(api.spec.creation)
                 /\ \E p \in OrganizationIDs : remote[p].state = "Unused"

\* A recorded organization whose lookup fails as "not found" is never given up.
Stuck ==
  /\ api.status.organization # None
  /\ Find(api.status.organization) = "not found"

\* In the end the condition is Ready only for an organization that the credential
\* sees, and it is Ready whenever that can be had: access that was lost or only
\* seemed lost, a deletion and a rename are all recovered from (Reconcile).
EventuallyAsDeclared ==
  <>[](api.exists /\ ~api.deleting =>
        /\ api.status.reason = "Ready" => AsDeclared
        /\ Attainable /\ ~Stuck => AsDeclared)

\* A deletion ends unless the credential may not delete the organization
\* (reconcileOrganizationDeletion).
Undeletable ==
  /\ api.spec.deletion = "Delete" /\ api.status.organization # None
  /\ DeleteAnswer(api.status.organization) = "unauthorized"
DeletionCompletes == api.deleting ~> (~api.exists \/ Undeletable)
=============================================================================
