----------------------------- MODULE Environment ----------------------------
(***************************************************************************)
(* InfisicalEnvironmentReconciler: creates or adopts an environment of a   *)
(* project by its slug, restores it when Infisical has it soft-deleted,    *)
(* keeps its fields as declared, and soft-deletes it with the resource if  *)
(* asked to.                                                               *)
(* Source: infisicalenvironment_controller.go, with the calls it makes in  *)
(* internal/infisicalclient/environments.go.                               *)
(*                                                                         *)
(* As in UniversalAuth, one resource is followed through one lifetime and  *)
(* a reconciliation is a sequence of steps, one per call to Infisical.     *)
(* The slug is immutable: every environment of this model has it.          *)
(***************************************************************************)
EXTENDS Controller

CONSTANTS
  EnvironmentIDs,     \* ids of environments; once all are taken, creation is refused
  InitiallyPresent,   \* environments of the slug that exist before the operator acts
  Projects,           \* external ids that the referenced InfisicalProject may show
  Configs,            \* values of the declared name and position
  CreationChoices,    \* creation policies considered
  DeletionChoices     \* deletion policies considered

ASSUME ConstantsAssumption ==
  /\ None \notin EnvironmentIDs \cup Projects \cup Configs
  /\ InitiallyPresent \subseteq EnvironmentIDs
  /\ CreationChoices \subseteq CreationPolicies
  /\ DeletionChoices \subseteq DeletionPolicies

Specs == [config: Configs, creation: CreationChoices, deletion: DeletionChoices]

Reasons == {"", "Ready", "ProjectNotReady", "ConnectionNotReady", "ExternalReadFailed",
            "ExternalRestoreFailed", "CreationNotAllowed", "ExternalCreateFailed",
            "RemoteEnvironmentMissing", "ExternalUpdateFailed"}
Statuses == [environment: EnvironmentIDs \cup {None}, project: Projects \cup {None},
             reason: Reasons]
NoStatus == [environment |-> None, project |-> None, reason |-> ""]

Resources == [exists: BOOLEAN, deleting: BOOLEAN, finalizer: BOOLEAN,
              spec: Specs, status: Statuses]

\* An environment in Infisical.  A soft-deleted one is still found, by id and
\* by slug, until it is purged.
EnvironmentRecords ==
  [state: {"Unused", "Present", "SoftDeleted", "Purged"},
   project: Projects \cup {None}, config: Configs \cup {None}]
Unused == [state |-> "Unused", project |-> None, config |-> None]

VARIABLES
  remote,      \* environment id -> EnvironmentRecords
  project,     \* the id that the referenced InfisicalProject shows, or None
  connected    \* whether the connection is ready

envVars == <<project, connected, disturbances>>
vars    == <<crVars, remote, envVars, pc, mem, faults>>

Steps == {"adopt", "adoptRestore", "create", "read", "restore", "update", "persist",
          "deleteEnvironment", "deleteFinalizer"}

\* As in UniversalAuth; `anchor` is the project that was resolved at the start,
\* `found` the environment that the lookup by slug returned.
Memories == [spec: Specs, status: Statuses, before: Statuses, current: BOOLEAN,
             anchor: Projects \cup {None}, found: EnvironmentIDs \cup {None}]

TypeOK ==
  /\ api \in Resources /\ cache \in Resources /\ undelivered \in Seq(Resources)
  /\ remote \in [EnvironmentIDs -> EnvironmentRecords]
  /\ \/ pc = Idle /\ mem = None
     \/ pc \in Steps /\ mem \in Memories
  /\ project \in Projects \cup {None} /\ connected \in BOOLEAN
  /\ faults \in Nat /\ disturbances \in Nat

\* Infisical keeps a soft-deleted environment.
Kept(e) == remote[e].state \in {"Present", "SoftDeleted"}

Init ==
  /\ \E s \in Specs :
       api = [exists |-> TRUE, deleting |-> FALSE, finalizer |-> FALSE,
              spec |-> s, status |-> NoStatus]
  /\ cache = api /\ undelivered = <<>>
  /\ \E st \in [InitiallyPresent -> {"Present", "SoftDeleted"}],
        p \in [InitiallyPresent -> Projects], g \in [InitiallyPresent -> Configs] :
       /\ \A d, e \in InitiallyPresent : p[d] = p[e] => d = e
       /\ remote = [e \in EnvironmentIDs |->
            IF e \in InitiallyPresent
            THEN [state |-> st[e], project |-> p[e], config |-> g[e]]
            ELSE Unused]
  /\ project \in Projects /\ connected = TRUE
  /\ pc = Idle /\ mem = None
  /\ faults = 0 /\ disturbances = 0

-----------------------------------------------------------------------------
(* Reconcile, up to its first call *)

ReadCache ==
  /\ pc = Idle /\ cache.exists
  /\ IF CR!Current THEN NoFault ELSE Fault("stale")

EnsureFinalizer ==
  /\ ReadCache
  /\ ~cache.deleting /\ cache.spec.deletion = "Delete" /\ ~cache.finalizer
  /\ CR!Current
  /\ CR!Put([api EXCEPT !.finalizer = TRUE])
  /\ EndReconcile
  /\ UNCHANGED <<remote, envVars>>

Loaded == [spec |-> cache.spec, status |-> cache.status, before |-> cache.status,
           current |-> CR!Current, anchor |-> project, found |-> None]

FirstStep(resource) ==
  IF resource.status.environment # None THEN "read"
  ELSE IF CanAdopt(resource.spec.creation) THEN "adopt" ELSE "create"

BeginReconcile ==
  /\ ReadCache
  /\ ~cache.deleting /\ (cache.spec.deletion = "Delete" => cache.finalizer)
  /\ \/ /\ project # None /\ connected
        /\ Continue(FirstStep(cache), Loaded)
        /\ UNCHANGED crVars
     \/ project = None /\ ReturnError(cache.status, "ProjectNotReady")
     \/ project # None /\ ~connected /\ ReturnError(cache.status, "ConnectionNotReady")
  /\ UNCHANGED <<remote, envVars>>

NothingToDelete(resource) ==
  \/ resource.spec.deletion = "Orphan"
  \/ resource.status.environment = None \/ resource.status.project = None

BeginDeletion ==
  /\ ReadCache
  /\ cache.deleting
  /\ \/ /\ NothingToDelete(cache)
        /\ RemoveFinalizer(CR!Current)
        /\ EndReconcile
     \/ /\ ~NothingToDelete(cache) /\ connected
        /\ Continue("deleteEnvironment", Loaded)
        /\ UNCHANGED crVars
  /\ UNCHANGED <<remote, envVars>>

-----------------------------------------------------------------------------
(* Reconcile: adopt or create *)

\* A call to Infisical that failed without effect.
CallFails(reason) ==
  /\ Fault("rejected")
  /\ ReturnError(mem.status, reason)
  /\ UNCHANGED remote

\* A failure that the state of Infisical or the code itself decides.
Refused(reason) ==
  /\ ReturnError(mem.status, reason)
  /\ NoFault

\* Mutant: the project is recorded once and kept.
ObservedFirst(e) ==
  [mem.status EXCEPT !.environment = e, !.project = IF @ = None THEN mem.anchor ELSE @]
\* setEnvironmentObservedState
Observed(e) == [mem.status EXCEPT !.environment = e, !.project = mem.anchor]

\* GetEnvironmentBySlug
OfSlug(p) == {e \in EnvironmentIDs : Kept(e) /\ remote[e].project = p}

Adopt ==
  /\ pc = "adopt"
  /\ \/ \E e \in OfSlug(mem.anchor) :
          /\ IF remote[e].state = "SoftDeleted"
             THEN Continue("adoptRestore", [mem EXCEPT !.found = e])
             ELSE Continue("read", [mem EXCEPT !.status = Observed(e)])
          /\ NoFault /\ UNCHANGED crVars
     \/ /\ OfSlug(mem.anchor) = {}
        /\ IF CanCreate(mem.spec.creation)
           THEN Continue("create", mem) /\ NoFault /\ UNCHANGED crVars
           ELSE Refused("CreationNotAllowed")
     \/ CallFails("ExternalReadFailed")
  /\ UNCHANGED <<remote, envVars>>

\* RestoreEnvironment; one that is not soft-deleted any more is returned as it is.
Restorable(e) == Kept(e) /\ remote[e].project = mem.anchor
Restore(e) == remote' = [remote EXCEPT ![e].state = "Present"]

AdoptRestore ==
  /\ pc = "adoptRestore"
  /\ \/ /\ Restorable(mem.found)
        /\ Restore(mem.found)
        /\ \/ /\ Continue("read", [mem EXCEPT !.status = Observed(mem.found), !.found = None])
              /\ NoFault /\ UNCHANGED crVars
           \/ AnswerLost("ExternalRestoreFailed")
     \/ ~Restorable(mem.found) /\ Refused("ExternalRestoreFailed") /\ UNCHANGED remote
     \/ CallFails("ExternalRestoreFailed")
  /\ UNCHANGED envVars

\* Infisical refuses a second environment of the slug, a soft-deleted first one
\* included.
CreateEnvironment ==
  /\ pc = "create"
  /\ \/ \E e \in EnvironmentIDs :
          /\ remote[e].state = "Unused" /\ OfSlug(mem.anchor) = {}
          /\ remote' = [remote EXCEPT ![e] = [state |-> "Present", project |-> mem.anchor,
                                              config |-> mem.spec.config]]
          /\ \/ /\ Continue("read", [mem EXCEPT !.status = Observed(e)])
                /\ NoFault /\ UNCHANGED crVars
             \/ AnswerLost("ExternalCreateFailed")
     \/ /\ OfSlug(mem.anchor) # {} \/ \A e \in EnvironmentIDs : remote[e].state # "Unused"
        /\ Refused("ExternalCreateFailed")
        /\ UNCHANGED remote
     \/ CallFails("ExternalCreateFailed")
  /\ UNCHANGED envVars

-----------------------------------------------------------------------------
(* Reconcile: the environment itself *)

Reachable(e) == Kept(e) /\ remote[e].project = mem.anchor

\* environmentNeedsUpdate
NeedsUpdate(e, spec) == remote[e].config # spec.config
ReadyOrUpdate(e) ==
  Continue(IF NeedsUpdate(e, mem.spec) THEN "update" ELSE "persist",
           [mem EXCEPT !.status = Observed(e)])

\* Mutant: the external id is not reset.
ClearedCondition == [mem.status EXCEPT !.reason = "RemoteEnvironmentMissing"]
\* Only the id of the environment is reset, the project stays.
ClearedStatus == [mem.status EXCEPT !.environment = None, !.reason = "RemoteEnvironmentMissing"]

\* Mutant: a soft-deleted environment is taken as it is.
NeverRestored(e) == FALSE
MustRestore(e) == remote[e].state = "SoftDeleted"

ReadEnvironment ==
  /\ pc = "read"
  /\ \/ /\ Reachable(mem.status.environment)
        /\ IF MustRestore(mem.status.environment)
           THEN Continue("restore", mem)
           ELSE ReadyOrUpdate(mem.status.environment)
        /\ NoFault /\ UNCHANGED crVars
     \/ /\ ~Reachable(mem.status.environment)
        /\ PatchStatus(mem.status, ClearedStatus)
        /\ EndReconcile /\ NoFault
     \/ CallFails("ExternalReadFailed")
  /\ UNCHANGED <<remote, envVars>>

RestoreEnvironment ==
  /\ pc = "restore"
  /\ \/ /\ Restorable(mem.status.environment)
        /\ Restore(mem.status.environment)
        /\ \/ ReadyOrUpdate(mem.status.environment) /\ NoFault /\ UNCHANGED crVars
           \/ AnswerLost("ExternalRestoreFailed")
     \/ ~Restorable(mem.status.environment) /\ Refused("ExternalRestoreFailed")
        /\ UNCHANGED remote
     \/ CallFails("ExternalRestoreFailed")
  /\ UNCHANGED envVars

\* A soft-deleted environment is not updated.
Updatable(e) == remote[e].state = "Present" /\ remote[e].project = mem.anchor

UpdateEnvironment ==
  /\ pc = "update"
  /\ \/ /\ Updatable(mem.status.environment)
        /\ remote' = [remote EXCEPT ![mem.status.environment].config = mem.spec.config]
        /\ \/ Continue("persist", mem) /\ NoFault /\ UNCHANGED crVars
           \/ AnswerLost("ExternalUpdateFailed")
     \/ ~Updatable(mem.status.environment) /\ Refused("ExternalUpdateFailed")
        /\ UNCHANGED remote
     \/ CallFails("ExternalUpdateFailed")
  /\ UNCHANGED envVars

PersistReady ==
  /\ pc = "persist"
  /\ \/ /\ PatchStatus(mem.before, [mem.status EXCEPT !.reason = "Ready"])
        /\ NoFault
     \/ Fault("rejected") /\ UNCHANGED crVars
  /\ EndReconcile
  /\ UNCHANGED <<remote, envVars>>

-----------------------------------------------------------------------------
(* Deletion *)

\* Mutant: the project that the reference shows now.
DeletionProjectNow(status) == mem.anchor
\* An environment is deleted under the project recorded with it.
DeletionProject(status) == status.project

DeleteAnswer(e) ==
  IF Kept(e) /\ remote[e].project = DeletionProject(mem.status) THEN "ok" ELSE "not found"

\* Mutant: an environment that is not found is an error.
DeletedOnly(answer) == answer = "ok"
CountsAsDeleted(answer) == answer \in {"ok", "not found"}

\* Deletion is soft.  Errors are returned and no condition records them.
DeleteEnvironment ==
  /\ pc = "deleteEnvironment"
  /\ LET e == mem.status.environment
     IN  \/ /\ remote' = IF DeleteAnswer(e) = "ok"
                         THEN [remote EXCEPT ![e].state = "SoftDeleted"] ELSE remote
            /\ \/ /\ IF CountsAsDeleted(DeleteAnswer(e))
                     THEN Continue("deleteFinalizer", mem) ELSE EndReconcile
                  /\ NoFault
               \/ EndReconcile /\ Fault("lost")
         \/ EndReconcile /\ Fault("rejected") /\ UNCHANGED remote
  /\ UNCHANGED <<crVars, envVars>>

DeleteFinalizer ==
  /\ pc = "deleteFinalizer"
  /\ RemoveFinalizer(mem.current)
  /\ EndReconcile
  /\ UNCHANGED <<remote, envVars, faults>>

-----------------------------------------------------------------------------
(* Everybody else *)

Crash ==
  /\ pc # Idle
  /\ Fault("crash") /\ EndReconcile
  /\ UNCHANGED <<crVars, remote, envVars>>

DeliverResource ==
  /\ CR!Deliver
  /\ UNCHANGED <<remote, envVars, pc, mem, faults>>

\* The name, the position and both policies may change.
EditSpec ==
  /\ Disturb("spec") /\ api.exists
  /\ \E s \in Specs \ {api.spec} : CR!Put([api EXCEPT !.spec = s])
  /\ OutdateCopy
  /\ UNCHANGED <<remote, project, connected>>

DeleteResource ==
  /\ Disturb("delete") /\ api.exists /\ ~api.deleting
  /\ CR!Put([api EXCEPT !.deleting = api.finalizer, !.exists = api.finalizer])
  /\ OutdateCopy
  /\ UNCHANGED <<remote, project, connected>>

\* A user of Infisical deletes an environment, purges it or changes it.
RemoveOutside ==
  /\ Disturb("remove")
  /\ \E e \in EnvironmentIDs, st \in {"SoftDeleted", "Purged"} :
       /\ Kept(e) /\ remote[e].state # st
       /\ remote' = [remote EXCEPT ![e].state = st]
  /\ UNCHANGED <<crVars, project, connected, mem>>
ConfigureOutside ==
  /\ Disturb("configure")
  /\ \E e \in EnvironmentIDs, g \in Configs :
       /\ remote[e].state = "Present" /\ remote[e].config # g
       /\ remote' = [remote EXCEPT ![e].config = g]
  /\ UNCHANGED <<crVars, project, connected, mem>>

\* The project resource loses its id or shows another one: it, or its project
\* in Infisical, was made again.
ChangeProject ==
  /\ Disturb("project")
  /\ \E p \in (Projects \cup {None}) \ {project} : project' = p
  /\ UNCHANGED <<crVars, remote, connected, mem>>
LoseConnection ==
  /\ Disturb("connection")
  /\ connected /\ connected' = FALSE
  /\ UNCHANGED <<crVars, remote, project, mem>>
RestoreDependency ==
  /\ \/ project = None /\ project' \in Projects /\ UNCHANGED connected
     \/ ~connected /\ connected' = TRUE /\ UNCHANGED project
  /\ UNCHANGED <<crVars, remote, disturbances, pc, mem, faults>>

-----------------------------------------------------------------------------
Reconcile ==
  \/ EnsureFinalizer \/ BeginReconcile \/ BeginDeletion
  \/ Adopt \/ AdoptRestore \/ CreateEnvironment
  \/ ReadEnvironment \/ RestoreEnvironment \/ UpdateEnvironment \/ PersistReady
  \/ DeleteEnvironment \/ DeleteFinalizer

Outside ==
  \/ EditSpec \/ DeleteResource \/ RemoveOutside \/ ConfigureOutside
  \/ ChangeProject \/ LoseConnection \/ RestoreDependency

Next == Reconcile \/ Crash \/ DeliverResource \/ Outside

Spec == Init /\ [][Next]_vars

\* As in UniversalAuth: weak fairness of the controller, of its cache and of
\* the return of dependencies; nothing is assumed of users and faults.
FairSpec == Spec /\ WF_vars(Reconcile) /\ WF_vars(DeliverResource) /\ WF_vars(RestoreDependency)

-----------------------------------------------------------------------------
(* Safety *)

\* The two ids in the status belong together.  Deletion depends on it.
RecordedAtHome ==
  api.status.environment # None => remote[api.status.environment].project = api.status.project

\* The stored status no longer has the ids that the reconciliation started from.
Overtaken ==
  \/ mem.before.environment # api.status.environment
  \/ mem.before.project # api.status.project

\* They are not torn apart although the project that the reference shows is
\* replaced, the clearing of a vanished environment keeps the project, and the two
\* are written by merge patches (setEnvironmentObservedState,
\* infisicalenvironment_controller.go:113-119, 141-143); but for one case: the
\* last patch of a reconciliation from a stale copy sends what differs from that
\* copy, one id or the other, and may leave it beside one recorded meanwhile.
RecordsTogether ==
  [][ RecordedAtHome /\ ~RecordedAtHome' => pc = "persist" /\ Overtaken ]_vars

\* deletionPolicy Delete: the recorded environment is deleted when the resource
\* is gone, also when the reference has come to show another project.  A record
\* torn apart by a stale copy, and not mended before the deletion, is excepted.
DeletionDeletesRecorded ==
  [][ /\ api.exists /\ ~api'.exists
      /\ api.finalizer /\ api.spec.deletion = "Delete" /\ api.status.environment # None
      /\ RecordedAtHome
      => remote'[api.status.environment].state # "Present" ]_vars

-----------------------------------------------------------------------------
(* Liveness *)

AsDeclared ==
  LET e == api.status.environment
  IN  /\ api.status.reason = "Ready" /\ e # None /\ api.status.project = project
      /\ remote[e].state = "Present" /\ remote[e].project = project
      /\ remote[e].config = api.spec.config

\* A soft-deleted environment is restored, a purged one replaced, drift undone,
\* and an environment in a replaced project given up for one in the new project,
\* unless the policy is Adopt and there is none (Reconcile).  The recorded ids are
\* those of that environment in the end: a torn record is mended.
NoneToAdopt == api.spec.creation = "Adopt" /\ OfSlug(project) = {}
EventuallyAsDeclared ==
  <>[](api.exists /\ ~api.deleting /\ CanAdopt(api.spec.creation) => AsDeclared \/ NoneToAdopt)

\* A deletion ends although the environment, its project or the connection is
\* lost meanwhile (reconcileEnvironmentDeletion).
DeletionCompletes == api.deleting ~> ~api.exists
=============================================================================
