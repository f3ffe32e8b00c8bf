-------------------------- MODULE EnvironmentProofs -------------------------
(***************************************************************************)
(* Theorems about Environment for all values of its constants.             *)
(***************************************************************************)
EXTENDS Environment, ControllerProofs

CRTypeOK     == api \in Resources /\ cache \in Resources /\ undelivered \in Seq(Resources)
RemoteTypeOK == remote \in [EnvironmentIDs -> EnvironmentRecords]
StepTypeOK   ==
  \/ pc = Idle /\ mem = None
  \/ /\ pc \in Steps /\ mem \in Memories
     /\ pc \notin {"adopt", "adoptRestore", "create"} => mem.status.environment \in EnvironmentIDs
     /\ pc = "adoptRestore" => mem.found \in EnvironmentIDs
WorldTypeOK  ==
  /\ project \in Projects \cup {None} /\ connected \in BOOLEAN
  /\ faults \in Nat /\ disturbances \in Nat

\* The type invariant, and that a call which names an environment has one.
Typed == CRTypeOK /\ RemoteTypeOK /\ StepTypeOK /\ WorldTypeOK

-----------------------------------------------------------------------------
(* Lemmas about the operators the actions are built from *)

\* A patched status is a status; an id that the patch does not change is kept.
LEMMA MergePatchType ==
  ASSUME NEW stored \in Statuses, NEW before \in Statuses, NEW after \in Statuses
  PROVE  /\ MergePatch(stored, before, after) \in Statuses
         /\ MergePatch(stored, before, after).environment =
              IF before.environment = after.environment THEN stored.environment
              ELSE after.environment
         /\ MergePatch(stored, before, after).project =
              IF before.project = after.project THEN stored.project ELSE after.project
<1> DEFINE p == MergePatch(stored, before, after)
<1>1. DOMAIN stored = {"environment", "project", "reason"}
  BY DEF Statuses
<1>2. p = [environment |-> p.environment, project |-> p.project, reason |-> p.reason]
  BY <1>1 DEF MergePatch
<1>3. /\ p.environment = IF before.environment = after.environment THEN stored.environment
                         ELSE after.environment
      /\ p.project = IF before.project = after.project THEN stored.project ELSE after.project
      /\ p.reason \in Reasons
  BY <1>1 DEF MergePatch, Statuses
<1>4. p.environment \in EnvironmentIDs \cup {None} /\ p.project \in Projects \cup {None}
  BY <1>3 DEF Statuses
<1>. QED
  BY <1>2, <1>3, <1>4 DEF Statuses

LEMMA PutType ==
  ASSUME CRTypeOK, NEW r \in Resources, CR!Put(r)
  PROVE  CRTypeOK'
BY DEF CRTypeOK, CR!Put

\* A status patch touches the status only.
LEMMA PatchStatusType ==
  ASSUME CRTypeOK, NEW before \in Statuses, NEW after \in Statuses,
         PatchStatus(before, after)
  PROVE  /\ CRTypeOK' /\ api'.exists = api.exists
         /\ api'.status.environment =
              IF before.environment = after.environment \/ ~api.exists
              THEN api.status.environment ELSE after.environment
         /\ api'.status.project =
              IF before.project = after.project \/ ~api.exists
              THEN api.status.project ELSE after.project
<1>1. CASE api.exists
  <2> DEFINE merged == MergePatch(api.status, before, after)
             r == [api EXCEPT !.status = merged]
  <2>1. api.status \in Statuses
    BY DEF CRTypeOK, Resources
  <2>2. /\ merged \in Statuses
        /\ merged.environment = IF before.environment = after.environment
                                THEN api.status.environment ELSE after.environment
        /\ merged.project = IF before.project = after.project
                            THEN api.status.project ELSE after.project
    BY <2>1, MergePatchType
  <2> HIDE DEF merged
  <2>3. r \in Resources /\ r.exists = api.exists /\ r.status = merged
    BY <2>2 DEF CRTypeOK, Resources
  <2>4. CR!Put(r)
    BY <1>1 DEF PatchStatus, merged
  <2>5. api' = r
    BY <2>4 DEF CR!Put
  <2>. QED
    BY <1>1, <2>2, <2>3, <2>4, <2>5, PutType
<1>2. CASE ~api.exists
  BY <1>2 DEF PatchStatus, crVars, CRTypeOK
<1>. QED
  BY <1>1, <1>2

\* The recorded pair of ids is left as it is.
SameIds == api'.status.environment = api.status.environment
           /\ api'.status.project = api.status.project

LEMMA ReturnErrorType ==
  ASSUME CRTypeOK, NEW status \in Statuses, NEW reason \in Reasons,
         ReturnError(status, reason)
  PROVE  CRTypeOK' /\ StepTypeOK' /\ pc' = Idle /\ api'.exists = api.exists /\ SameIds
<1>1. /\ [status EXCEPT !.reason = reason] \in Statuses
      /\ [status EXCEPT !.reason = reason].environment = status.environment
      /\ [status EXCEPT !.reason = reason].project = status.project
  BY DEF Statuses
<1>. QED
  BY <1>1, PatchStatusType DEF ReturnError, EndReconcile, StepTypeOK, SameIds

LEMMA RemoveFinalizerType ==
  ASSUME CRTypeOK, NEW current, RemoveFinalizer(current)
  PROVE  CRTypeOK' /\ SameIds
<1>1. WithoutFinalizer(api) \in Resources /\ WithoutFinalizer(api).status = api.status
  BY DEF WithoutFinalizer, CRTypeOK, Resources
<1>2. CASE current /\ api.finalizer
  <2>1. CR!Put(WithoutFinalizer(api))
    BY <1>2 DEF RemoveFinalizer
  <2>2. api' = WithoutFinalizer(api)
    BY <2>1 DEF CR!Put
  <2>. QED
    BY <1>1, <2>1, <2>2, PutType DEF SameIds
<1>3. CASE ~(current /\ api.finalizer)
  BY <1>3 DEF RemoveFinalizer, crVars, CRTypeOK, SameIds
<1>. QED
  BY <1>2, <1>3

LEMMA ContinueType ==
  ASSUME NEW step \in Steps, NEW m \in Memories, Continue(step, m),
         step \notin {"adopt", "adoptRestore", "create"} => m.status.environment \in EnvironmentIDs,
         step = "adoptRestore" => m.found \in EnvironmentIDs
  PROVE  StepTypeOK'
BY DEF Continue, StepTypeOK

\* Each group of variables is typed by the actions that leave it alone.
LEMMA UnchangedTypes ==
  /\ CRTypeOK /\ UNCHANGED crVars => CRTypeOK'
  /\ RemoteTypeOK /\ UNCHANGED remote => RemoteTypeOK'
  /\ StepTypeOK /\ UNCHANGED <<pc, mem>> => StepTypeOK'
  /\ EndReconcile => StepTypeOK'
BY DEF crVars, CRTypeOK, RemoteTypeOK, StepTypeOK, EndReconcile

\* Between two steps of a reconciliation its memory is defined.
LEMMA InProgress ==
  ASSUME StepTypeOK, pc # Idle
  PROVE  /\ mem \in Memories /\ mem.status \in Statuses /\ mem.before \in Statuses
         /\ mem.spec \in Specs /\ mem.anchor \in Projects \cup {None}
BY DEF StepTypeOK, Memories

\* The memory with what was observed or found, and outdated by another writer.
LEMMA MemoryType ==
  ASSUME NEW m \in Memories
  PROVE  /\ \A s \in Statuses : [m EXCEPT !.status = s] \in Memories
         /\ \A e \in EnvironmentIDs \cup {None} : [m EXCEPT !.found = e] \in Memories
         /\ [m EXCEPT !.current = FALSE] \in Memories
BY DEF Memories

LEMMA ObservedType ==
  ASSUME mem \in Memories, NEW e \in EnvironmentIDs
  PROVE  /\ Observed(e) \in Statuses
         /\ Observed(e).environment = e /\ Observed(e).project = mem.anchor
<1>1. mem.status \in Statuses /\ mem.anchor \in Projects \cup {None}
  BY DEF Memories
<1> DEFINE s == [mem.status EXCEPT !.environment = e]
<1>2. s \in Statuses /\ s.environment = e
  BY <1>1 DEF Statuses
<1>3. Observed(e) = [s EXCEPT !.project = mem.anchor]
  BY <1>1 DEF Observed, Statuses
<1> HIDE DEF s
<1>. QED
  BY <1>1, <1>2, <1>3 DEF Statuses

\* A memory that has observed environment e in its project.
Remembers(m, e) ==
  /\ m \in Memories /\ m.status.environment = e /\ m.status.project = mem.anchor
  /\ m.before = mem.before /\ m.anchor = mem.anchor /\ m.current = mem.current

LEMMA ObservedMemory ==
  ASSUME mem \in Memories, NEW e \in EnvironmentIDs
  PROVE  /\ Remembers([mem EXCEPT !.status = Observed(e)], e)
         /\ Remembers([mem EXCEPT !.status = Observed(e), !.found = None], e)
<1> DEFINE m == [mem EXCEPT !.status = Observed(e)]
<1>1. Remembers(m, e)
  BY ObservedType DEF Remembers, Memories
<1>2. [mem EXCEPT !.status = Observed(e), !.found = None] = [m EXCEPT !.found = None]
  BY DEF Memories
<1> HIDE DEF m
<1>3. Remembers([m EXCEPT !.found = None], e)
  BY <1>1 DEF Remembers, Memories
<1>. QED
  BY <1>1, <1>2, <1>3 DEF m

LEMMA CallFailsType ==
  ASSUME CRTypeOK, RemoteTypeOK, StepTypeOK, pc # Idle, NEW reason \in Reasons,
         CallFails(reason)
  PROVE  CRTypeOK' /\ StepTypeOK' /\ RemoteTypeOK' /\ SameIds
BY InProgress, ReturnErrorType, UnchangedTypes DEF CallFails

\* The same holds of a refusal and of a lost answer, whatever they leave of Infisical.
LEMMA RefusedType ==
  ASSUME CRTypeOK, StepTypeOK, pc # Idle, NEW reason \in Reasons,
         Refused(reason) \/ AnswerLost(reason)
  PROVE  CRTypeOK' /\ StepTypeOK' /\ SameIds
BY InProgress, ReturnErrorType DEF Refused, AnswerLost

-----------------------------------------------------------------------------
(* Type correctness *)

LEMMA InitType == Init => Typed
<1> SUFFICES ASSUME Init PROVE Typed
  OBVIOUS
<1>1. CRTypeOK
  <2>1. NoStatus \in Statuses
    BY DEF NoStatus, Statuses, Reasons
  <2>2. PICK s \in Specs :
          api = [exists |-> TRUE, deleting |-> FALSE, finalizer |-> FALSE,
                 spec |-> s, status |-> NoStatus]
    BY DEF Init
  <2>3. cache = api /\ undelivered = <<>>
    BY DEF Init
  <2>. QED
    BY <2>1, <2>2, <2>3 DEF Resources, CRTypeOK
<1>2. RemoteTypeOK
  <2>1. PICK st \in [InitiallyPresent -> {"Present", "SoftDeleted"}],
             p \in [InitiallyPresent -> Projects], g \in [InitiallyPresent -> Configs] :
          remote = [e \in EnvironmentIDs |->
            IF e \in InitiallyPresent
            THEN [state |-> st[e], project |-> p[e], config |-> g[e]]
            ELSE Unused]
    BY DEF Init
  <2>2. Unused \in EnvironmentRecords
    BY DEF Unused, EnvironmentRecords
  <2>3. ASSUME NEW e \in InitiallyPresent
        PROVE  [state |-> st[e], project |-> p[e], config |-> g[e]] \in EnvironmentRecords
    BY DEF EnvironmentRecords
  <2>. QED
    BY <2>1, <2>2, <2>3 DEF RemoteTypeOK
<1>. QED
  BY <1>1, <1>2 DEF Init, Typed, StepTypeOK, WorldTypeOK

\* Every step of a reconciliation leaves its surroundings alone and adds at most
\* one fault.
LEMMA ReconcileWorld ==
  ASSUME WorldTypeOK, Reconcile \/ Crash
  PROVE  WorldTypeOK'
<1>1. UNCHANGED envVars /\ (NoFault \/ \E kind : Fault(kind))
  BY DEF Reconcile, Crash, EnsureFinalizer, BeginReconcile, BeginDeletion, ReadCache,
         Adopt, AdoptRestore, CreateEnvironment, ReadEnvironment, RestoreEnvironment,
         UpdateEnvironment, PersistReady, DeleteEnvironment, DeleteFinalizer, CallFails,
         Refused, AnswerLost, NoFault
<1>. QED
  BY <1>1 DEF WorldTypeOK, envVars, NoFault, Fault

LEMMA StepNames ==
  /\ \A resource : FirstStep(resource) \in {"read", "adopt", "create"}
  /\ {"read", "adopt", "create", "adoptRestore", "restore", "update", "persist",
      "deleteEnvironment", "deleteFinalizer"} \subseteq Steps
BY DEF FirstStep, Steps

LEMMA LoadedType ==
  ASSUME CRTypeOK, WorldTypeOK
  PROVE  /\ Loaded \in Memories /\ cache.status \in Statuses
         /\ Loaded.status = cache.status /\ Loaded.before = cache.status
         /\ Loaded.anchor = project
BY DEF Loaded, CRTypeOK, WorldTypeOK, Resources, Memories, CR!Current

\* The first step of a reconciliation.
LEMMA BeginType ==
  ASSUME CRTypeOK, RemoteTypeOK, StepTypeOK, WorldTypeOK,
         EnsureFinalizer \/ BeginReconcile \/ BeginDeletion
  PROVE  CRTypeOK' /\ RemoteTypeOK' /\ StepTypeOK'
<1>1. RemoteTypeOK'
  BY UnchangedTypes DEF EnsureFinalizer, BeginReconcile, BeginDeletion
<1>2. CASE EnsureFinalizer
  <2>1. [api EXCEPT !.finalizer = TRUE] \in Resources
    BY DEF CRTypeOK, Resources
  <2>. QED
    BY <1>1, <1>2, <2>1, PutType, UnchangedTypes DEF EnsureFinalizer
<1>3. CASE BeginReconcile
  <2>1. {"ProjectNotReady", "ConnectionNotReady"} \subseteq Reasons
    BY DEF Reasons
  <2>2. /\ FirstStep(cache) \in Steps
        /\ FirstStep(cache) \notin {"adopt", "create"} =>
             Loaded.status.environment \in EnvironmentIDs
    BY StepNames, LoadedType DEF FirstStep, Statuses
  <2>3. FirstStep(cache) # "adoptRestore"
    BY StepNames
  <2>. QED
    BY <1>1, <1>3, <2>1, <2>2, <2>3, LoadedType, ContinueType, ReturnErrorType, UnchangedTypes
    DEF BeginReconcile
<1>4. CASE BeginDeletion
  <2>1. ~NothingToDelete(cache) => Loaded.status.environment \in EnvironmentIDs
    BY LoadedType DEF NothingToDelete, Statuses
  <2>. QED
    BY <1>1, <1>4, <2>1, LoadedType, StepNames, ContinueType, RemoveFinalizerType, UnchangedTypes
    DEF BeginDeletion
<1>. QED
  BY <1>2, <1>3, <1>4

\* Going on with an observed environment.
LEMMA ObservedStep ==
  ASSUME mem \in Memories, NEW e \in EnvironmentIDs,
         NEW m, Remembers(m, e), NEW step \in {"read", "update", "persist"}, Continue(step, m)
  PROVE  StepTypeOK'
<1>1. step \in Steps /\ m \in Memories /\ m.status.environment \in EnvironmentIDs
  BY StepNames DEF Remembers
<1>. QED
  BY <1>1, ContinueType

LEMMA ReadyOrUpdateType ==
  ASSUME mem \in Memories, NEW e \in EnvironmentIDs, ReadyOrUpdate(e)
  PROVE  StepTypeOK' /\ pc' \in {"update", "persist"} /\ Remembers(mem', e)
<1>1. PICK step \in {"update", "persist"} : Continue(step, [mem EXCEPT !.status = Observed(e)])
  BY DEF ReadyOrUpdate
<1>2. Remembers([mem EXCEPT !.status = Observed(e)], e)
  BY ObservedMemory
<1>. QED
  BY <1>1, <1>2, ObservedStep DEF Continue

LEMMA RestoreType ==
  ASSUME RemoteTypeOK, NEW e \in EnvironmentIDs, Restore(e)
  PROVE  /\ RemoteTypeOK' /\ remote'[e].state = "Present"
         /\ \A d \in EnvironmentIDs : remote'[d].project = remote[d].project
         /\ \A d \in EnvironmentIDs : d # e => remote'[d] = remote[d]
<1>1. /\ [remote[e] EXCEPT !.state = "Present"] \in EnvironmentRecords
      /\ [remote[e] EXCEPT !.state = "Present"].project = remote[e].project
      /\ [remote[e] EXCEPT !.state = "Present"].state = "Present"
  BY DEF RemoteTypeOK, EnvironmentRecords
<1>2. remote' = [remote EXCEPT ![e] = [remote[e] EXCEPT !.state = "Present"]]
  BY DEF Restore
<1>. QED
  BY <1>1, <1>2 DEF RemoteTypeOK

\* Adoption and creation.
LEMMA AcquireType ==
  ASSUME CRTypeOK, RemoteTypeOK, StepTypeOK, Adopt \/ AdoptRestore \/ CreateEnvironment
  PROVE  CRTypeOK' /\ RemoteTypeOK' /\ StepTypeOK'
<1>1. pc # Idle /\ pc \in {"adopt", "adoptRestore", "create"}
  BY DEF Adopt, AdoptRestore, CreateEnvironment, Idle
<1>2. mem \in Memories /\ mem.status \in Statuses /\ mem.spec \in Specs
      /\ mem.anchor \in Projects \cup {None}
  BY <1>1, InProgress
<1>3. {"ExternalReadFailed", "CreationNotAllowed", "ExternalRestoreFailed",
       "ExternalCreateFailed"} \subseteq Reasons
  BY DEF Reasons
<1>4. CASE Adopt
  <2>1. OfSlug(mem.anchor) \subseteq EnvironmentIDs
    BY DEF OfSlug
  <2>2. CASE CallFails("ExternalReadFailed")
    BY <1>1, <1>3, <2>2, CallFailsType
  <2>3. CASE UNCHANGED remote /\ Refused("CreationNotAllowed")
    BY <1>1, <1>3, <2>3, RefusedType, UnchangedTypes
  <2>4. CASE UNCHANGED <<remote, crVars>> /\ Continue("create", mem)
    BY <1>2, <2>4, StepNames, ContinueType, UnchangedTypes
  <2>5. ASSUME NEW e \in EnvironmentIDs, UNCHANGED <<remote, crVars>>,
               Continue("adoptRestore", [mem EXCEPT !.found = e])
        PROVE  CRTypeOK' /\ RemoteTypeOK' /\ StepTypeOK'
    <3>1. [mem EXCEPT !.found = e] \in Memories /\ [mem EXCEPT !.found = e].found = e
      BY <1>2 DEF Memories
    <3>. QED
      BY <2>5, <3>1, StepNames, ContinueType, UnchangedTypes
  <2>6. ASSUME NEW e \in EnvironmentIDs, UNCHANGED <<remote, crVars>>,
               Continue("read", [mem EXCEPT !.status = Observed(e)])
        PROVE  CRTypeOK' /\ RemoteTypeOK' /\ StepTypeOK'
    BY <1>2, <2>6, ObservedMemory, ObservedStep, UnchangedTypes
  <2>. QED
    BY <1>4, <2>1, <2>2, <2>3, <2>4, <2>5, <2>6 DEF Adopt
<1>5. CASE AdoptRestore
  <2>1. mem.found \in EnvironmentIDs
    BY <1>1, <1>5 DEF AdoptRestore, StepTypeOK
  <2>2. CASE CallFails("ExternalRestoreFailed")
    BY <1>1, <1>3, <2>2, CallFailsType
  <2>3. CASE UNCHANGED remote /\ Refused("ExternalRestoreFailed")
    BY <1>1, <1>3, <2>3, RefusedType, UnchangedTypes
  <2>4. CASE Restore(mem.found) /\ AnswerLost("ExternalRestoreFailed")
    BY <1>1, <1>3, <2>1, <2>4, RestoreType, RefusedType
  <2>5. CASE /\ Restore(mem.found) /\ UNCHANGED crVars
             /\ Continue("read", [mem EXCEPT !.status = Observed(mem.found), !.found = None])
    BY <1>2, <2>1, <2>5, RestoreType, ObservedMemory, ObservedStep, UnchangedTypes
  <2>. QED
    BY <1>5, <2>2, <2>3, <2>4, <2>5 DEF AdoptRestore
<1>6. CASE CreateEnvironment
  <2>1. CASE CallFails("ExternalCreateFailed")
    BY <1>1, <1>3, <2>1, CallFailsType
  <2>2. CASE UNCHANGED remote /\ Refused("ExternalCreateFailed")
    BY <1>1, <1>3, <2>2, RefusedType, UnchangedTypes
  <2>3. ASSUME NEW e \in EnvironmentIDs,
               remote' = [remote EXCEPT ![e] = [state |-> "Present", project |-> mem.anchor,
                                                config |-> mem.spec.config]],
               \/ /\ Continue("read", [mem EXCEPT !.status = Observed(e)])
                  /\ UNCHANGED crVars
               \/ AnswerLost("ExternalCreateFailed")
        PROVE  CRTypeOK' /\ RemoteTypeOK' /\ StepTypeOK'
    <3>1. [state |-> "Present", project |-> mem.anchor, config |-> mem.spec.config]
            \in EnvironmentRecords
      BY <1>2 DEF EnvironmentRecords, Specs
    <3>2. RemoteTypeOK'
      BY <2>3, <3>1 DEF RemoteTypeOK
    <3>. QED
      BY <1>1, <1>2, <1>3, <2>3, <3>2, ObservedMemory, ObservedStep, RefusedType, UnchangedTypes
  <2>. QED
    BY <1>6, <2>1, <2>2, <2>3 DEF CreateEnvironment
<1>. QED
  BY <1>4, <1>5, <1>6

\* The environment itself, and the status.
LEMMA FieldsType ==
  ASSUME CRTypeOK, RemoteTypeOK, StepTypeOK,
         ReadEnvironment \/ RestoreEnvironment \/ UpdateEnvironment \/ PersistReady
  PROVE  CRTypeOK' /\ RemoteTypeOK' /\ StepTypeOK'
<1>1. pc # Idle /\ mem.status.environment \in EnvironmentIDs
  BY DEF ReadEnvironment, RestoreEnvironment, UpdateEnvironment, PersistReady, Idle, StepTypeOK
<1>2. mem \in Memories /\ mem.status \in Statuses /\ mem.before \in Statuses /\ mem.spec \in Specs
  BY <1>1, InProgress
<1>3. {"ExternalReadFailed", "ExternalRestoreFailed", "ExternalUpdateFailed", "Ready"}
        \subseteq Reasons
  BY DEF Reasons
<1>4. CASE ReadEnvironment
  <2>1. ClearedStatus \in Statuses
    BY <1>2 DEF ClearedStatus, Statuses, Reasons
  <2>2. CASE CallFails("ExternalReadFailed")
    BY <1>1, <1>3, <2>2, CallFailsType
  <2>3. CASE UNCHANGED <<remote, crVars>> /\ Continue("restore", mem)
    BY <1>1, <1>2, <2>3, StepNames, ContinueType, UnchangedTypes
  <2>4. CASE UNCHANGED <<remote, crVars>> /\ ReadyOrUpdate(mem.status.environment)
    BY <1>1, <1>2, <2>4, ReadyOrUpdateType, UnchangedTypes
  <2>5. CASE UNCHANGED remote /\ PatchStatus(mem.status, ClearedStatus) /\ EndReconcile
    BY <1>2, <2>1, <2>5, PatchStatusType, UnchangedTypes
  <2>. QED
    BY <1>4, <2>2, <2>3, <2>4, <2>5 DEF ReadEnvironment
<1>5. CASE RestoreEnvironment
  <2>1. CASE CallFails("ExternalRestoreFailed")
    BY <1>1, <1>3, <2>1, CallFailsType
  <2>2. CASE UNCHANGED remote /\ Refused("ExternalRestoreFailed")
    BY <1>1, <1>3, <2>2, RefusedType, UnchangedTypes
  <2>3. CASE Restore(mem.status.environment) /\ AnswerLost("ExternalRestoreFailed")
    BY <1>1, <1>3, <2>3, RestoreType, RefusedType
  <2>4. CASE /\ Restore(mem.status.environment) /\ UNCHANGED crVars
             /\ ReadyOrUpdate(mem.status.environment)
    BY <1>1, <1>2, <2>4, RestoreType, ReadyOrUpdateType, UnchangedTypes
  <2>. QED
    BY <1>5, <2>1, <2>2, <2>3, <2>4 DEF RestoreEnvironment
<1>6. CASE UpdateEnvironment
  <2>1. CASE CallFails("ExternalUpdateFailed")
    BY <1>1, <1>3, <2>1, CallFailsType
  <2>2. CASE UNCHANGED remote /\ Refused("ExternalUpdateFailed")
    BY <1>1, <1>3, <2>2, RefusedType, UnchangedTypes
  <2>3. CASE /\ remote' = [remote EXCEPT ![mem.status.environment].config = mem.spec.config]
             /\ \/ Continue("persist", mem) /\ UNCHANGED crVars
                \/ AnswerLost("ExternalUpdateFailed")
    <3>1. [remote[mem.status.environment] EXCEPT !.config = mem.spec.config] \in EnvironmentRecords
      BY <1>1, <1>2 DEF RemoteTypeOK, EnvironmentRecords, Specs
    <3>2. RemoteTypeOK'
      BY <2>3, <3>1 DEF RemoteTypeOK
    <3>. QED
      BY <1>1, <1>2, <1>3, <2>3, <3>2, StepNames, ContinueType, RefusedType, UnchangedTypes
  <2>. QED
    BY <1>6, <2>1, <2>2, <2>3 DEF UpdateEnvironment
<1>7. CASE PersistReady
  <2>1. [mem.status EXCEPT !.reason = "Ready"] \in Statuses
    BY <1>2, <1>3 DEF Statuses
  <2>. QED
    BY <1>2, <1>7, <2>1, PatchStatusType, UnchangedTypes DEF PersistReady
<1>. QED
  BY <1>4, <1>5, <1>6, <1>7

\* The steps of a deletion, and a reconciliation that breaks off.
LEMMA DeletionStepType ==
  ASSUME CRTypeOK, RemoteTypeOK, StepTypeOK, DeleteEnvironment \/ DeleteFinalizer \/ Crash
  PROVE  CRTypeOK' /\ RemoteTypeOK' /\ StepTypeOK'
<1>1. CASE DeleteEnvironment
  <2>1. mem \in Memories /\ mem.status.environment \in EnvironmentIDs
    BY <1>1 DEF DeleteEnvironment, Idle, StepTypeOK
  <2>2. [remote[mem.status.environment] EXCEPT !.state = "SoftDeleted"] \in EnvironmentRecords
    BY <2>1 DEF RemoteTypeOK, EnvironmentRecords
  <2>3. \/ UNCHANGED remote
        \/ remote' = [remote EXCEPT ![mem.status.environment].state = "SoftDeleted"]
    BY <1>1 DEF DeleteEnvironment
  <2>4. RemoteTypeOK'
    BY <2>2, <2>3 DEF RemoteTypeOK
  <2>5. UNCHANGED crVars /\ (Continue("deleteFinalizer", mem) \/ EndReconcile)
    BY <1>1 DEF DeleteEnvironment
  <2>. QED
    BY <2>1, <2>4, <2>5, StepNames, ContinueType, UnchangedTypes
<1>2. CASE DeleteFinalizer \/ Crash
  BY <1>2, RemoveFinalizerType, UnchangedTypes DEF DeleteFinalizer, Crash
<1>. QED
  BY <1>1, <1>2

\* Users, other controllers and users of Infisical.
LEMMA OutsideType ==
  ASSUME CRTypeOK, RemoteTypeOK, StepTypeOK, WorldTypeOK, Outside
  PROVE  CRTypeOK' /\ RemoteTypeOK' /\ StepTypeOK' /\ WorldTypeOK'
<1>1. WorldTypeOK'
  <2>1. faults' \in Nat /\ disturbances' \in Nat
    BY DEF WorldTypeOK, Outside, Disturb, EditSpec, DeleteResource, RemoveOutside,
           ConfigureOutside, ChangeProject, LoseConnection, RestoreDependency
  <2>2. project' \in Projects \cup {None} /\ connected' \in BOOLEAN
    BY DEF WorldTypeOK, Outside, EditSpec, DeleteResource, RemoveOutside,
           ConfigureOutside, ChangeProject, LoseConnection, RestoreDependency
  <2>. QED
    BY <2>1, <2>2 DEF WorldTypeOK
<1>2. OutdateCopy /\ UNCHANGED pc => StepTypeOK'
  <2> SUFFICES ASSUME OutdateCopy, UNCHANGED pc, pc # Idle PROVE StepTypeOK'
    BY DEF OutdateCopy, StepTypeOK
  <2>1. mem \in Memories /\ mem' = [mem EXCEPT !.current = FALSE]
    BY DEF OutdateCopy, StepTypeOK
  <2>2. mem' \in Memories /\ mem'.status = mem.status /\ mem'.found = mem.found
    BY <2>1 DEF Memories
  <2>. QED
    BY <2>2 DEF StepTypeOK
<1>3. CASE EditSpec \/ DeleteResource
  <2>1. ASSUME NEW s \in Specs PROVE [api EXCEPT !.spec = s] \in Resources
    BY DEF CRTypeOK, Resources
  <2>2. [api EXCEPT !.deleting = api.finalizer, !.exists = api.finalizer] \in Resources
    BY DEF CRTypeOK, Resources
  <2>. QED
    BY <1>1, <1>2, <1>3, <2>1, <2>2, PutType, UnchangedTypes
    DEF EditSpec, DeleteResource, Disturb
<1>4. CASE RemoveOutside \/ ConfigureOutside
  <2>1. UNCHANGED <<pc, mem>> /\ UNCHANGED crVars
    BY <1>4 DEF RemoveOutside, ConfigureOutside, Disturb, crVars
  <2>2. ASSUME NEW e \in EnvironmentIDs
        PROVE  /\ \A st \in {"SoftDeleted", "Purged"} :
                    [remote[e] EXCEPT !.state = st] \in EnvironmentRecords
               /\ \A g \in Configs : [remote[e] EXCEPT !.config = g] \in EnvironmentRecords
    BY DEF RemoteTypeOK, EnvironmentRecords
  <2>3. RemoteTypeOK'
    BY <1>4, <2>2 DEF RemoveOutside, ConfigureOutside, RemoteTypeOK
  <2>. QED
    BY <1>1, <2>1, <2>3, UnchangedTypes
<1>5. CASE ChangeProject \/ LoseConnection \/ RestoreDependency
  BY <1>1, <1>5, UnchangedTypes DEF ChangeProject, LoseConnection, RestoreDependency, Disturb
<1>. QED
  BY <1>3, <1>4, <1>5 DEF Outside

LEMMA TypedStep == Typed /\ [Next]_vars => Typed'
<1> SUFFICES ASSUME CRTypeOK, RemoteTypeOK, StepTypeOK, WorldTypeOK, [Next]_vars
             PROVE  CRTypeOK' /\ RemoteTypeOK' /\ StepTypeOK' /\ WorldTypeOK'
  BY DEF Typed
<1>1. CASE Reconcile \/ Crash
  BY <1>1, ReconcileWorld, BeginType, AcquireType, FieldsType, DeletionStepType DEF Reconcile
<1>2. CASE DeliverResource
  <2>1. CRTypeOK'
    BY <1>2 DEF DeliverResource, CR!Deliver, CRTypeOK
  <2>. QED
    BY <1>2, <2>1, UnchangedTypes DEF DeliverResource, envVars, WorldTypeOK
<1>3. CASE Outside
  BY <1>3, OutsideType
<1>4. CASE UNCHANGED vars
  BY <1>4, UnchangedTypes DEF vars, envVars, WorldTypeOK
<1>. QED
  BY <1>1, <1>2, <1>3, <1>4 DEF Next

LEMMA TypedHolds == Spec => []Typed
BY InitType, TypedStep, PTL DEF Spec

\* Every variable keeps its type, whatever interleaves with a reconciliation;
\* in particular every call on an environment names one.
THEOREM TypeCorrect == Spec => []TypeOK
<1>1. Typed => TypeOK
  BY DEF Typed, TypeOK, CRTypeOK, RemoteTypeOK, StepTypeOK, WorldTypeOK
<1>. QED
  BY <1>1, TypedHolds, PTL

-----------------------------------------------------------------------------
(* RecordsTogether and DeletionDeletesRecorded.  An id is not used twice and an
   environment keeps its project: a recorded pair that belongs together belongs
   together for ever.  What a stale copy can tear apart is the pair itself, since
   the last patch of a reconciliation sends only what differs from that copy; any
   other patch sends no id, or clears the one of the environment. *)

\* An environment that a status names is or was there.
Named(r, st) == st.environment # None => r[st.environment].state # "Unused"

\* It is one of the project beside it.
AtHome(r, st) == st.environment # None => r[st.environment].project = st.project

\* The resources whose status names nothing that was never there.
Recorded(r) == {resource \in Resources : Named(r, resource.status)}

Deleting == {"deleteEnvironment", "deleteFinalizer"}
Creating == Steps \ Deleting

\* Every stored or remembered id is one that was used, and an environment has a
\* project from then on.
NamesInvariant ==
  /\ api \in Recorded(remote) /\ cache \in Recorded(remote)
  /\ undelivered \in Seq(Recorded(remote))
  /\ pc # Idle => Named(remote, mem.status)
  /\ pc \in Creating => mem.anchor # None
  /\ \A e \in EnvironmentIDs : remote[e].state # "Unused" => remote[e].project # None

\* What the two properties rest on besides: a copy that is still current has the
\* stored ids, the pair that the last patch sends was observed together, a deletion
\* works on what it read and removes the finalizer after it deleted.
RecordInvariant ==
  /\ CacheFollows
  /\ pc # Idle /\ mem.current =>
       /\ mem.before.environment = api.status.environment
       /\ mem.before.project = api.status.project
  /\ pc \in {"update", "persist"} => AtHome(remote, mem.status)
  /\ pc \in Deleting => mem.status = mem.before
  /\ pc = "deleteFinalizer" /\ AtHome(remote, mem.status) =>
       remote[mem.status.environment].state # "Present"

LEMMA ResourceSteps ==
  ASSUME Next
  PROVE  UNCHANGED crVars \/ (\E r : CR!Put(r)) \/ CR!Deliver
<1>1. CASE EnsureFinalizer \/ BeginReconcile \/ BeginDeletion
  BY <1>1, WritesBack DEF EnsureFinalizer, BeginReconcile, BeginDeletion
<1>2. CASE Adopt \/ AdoptRestore \/ CreateEnvironment
  BY <1>2, WritesBack
  DEF Adopt, AdoptRestore, CreateEnvironment, CallFails, Refused, AnswerLost
<1>3. CASE ReadEnvironment \/ RestoreEnvironment \/ UpdateEnvironment
  BY <1>3, WritesBack
  DEF ReadEnvironment, RestoreEnvironment, UpdateEnvironment, CallFails, Refused, AnswerLost
<1>4. CASE PersistReady \/ DeleteEnvironment \/ DeleteFinalizer
  BY <1>4, WritesBack DEF PersistReady, DeleteEnvironment, DeleteFinalizer
<1>5. CASE ~Reconcile
  BY <1>5
  DEF Next, Crash, DeliverResource, Outside, EditSpec, DeleteResource, RemoveOutside,
      ConfigureOutside, ChangeProject, LoseConnection, RestoreDependency
<1>. QED
  BY <1>1, <1>2, <1>3, <1>4, <1>5 DEF Reconcile

\* An id that was used is not used again and keeps its project; nobody but the
\* controller brings an environment back.
LEMMA RemoteSteps ==
  ASSUME Typed, Next, NEW e \in EnvironmentIDs
  PROVE  /\ remote[e].state # "Unused" =>
              remote'[e].state # "Unused" /\ remote'[e].project = remote[e].project
         /\ remote[e].state = "Unused" /\ remote'[e].state # "Unused" =>
              pc = "create" /\ remote'[e].project = mem.anchor
         /\ ~Reconcile /\ remote[e].state # "Present" => remote'[e].state # "Present"
<1> DEFINE Keeps == /\ remote[e].state = "Unused" <=> remote'[e].state = "Unused"
                    /\ remote'[e].project = remote[e].project
<1>1. remote[e] \in EnvironmentRecords /\ RemoteTypeOK
  BY DEF Typed, RemoteTypeOK
<1>2. CASE UNCHANGED remote
  BY <1>2
<1>3. ASSUME NEW d \in EnvironmentIDs, Kept(d), Restore(d) PROVE Keeps
  BY <1>1, <1>3, RestoreType DEF Kept
<1>4. ASSUME NEW d \in EnvironmentIDs, NEW g, remote' = [remote EXCEPT ![d].config = g]
      PROVE  Keeps /\ remote'[e].state = remote[e].state
  BY <1>1, <1>4 DEF RemoteTypeOK, EnvironmentRecords
<1>5. ASSUME NEW d \in EnvironmentIDs, NEW st \in {"SoftDeleted", "Purged"}, Kept(d),
             remote' = [remote EXCEPT ![d].state = st]
      PROVE  Keeps /\ remote'[e].state \in {remote[e].state, st}
  BY <1>1, <1>5 DEF RemoteTypeOK, EnvironmentRecords, Kept
<1>6. CASE \/ EnsureFinalizer \/ BeginReconcile \/ BeginDeletion \/ Adopt \/ ReadEnvironment
           \/ PersistReady \/ DeleteFinalizer
  BY <1>2, <1>6
  DEF EnsureFinalizer, BeginReconcile, BeginDeletion, Adopt, ReadEnvironment, PersistReady,
      DeleteFinalizer, Reconcile
<1>7. CASE AdoptRestore \/ RestoreEnvironment
  <2>1. \/ UNCHANGED remote
        \/ \E d \in EnvironmentIDs : Kept(d) /\ Restore(d)
    BY <1>7
    DEF AdoptRestore, RestoreEnvironment, CallFails, Restorable, Typed, StepTypeOK, Idle
  <2>. QED
    BY <1>2, <1>3, <1>7, <2>1 DEF Reconcile
<1>8. CASE CreateEnvironment
  <2>1. \/ UNCHANGED remote
        \/ \E d \in EnvironmentIDs :
             /\ remote[d].state = "Unused"
             /\ remote' = [remote EXCEPT ![d] = [state |-> "Present", project |-> mem.anchor,
                                                 config |-> mem.spec.config]]
    BY <1>8 DEF CreateEnvironment, CallFails
  <2>2. pc = "create"
    BY <1>8 DEF CreateEnvironment
  <2>. QED
    BY <1>1, <1>2, <1>8, <2>1, <2>2 DEF Reconcile, RemoteTypeOK
<1>9. CASE UpdateEnvironment
  <2>1. mem.status.environment \in EnvironmentIDs
    BY <1>9 DEF UpdateEnvironment, Typed, StepTypeOK, Idle
  <2>2. \/ UNCHANGED remote
        \/ remote' = [remote EXCEPT ![mem.status.environment].config = mem.spec.config]
    BY <1>9 DEF UpdateEnvironment, CallFails
  <2>. QED
    BY <1>2, <1>4, <1>9, <2>1, <2>2 DEF Reconcile
<1>10. CASE DeleteEnvironment
  <2>1. mem.status.environment \in EnvironmentIDs
    BY <1>10 DEF DeleteEnvironment, Typed, StepTypeOK, Idle
  <2>2. \/ UNCHANGED remote
        \/ /\ Kept(mem.status.environment)
           /\ remote' = [remote EXCEPT ![mem.status.environment].state = "SoftDeleted"]
    BY <1>10 DEF DeleteEnvironment, DeleteAnswer
  <2>. QED
    BY <1>2, <1>5, <1>10, <2>1, <2>2 DEF Reconcile
<1>11. CASE RemoveOutside
  BY <1>5, <1>11 DEF RemoveOutside
<1>12. CASE ConfigureOutside
  BY <1>4, <1>12 DEF ConfigureOutside
<1>13. CASE ~Reconcile /\ ~RemoveOutside /\ ~ConfigureOutside
  BY <1>2, <1>13
  DEF Next, Crash, DeliverResource, Outside, EditSpec, DeleteResource, ChangeProject,
      LoseConnection, RestoreDependency
<1>. QED
  BY <1>6, <1>7, <1>8, <1>9, <1>10, <1>11, <1>12, <1>13 DEF Reconcile

\* What was named once stays so, in its project.
LEMMA NamedStays ==
  ASSUME Typed, Next
  PROVE  /\ \A st \in Statuses : Named(remote, st) =>
              Named(remote', st) /\ (AtHome(remote, st) <=> AtHome(remote', st))
         /\ Recorded(remote) \subseteq Recorded(remote')
         /\ undelivered \in Seq(Recorded(remote)) => undelivered \in Seq(Recorded(remote'))
<1>1. ASSUME NEW st \in Statuses, Named(remote, st)
      PROVE  Named(remote', st) /\ (AtHome(remote, st) <=> AtHome(remote', st))
  BY <1>1, RemoteSteps DEF Named, AtHome, Statuses
<1>2. Recorded(remote) \subseteq Recorded(remote')
  BY <1>1 DEF Recorded, Resources
<1>. QED
  BY <1>1, <1>2

\* The recorded ids change only where ReadEnvironment clears one and where
\* PersistReady records both.
LEMMA StatusSteps ==
  ASSUME CRTypeOK, StepTypeOK, Next
  PROVE  \/ SameIds
         \/ api'.status.environment = None
         \/ /\ PersistReady
            /\ api'.status.environment =
                 IF mem.before.environment = mem.status.environment
                 THEN api.status.environment ELSE mem.status.environment
            /\ api'.status.project =
                 IF mem.before.project = mem.status.project
                 THEN api.status.project ELSE mem.status.project
<1>1. UNCHANGED crVars => SameIds
  BY DEF crVars, SameIds
<1>2. {"ProjectNotReady", "ConnectionNotReady", "ExternalReadFailed", "ExternalRestoreFailed",
       "CreationNotAllowed", "ExternalCreateFailed", "RemoteEnvironmentMissing",
       "ExternalUpdateFailed", "Ready"} \subseteq Reasons
  BY DEF Reasons
<1>3. cache.status \in Statuses
  BY DEF CRTypeOK, Resources
<1>4. CASE EnsureFinalizer
  BY <1>4 DEF EnsureFinalizer, CR!Put, CRTypeOK, Resources, SameIds
<1>5. CASE BeginReconcile
  BY <1>1, <1>2, <1>3, <1>5, ReturnErrorType DEF BeginReconcile
<1>6. CASE BeginDeletion \/ DeleteFinalizer
  BY <1>1, <1>6, RemoveFinalizerType DEF BeginDeletion, DeleteFinalizer
<1>7. CASE \/ Adopt \/ AdoptRestore \/ CreateEnvironment \/ ReadEnvironment
           \/ RestoreEnvironment \/ UpdateEnvironment \/ PersistReady
  <2>1. pc # Idle /\ mem \in Memories /\ mem.status \in Statuses /\ mem.before \in Statuses
    BY <1>7, InProgress
    DEF Adopt, AdoptRestore, CreateEnvironment, ReadEnvironment, RestoreEnvironment,
        UpdateEnvironment, PersistReady, Idle
  <2>2. ASSUME NEW reason \in Reasons, CallFails(reason) \/ Refused(reason) \/ AnswerLost(reason)
        PROVE  SameIds
    BY <2>1, <2>2, ReturnErrorType DEF CallFails, Refused, AnswerLost
  <2>3. CASE Adopt \/ AdoptRestore \/ CreateEnvironment \/ RestoreEnvironment \/ UpdateEnvironment
    BY <1>1, <1>2, <2>2, <2>3
    DEF Adopt, AdoptRestore, CreateEnvironment, RestoreEnvironment, UpdateEnvironment
  <2>4. CASE ReadEnvironment
    <3>1. CASE PatchStatus(mem.status, ClearedStatus)
      <4>1. /\ ClearedStatus \in Statuses
            /\ ClearedStatus.environment = None /\ ClearedStatus.project = mem.status.project
        BY <2>1 DEF ClearedStatus, Statuses, Reasons
      <4>. QED
        BY <2>1, <3>1, <4>1, PatchStatusType DEF SameIds
    <3>. QED
      BY <1>1, <1>2, <2>2, <2>4, <3>1 DEF ReadEnvironment
  <2>5. CASE PersistReady
    <3>1. CASE PatchStatus(mem.before, [mem.status EXCEPT !.reason = "Ready"])
      <4> DEFINE after == [mem.status EXCEPT !.reason = "Ready"]
      <4>1. /\ after \in Statuses
            /\ after.environment = mem.status.environment /\ after.project = mem.status.project
            /\ PatchStatus(mem.before, after)
        BY <1>2, <2>1, <3>1 DEF Statuses
      <4> HIDE DEF after
      <4>2. CASE api.exists
        <5>1. /\ api'.status.environment =
                   IF mem.before.environment = after.environment \/ ~api.exists
                   THEN api.status.environment ELSE after.environment
              /\ api'.status.project =
                   IF mem.before.project = after.project \/ ~api.exists
                   THEN api.status.project ELSE after.project
          BY <2>1, <4>1, PatchStatusType
        <5>. QED
          BY <2>5, <4>1, <4>2, <5>1
      <4>3. CASE ~api.exists
        BY <1>1, <4>1, <4>3 DEF PatchStatus
      <4>. QED
        BY <4>2, <4>3
    <3>. QED
      BY <1>1, <2>5, <3>1 DEF PersistReady
  <2>. QED
    BY <1>7, <2>3, <2>4, <2>5
<1>8. CASE DeleteEnvironment
  BY <1>1, <1>8 DEF DeleteEnvironment
<1>9. CASE EditSpec \/ DeleteResource
  BY <1>9 DEF EditSpec, DeleteResource, CR!Put, CRTypeOK, Resources, SameIds
<1>10. CASE ~Reconcile /\ ~EditSpec /\ ~DeleteResource
  BY <1>1, <1>10
  DEF Next, Crash, DeliverResource, CR!Deliver, Outside, RemoveOutside, ConfigureOutside,
      ChangeProject, LoseConnection, RestoreDependency, SameIds
<1>. QED
  BY <1>4, <1>5, <1>6, <1>7, <1>8, <1>9, <1>10 DEF Reconcile

\* The five ways in which a reconciliation gets its next memory.
LEMMA MemorySteps ==
  ASSUME Typed, Next, pc' # Idle
  PROVE  \/ /\ ReadCache /\ UNCHANGED <<crVars, remote>> /\ mem' = Loaded
            /\ \/ pc' \in {"adopt", "create", "read"} /\ project # None
               \/ pc' = "deleteEnvironment"
         \/ /\ pc \in Creating /\ pc' \in Creating /\ UNCHANGED crVars
            /\ mem'.before = mem.before /\ mem'.anchor = mem.anchor
            /\ mem'.status = mem.status /\ mem'.current = mem.current
            /\ pc' \in {"update", "persist"} => pc = "update"
         \/ /\ pc \in Creating /\ pc' \in Creating /\ UNCHANGED crVars
            /\ \E e \in EnvironmentIDs :
                 /\ Remembers(mem', e)
                 /\ remote'[e].state # "Unused" /\ remote'[e].project = mem.anchor
         \/ DeleteEnvironment /\ pc' = "deleteFinalizer" /\ mem' = mem /\ UNCHANGED crVars
         \/ /\ ~Reconcile /\ pc' = pc /\ pc # Idle
            /\ mem'.status = mem.status /\ mem'.before = mem.before
            /\ mem'.anchor = mem.anchor
            /\ mem'.current = FALSE \/ (mem'.current = mem.current /\ UNCHANGED api)
<1> DEFINE Observes ==
             /\ pc \in Creating /\ pc' \in Creating /\ UNCHANGED crVars
             /\ \E e \in EnvironmentIDs :
                  /\ Remembers(mem', e)
                  /\ remote'[e].state # "Unused" /\ remote'[e].project = mem.anchor
<1>1. ~EndReconcile
  BY DEF EndReconcile
<1>2. ASSUME NEW status, NEW reason PROVE ~ReturnError(status, reason)
  BY <1>1 DEF ReturnError
<1>3. ASSUME NEW reason PROVE ~CallFails(reason) /\ ~Refused(reason) /\ ~AnswerLost(reason)
  BY <1>2 DEF CallFails, Refused, AnswerLost
<1>4. pc # Idle => mem \in Memories
  BY InProgress DEF Typed
<1>5. /\ {"adopt", "adoptRestore", "create", "read", "restore", "update", "persist"}
           = Creating
  BY DEF Steps, Deleting, Creating
<1>6. CASE EnsureFinalizer \/ BeginReconcile \/ BeginDeletion
  <2>1. CASE BeginReconcile
    BY <1>2, <2>1, StepNames DEF BeginReconcile, Continue
  <2>2. CASE BeginDeletion
    BY <1>1, <2>2 DEF BeginDeletion, Continue
  <2>. QED
    BY <1>1, <1>6, <2>1, <2>2 DEF EnsureFinalizer
<1>7. CASE \/ Adopt \/ AdoptRestore \/ CreateEnvironment
           \/ ReadEnvironment \/ RestoreEnvironment \/ UpdateEnvironment
  <2>1. /\ pc \in Creating /\ pc # Idle /\ mem \in Memories
        /\ pc \in {"read", "restore", "update"} => mem.status.environment \in EnvironmentIDs
        /\ pc = "adoptRestore" => mem.found \in EnvironmentIDs
    BY <1>4, <1>5, <1>7
    DEF Adopt, AdoptRestore, CreateEnvironment, ReadEnvironment, RestoreEnvironment,
        UpdateEnvironment, Idle, Typed, StepTypeOK
  <2>2. ASSUME NEW e \in EnvironmentIDs, UNCHANGED crVars, pc' \in Creating,
               Remembers(mem', e), remote'[e].state # "Unused", remote'[e].project = mem.anchor
        PROVE  Observes
    BY <2>1, <2>2
  <2>3. CASE Adopt
    <3>1. UNCHANGED remote /\ UNCHANGED crVars
      BY <1>3, <2>3 DEF Adopt
    <3>2. CASE Continue("create", mem)
      BY <1>5, <2>1, <3>1, <3>2 DEF Continue
    <3>3. CASE \E e \in OfSlug(mem.anchor) : Continue("adoptRestore", [mem EXCEPT !.found = e])
      BY <1>5, <2>1, <3>1, <3>3 DEF Continue, Memories
    <3>4. CASE \E e \in OfSlug(mem.anchor) : Continue("read", [mem EXCEPT !.status = Observed(e)])
      <4>1. PICK e \in OfSlug(mem.anchor) : Continue("read", [mem EXCEPT !.status = Observed(e)])
        BY <3>4
      <4>2. e \in EnvironmentIDs /\ remote[e].state # "Unused" /\ remote[e].project = mem.anchor
        BY DEF OfSlug, Kept
      <4>3. Remembers(mem', e) /\ pc' = "read"
        BY <2>1, <4>1, <4>2, ObservedMemory DEF Continue
      <4>. QED
        BY <1>5, <2>2, <3>1, <4>2, <4>3
    <3>. QED
      BY <1>3, <2>3, <3>2, <3>3, <3>4 DEF Adopt
  <2>4. CASE AdoptRestore
    <3>1. /\ Restorable(mem.found) /\ Restore(mem.found) /\ UNCHANGED crVars
          /\ Continue("read", [mem EXCEPT !.status = Observed(mem.found), !.found = None])
      BY <1>3, <2>4 DEF AdoptRestore
    <3>2. mem.found \in EnvironmentIDs
      BY <2>1, <2>4 DEF AdoptRestore
    <3>3. remote'[mem.found].state = "Present" /\ remote'[mem.found].project = mem.anchor
      BY <3>1, <3>2, RestoreType DEF Restorable, Typed
    <3>4. Remembers(mem', mem.found) /\ pc' = "read"
      BY <2>1, <3>1, <3>2, ObservedMemory DEF Continue
    <3>. QED
      BY <1>5, <2>2, <3>1, <3>2, <3>3, <3>4
  <2>5. CASE CreateEnvironment
    <3>1. PICK e \in EnvironmentIDs :
            /\ remote' = [remote EXCEPT ![e] = [state |-> "Present", project |-> mem.anchor,
                                                config |-> mem.spec.config]]
            /\ Continue("read", [mem EXCEPT !.status = Observed(e)]) /\ UNCHANGED crVars
      BY <1>3, <2>5 DEF CreateEnvironment
    <3>2. remote'[e].state = "Present" /\ remote'[e].project = mem.anchor
      BY <3>1 DEF Typed, RemoteTypeOK
    <3>3. Remembers(mem', e) /\ pc' = "read"
      BY <2>1, <3>1, ObservedMemory DEF Continue
    <3>. QED
      BY <1>5, <2>2, <3>1, <3>2, <3>3
  <2>6. CASE ReadEnvironment
    <3>1. /\ UNCHANGED remote /\ UNCHANGED crVars /\ pc = "read"
          /\ Reachable(mem.status.environment)
          /\ Continue("restore", mem) \/ ReadyOrUpdate(mem.status.environment)
      BY <1>1, <1>3, <2>6 DEF ReadEnvironment
    <3>2. CASE Continue("restore", mem)
      BY <1>5, <2>1, <3>1, <3>2 DEF Continue
    <3>3. CASE ReadyOrUpdate(mem.status.environment)
      <4>1. /\ mem.status.environment \in EnvironmentIDs
            /\ remote'[mem.status.environment].state # "Unused"
            /\ remote'[mem.status.environment].project = mem.anchor
        BY <2>1, <3>1 DEF Reachable, Kept
      <4>. QED
        BY <1>5, <2>1, <2>2, <3>1, <3>3, <4>1, ReadyOrUpdateType
    <3>. QED
      BY <3>1, <3>2, <3>3
  <2>7. CASE RestoreEnvironment
    <3>1. /\ Restorable(mem.status.environment) /\ Restore(mem.status.environment)
          /\ ReadyOrUpdate(mem.status.environment) /\ UNCHANGED crVars /\ pc = "restore"
      BY <1>3, <2>7 DEF RestoreEnvironment
    <3>2. /\ mem.status.environment \in EnvironmentIDs
          /\ remote'[mem.status.environment].state = "Present"
          /\ remote'[mem.status.environment].project = mem.anchor
      BY <2>1, <3>1, RestoreType DEF Restorable, Typed
    <3>. QED
      BY <1>5, <2>1, <2>2, <3>1, <3>2, ReadyOrUpdateType
  <2>8. CASE UpdateEnvironment
    BY <1>3, <1>5, <2>1, <2>8 DEF UpdateEnvironment, Continue
  <2>. QED
    BY <1>7, <2>3, <2>4, <2>5, <2>6, <2>7, <2>8
<1>8. CASE PersistReady \/ DeleteEnvironment \/ DeleteFinalizer
  BY <1>1, <1>8 DEF PersistReady, DeleteEnvironment, DeleteFinalizer, Continue
<1>9. CASE ~Reconcile
  <2>1. pc' = pc /\ ~Crash
    BY <1>1, <1>9
    DEF Next, Crash, DeliverResource, Outside, EditSpec, DeleteResource, RemoveOutside,
        ConfigureOutside, ChangeProject, LoseConnection, RestoreDependency, Disturb
  <2>2. CASE EditSpec \/ DeleteResource
    <3>1. mem' = [mem EXCEPT !.current = FALSE] /\ mem \in Memories
      BY <1>4, <2>1, <2>2 DEF EditSpec, DeleteResource, OutdateCopy
    <3>. QED
      BY <1>9, <2>1, <3>1 DEF Memories
  <2>3. CASE ~EditSpec /\ ~DeleteResource
    <3>1. mem' = mem /\ api' = api
      BY <1>9, <2>1, <2>3
      DEF Next, DeliverResource, CR!Deliver, Outside, RemoveOutside, ConfigureOutside,
          ChangeProject, LoseConnection, RestoreDependency, crVars
    <3>. QED
      BY <1>9, <2>1, <3>1
  <2>. QED
    BY <2>2, <2>3
<1>. QED
  BY <1>6, <1>7, <1>8, <1>9 DEF Reconcile

LEMMA NamesStep ==
  ASSUME Typed, NamesInvariant, Next
  PROVE  NamesInvariant'
<1>1. api.status \in Statuses /\ cache.status \in Statuses /\ api' \in Resources
  BY TypedStep DEF Typed, CRTypeOK, Resources
<1>2. Named(remote', api.status) /\ Named(remote', cache.status)
  BY <1>1, NamedStays DEF NamesInvariant, Recorded
<1>3. ASSUME pc # Idle PROVE mem.status \in Statuses /\ Named(remote', mem.status)
  BY <1>3, InProgress, NamedStays DEF NamesInvariant, Typed
<1>4. Named(remote', api'.status)
  <2>1. PersistReady => pc # Idle
    BY DEF PersistReady, Idle
  <2>. QED
    BY <1>2, <1>3, <2>1, StatusSteps DEF Named, SameIds, Typed
<1>5. /\ api' \in Recorded(remote') /\ cache' \in Recorded(remote')
      /\ undelivered' \in Seq(Recorded(remote'))
  <2>1. api' \in Recorded(remote')
    BY <1>1, <1>4 DEF Recorded
  <2>2. cache \in Recorded(remote') /\ undelivered \in Seq(Recorded(remote'))
    BY NamedStays DEF NamesInvariant
  <2>. QED
    BY <2>1, <2>2, ResourceSteps, CopiesStep
<1>6. pc' # Idle => Named(remote', mem'.status)
  <2>1. mem' = Loaded => mem'.status = cache.status
    BY LoadedType DEF Typed
  <2>2. ASSUME NEW e \in EnvironmentIDs, Remembers(mem', e), remote'[e].state # "Unused"
        PROVE  Named(remote', mem'.status)
    BY <2>2 DEF Remembers, Named
  <2>3. pc \in Creating \/ DeleteEnvironment => pc # Idle
    BY DEF Creating, Steps, Idle, DeleteEnvironment
  <2>. QED
    BY <1>2, <1>3, <2>1, <2>2, <2>3, MemorySteps
<1>7. pc' \in Creating => mem'.anchor # None
  <2>1. mem' = Loaded => mem'.anchor = project
    BY LoadedType DEF Typed
  <2>2. pc' \in Creating => pc' # Idle /\ pc' # "deleteEnvironment" /\ pc' # "deleteFinalizer"
    BY DEF Creating, Steps, Deleting, Idle
  <2>3. ASSUME NEW e \in EnvironmentIDs, Remembers(mem', e) PROVE mem'.anchor = mem.anchor
    BY <2>3 DEF Remembers
  <2>. QED
    BY <2>1, <2>2, <2>3, MemorySteps DEF NamesInvariant
<1>8. \A e \in EnvironmentIDs : remote'[e].state # "Unused" => remote'[e].project # None
  <2>1. pc = "create" => mem.anchor # None
    BY DEF NamesInvariant, Creating, Steps, Deleting
  <2>. QED
    BY <2>1, RemoteSteps DEF NamesInvariant
<1>. QED
  BY <1>5, <1>6, <1>7, <1>8 DEF NamesInvariant

LEMMA NamesHold == Spec => []NamesInvariant
<1>1. ASSUME Init PROVE NamesInvariant
  <2>1. api.status = NoStatus /\ cache = api /\ undelivered = <<>> /\ pc = Idle
    BY <1>1 DEF Init
  <2>2. api \in Recorded(remote)
    <3>1. NoStatus.environment = None
      BY DEF NoStatus
    <3>2. api \in Resources
      BY <1>1, InitType DEF Typed, CRTypeOK
    <3>. QED
      BY <2>1, <3>1, <3>2 DEF Recorded, Named
  <2>3. PICK st \in [InitiallyPresent -> {"Present", "SoftDeleted"}],
             p \in [InitiallyPresent -> Projects], g \in [InitiallyPresent -> Configs] :
          remote = [e \in EnvironmentIDs |->
            IF e \in InitiallyPresent
            THEN [state |-> st[e], project |-> p[e], config |-> g[e]]
            ELSE Unused]
    BY <1>1 DEF Init
  <2>4. \A e \in EnvironmentIDs : remote[e].state # "Unused" => remote[e].project # None
    BY <2>3, ConstantsAssumption DEF Unused
  <2>5. pc \notin Creating
    BY <2>1 DEF Idle, Creating, Steps
  <2>. QED
    BY <2>1, <2>2, <2>4, <2>5 DEF NamesInvariant
<1>2. Typed /\ NamesInvariant /\ [Next]_vars => NamesInvariant'
  <2>1. ASSUME NamesInvariant, UNCHANGED vars PROVE NamesInvariant'
    BY <2>1 DEF NamesInvariant, vars, crVars
  <2>. QED
    BY <2>1, NamesStep
<1>. QED
  BY <1>1, <1>2, TypedHolds, PTL DEF Spec

LEMMA RecordInvariantStep ==
  ASSUME Typed, NamesInvariant, RecordInvariant, Next
  PROVE  RecordInvariant'
<1>1. CacheFollows'
  BY ResourceSteps, CacheFollowsStep DEF RecordInvariant, Typed, CRTypeOK
<1>2. ASSUME pc # Idle
      PROVE  /\ mem \in Memories /\ mem.status \in Statuses
             /\ AtHome(remote, mem.status) <=> AtHome(remote', mem.status)
  BY <1>2, InProgress, NamedStays DEF NamesInvariant, Typed
<1>3. /\ "deleteFinalizer" \in Deleting /\ "deleteEnvironment" \in Deleting
      /\ "update" \notin Deleting /\ "persist" \notin Deleting
      /\ \A step \in Creating : step # Idle /\ step \notin Deleting
      /\ \A step \in Deleting \cup {"update", "persist"} : step # Idle
  BY DEF Deleting, Creating, Steps, Idle
<1>4. CASE pc' = Idle
  BY <1>1, <1>3, <1>4 DEF RecordInvariant
<1>5. CASE /\ ReadCache /\ UNCHANGED <<crVars, remote>> /\ mem' = Loaded
           /\ pc' \in {"adopt", "create", "read", "deleteEnvironment"}
  <2>1. /\ mem'.status = cache.status /\ mem'.before = cache.status
        /\ mem'.current = CR!Current /\ UNCHANGED api
    BY <1>5, LoadedType DEF Typed, Loaded, crVars
  <2>2. CR!Current => cache = api
    BY DEF CR!Current, RecordInvariant, CacheFollows
  <2>. QED
    BY <1>1, <1>5, <2>1, <2>2 DEF RecordInvariant
<1>6. CASE /\ pc \in Creating /\ pc' \in Creating /\ UNCHANGED crVars
           /\ mem'.before = mem.before /\ mem'.status = mem.status
           /\ mem'.current = mem.current
           /\ pc' \in {"update", "persist"} => pc = "update"
  BY <1>1, <1>2, <1>3, <1>6 DEF RecordInvariant, crVars
<1>7. CASE /\ pc \in Creating /\ pc' \in Creating /\ UNCHANGED crVars
           /\ \E e \in EnvironmentIDs :
                /\ Remembers(mem', e)
                /\ remote'[e].state # "Unused" /\ remote'[e].project = mem.anchor
  <2>1. AtHome(remote', mem'.status) /\ mem'.before = mem.before /\ mem'.current = mem.current
    BY <1>7 DEF Remembers, AtHome
  <2>. QED
    BY <1>1, <1>3, <1>7, <2>1 DEF RecordInvariant, crVars
<1>8. CASE DeleteEnvironment /\ pc' = "deleteFinalizer" /\ mem' = mem /\ UNCHANGED crVars
  <2> DEFINE e == mem.status.environment
  <2>1. pc = "deleteEnvironment" /\ pc # Idle /\ UNCHANGED api
    BY <1>8 DEF DeleteEnvironment, Idle, crVars
  <2>2. ASSUME AtHome(remote', mem'.status) PROVE remote'[e].state # "Present"
    <3>1. e \in EnvironmentIDs /\ e # None
      BY <2>1, ConstantsAssumption DEF Typed, StepTypeOK
    <3>2. remote[e].project = mem.status.project
      BY <1>2, <1>8, <2>1, <2>2, <3>1 DEF AtHome
    <3>3. DeleteAnswer(e) = "ok" \/ ~Kept(e)
      BY <3>2 DEF DeleteAnswer, DeletionProject
    <3>4. remote' = IF DeleteAnswer(e) = "ok"
                    THEN [remote EXCEPT ![e].state = "SoftDeleted"] ELSE remote
      BY <1>8 DEF DeleteEnvironment, EndReconcile, Idle
    <3>. QED
      BY <3>1, <3>3, <3>4 DEF Kept, Typed, RemoteTypeOK, EnvironmentRecords
  <2>. QED
    BY <1>1, <1>3, <1>8, <2>1, <2>2 DEF RecordInvariant
<1>9. CASE /\ ~Reconcile /\ pc' = pc /\ pc # Idle
           /\ mem'.status = mem.status /\ mem'.before = mem.before
           /\ mem'.current = FALSE \/ (mem'.current = mem.current /\ UNCHANGED api)
  <2>1. pc = "deleteFinalizer" /\ AtHome(remote', mem'.status) =>
          remote'[mem'.status.environment].state # "Present"
    BY <1>2, <1>9, RemoteSteps DEF RecordInvariant, AtHome, Typed, StepTypeOK, Idle
  <2>2. pc \in {"update", "persist"} => AtHome(remote', mem'.status)
    BY <1>2, <1>9 DEF RecordInvariant, AtHome
  <2>. QED
    BY <1>1, <1>9, <2>1, <2>2 DEF RecordInvariant
<1>. QED
  BY <1>4, <1>5, <1>6, <1>7, <1>8, <1>9, MemorySteps

LEMMA RecordInvariantHolds == Spec => []RecordInvariant
<1>1. ASSUME Init PROVE RecordInvariant
  <2>1. CacheFollows /\ pc = Idle
    BY <1>1 DEF Init, CacheFollows
  <2>. QED
    BY <2>1 DEF RecordInvariant, Deleting, Idle
<1>2. Typed /\ NamesInvariant /\ RecordInvariant /\ [Next]_vars => RecordInvariant'
  <2>1. ASSUME RecordInvariant, UNCHANGED vars PROVE RecordInvariant'
    BY <2>1 DEF RecordInvariant, CacheFollows, AtHome, vars, crVars
  <2>. QED
    BY <2>1, RecordInvariantStep
<1>. QED
  BY <1>1, <1>2, TypedHolds, NamesHold, PTL DEF Spec

\* The recorded environment and the recorded project are torn apart by nothing but
\* the last patch of a reconciliation that another one has overtaken, for any
\* number of stale reads, faults, replaced projects, restorations and purges.
THEOREM RecordsSafe == Spec => RecordsTogether
<1> DEFINE Together == RecordedAtHome /\ ~RecordedAtHome' => pc = "persist" /\ Overtaken
<1>1. Typed /\ NamesInvariant /\ RecordInvariant /\ [Next]_vars => [Together]_vars
  <2> SUFFICES ASSUME Typed, NamesInvariant, RecordInvariant, Next,
                      AtHome(remote, api.status), ~AtHome(remote', api'.status)
               PROVE  pc = "persist" /\ Overtaken
    BY DEF RecordedAtHome, AtHome
  <2>1. AtHome(remote', api.status)
    BY NamedStays DEF NamesInvariant, Recorded, Typed, CRTypeOK, Resources
  <2>2. /\ PersistReady
        /\ api'.status.environment =
             IF mem.before.environment = mem.status.environment
             THEN api.status.environment ELSE mem.status.environment
        /\ api'.status.project =
             IF mem.before.project = mem.status.project
             THEN api.status.project ELSE mem.status.project
    BY <2>1, StatusSteps DEF AtHome, SameIds, Typed
  <2>3. pc = "persist" /\ pc # Idle
    BY <2>2 DEF PersistReady, Idle
  <2>4. AtHome(remote', mem.status)
    BY <2>3, InProgress, NamedStays DEF NamesInvariant, RecordInvariant, Typed
  <2>. QED
    BY <2>2, <2>3, <2>4 DEF Overtaken, AtHome
<1>. QED
  BY <1>1, TypedHolds, NamesHold, RecordInvariantHolds, PTL DEF Spec, RecordsTogether

-----------------------------------------------------------------------------
(* DeletionDeletesRecorded *)

\* The resource disappears by losing its finalizer, or by a deletion that finds
\* nothing to delete; in both cases the copy that was read is still current.
LEMMA Disappears ==
  ASSUME CRTypeOK, StepTypeOK, Next, api.exists, ~api'.exists, api.finalizer
  PROVE  \/ BeginDeletion /\ NothingToDelete(cache) /\ CR!Current
         \/ DeleteFinalizer /\ mem.current /\ UNCHANGED remote
<1>1. ASSUME NEW before, NEW after PROVE ~PatchStatus(before, after)
  BY DEF PatchStatus, CR!Put, CRTypeOK, Resources, crVars
<1>2. ASSUME NEW status, NEW reason PROVE ~ReturnError(status, reason)
  BY <1>1 DEF ReturnError
<1>3. ~UNCHANGED crVars
  BY DEF crVars
<1>4. CASE EnsureFinalizer \/ BeginReconcile
  BY <1>2, <1>3, <1>4 DEF EnsureFinalizer, BeginReconcile, CR!Put, CRTypeOK, Resources
<1>5. CASE BeginDeletion \/ DeleteFinalizer
  BY <1>3, <1>5 DEF BeginDeletion, DeleteFinalizer, RemoveFinalizer
<1>6. CASE \/ Adopt \/ AdoptRestore \/ CreateEnvironment \/ ReadEnvironment
           \/ RestoreEnvironment \/ UpdateEnvironment \/ PersistReady \/ DeleteEnvironment
  BY <1>1, <1>2, <1>3, <1>6
  DEF Adopt, AdoptRestore, CreateEnvironment, ReadEnvironment, RestoreEnvironment,
      UpdateEnvironment, PersistReady, DeleteEnvironment, CallFails, Refused, AnswerLost
<1>7. CASE EditSpec \/ DeleteResource
  BY <1>7 DEF EditSpec, DeleteResource, CR!Put, CRTypeOK, Resources
<1>8. CASE ~Reconcile /\ ~EditSpec /\ ~DeleteResource
  BY <1>3, <1>8
  DEF Next, Crash, DeliverResource, CR!Deliver, Outside, RemoveOutside, ConfigureOutside,
      ChangeProject, LoseConnection, RestoreDependency
<1>. QED
  BY <1>4, <1>5, <1>6, <1>7, <1>8 DEF Reconcile

\* A resource of policy Delete does not disappear while the environment it
\* records, in the project recorded with it, is there: although the project that
\* the reference shows may be another one by then, and although any of the copies
\* read may have been stale.
THEOREM DeletionSafe == Spec => DeletionDeletesRecorded
<1> DEFINE Deleted ==
      /\ api.exists /\ ~api'.exists
      /\ api.finalizer /\ api.spec.deletion = "Delete" /\ api.status.environment # None
      /\ RecordedAtHome
      => remote'[api.status.environment].state # "Present"
<1>1. Typed /\ NamesInvariant /\ RecordInvariant /\ [Next]_vars => [Deleted]_vars
  <2> SUFFICES ASSUME Typed, NamesInvariant, RecordInvariant, Next,
                      api.exists, ~api'.exists, api.finalizer,
                      api.spec.deletion = "Delete", api.status.environment # None,
                      RecordedAtHome
               PROVE  remote'[api.status.environment].state # "Present"
    OBVIOUS
  <2> DEFINE e == api.status.environment
  <2>1. CASE BeginDeletion /\ NothingToDelete(cache) /\ CR!Current
    <3>1. cache = api
      BY <2>1 DEF CR!Current, RecordInvariant, CacheFollows
    <3>2. e \in EnvironmentIDs /\ remote[e].state # "Unused"
      BY DEF NamesInvariant, Recorded, Named, Resources, Statuses
    <3>3. api.status.project # None
      BY <3>2 DEF NamesInvariant, RecordedAtHome
    <3>. QED
      BY <2>1, <3>1, <3>3 DEF NothingToDelete
  <2>2. CASE DeleteFinalizer /\ mem.current /\ UNCHANGED remote
    <3>1. pc = "deleteFinalizer" /\ pc # Idle /\ mem.status = mem.before
      BY <2>2 DEF RecordInvariant, DeleteFinalizer, Deleting, Idle
    <3>2. mem.status.environment = e /\ mem.status.project = api.status.project
      BY <2>2, <3>1 DEF RecordInvariant
    <3>. QED
      BY <2>2, <3>1, <3>2 DEF RecordInvariant, AtHome, RecordedAtHome
  <2>. QED
    BY <2>1, <2>2, Disappears DEF Typed
<1>. QED
  BY <1>1, TypedHolds, NamesHold, RecordInvariantHolds, PTL DEF Spec, DeletionDeletesRecorded
=============================================================================
